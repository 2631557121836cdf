-------------------------------- MODULE Saga --------------------------------
(***************************************************************************)
(* One cross-region saga: the POST /sagas handler that creates it and asks *)
(* every region, the regional validation services, and the coordinators of *)
(* the journey-management instances, which collect the regional outcomes   *)
(* from Kafka, commit or abort, and recover the saga after a crash.        *)
(*                                                                         *)
(* Sagas share no state but the saga collection's other documents, and a   *)
(* coordinator handles one outcome at a time, so one saga is modelled.     *)
(* Regional validation (module Validation) is one step here.               *)
(***************************************************************************)
EXTENDS Naturals, Sequences, FiniteSets

CONSTANTS
    Region,         \* regions_involved
    Coordinator,    \* journey-management instances
    NoReply,        \* a coordinator that has no outcome in hand
    NoHolder,       \* the leader key is not set
    Budgets         \* the mixes of faults that can occur: how often each kind

FaultKind == {"crash", "key", "thread", "store", "send", "redeliver"}

Answer == {"APPROVED", "REJECTED"}
Reply  == [region : Region, outcome : Answer]

ASSUME SagaAssumption ==
    /\ Region # {}
    /\ IsFiniteSet(Region)
    /\ NoReply \notin Reply
    /\ NoHolder \notin Coordinator
    /\ Budgets \subseteq [FaultKind -> Nat]

VARIABLES
    creator,        \* where create_saga stands: "insert", "send", "done"
    unsent,         \* regions whose sub-booking it has still to send
    status,         \* status of the saga document, "NONE" before the insert
    answers,        \* its regional_outcomes
    requested,      \* sub-bookings on booking-requests, not yet consumed
    delivered,      \* sub-bookings consumed at least once
    reserved,       \* per region, how often the booking's places were counted in
    released,       \* per region, how many capacity-releases were sent
    docs,           \* per region, statuses of the booking's records, oldest first
    stray,          \* regions whose record went to the global data-service
    inbox,          \* outcomes on booking-outcomes, to be delivered
    consumed,       \* per coordinator, outcomes handled since its last commit
    verdicts,       \* final outcomes published
    key,            \* NODE_ID in the Redis key saga-coordinator-leader
    leaders,        \* coordinators that passed the election since they started
    pc,             \* per coordinator, where it stands
    hand,           \* per coordinator, the outcome it handles
    snap,           \* per coordinator, the regional outcomes it last read
    todo,           \* per coordinator, regions its loop has still to visit
    replaying,      \* coordinators whose step comes from the recovery, not from Kafka
    faults          \* per kind, faults so far

apiVars    == <<creator, unsent>>
regionVars == <<requested, delivered, reserved>>
sagaVars   == <<status, answers>>
coordVars  == <<pc, hand, snap, todo, replaying>>
effectVars == <<released, docs, stray, verdicts>>
queueVars  == <<inbox, consumed>>
leaderVars == <<key, leaders>>
vars == <<apiVars, regionVars, sagaVars, coordVars, effectVars, queueVars, leaderVars,
          faults>>

NoAnswers == [r \in Region |-> "NONE"]

Fault(kind) ==
    /\ faults' = [faults EXCEPT ![kind] = @ + 1]
    /\ \E b \in Budgets : \A k \in FaultKind : faults'[k] <= b[k]

Terminal == {"COMMITTED", "ABORTED", "FAILED"}

Goto(c, place) == pc' = [pc EXCEPT ![c] = place]

Init ==
    /\ creator = "insert"
    /\ unsent = Region
    /\ status = "NONE"
    /\ answers = NoAnswers
    /\ requested = {}
    /\ delivered = {}
    /\ reserved = [r \in Region |-> 0]
    /\ released = [r \in Region |-> 0]
    /\ docs = [r \in Region |-> <<>>]
    /\ stray = {}
    /\ inbox = {}
    /\ consumed = [c \in Coordinator |-> {}]
    /\ verdicts = {}
    /\ key = NoHolder
    /\ leaders = {}
    /\ pc = [c \in Coordinator |-> "standby"]
    /\ hand = [c \in Coordinator |-> NoReply]
    /\ snap = [c \in Coordinator |-> NoAnswers]
    /\ todo = [c \in Coordinator |-> {}]
    /\ replaying = {}
    /\ faults = [k \in FaultKind |-> 0]

----------------------------------------------------------------------------
(* create_saga *)

InsertSaga ==
    /\ creator = "insert"
    /\ status' = "PENDING"
    /\ creator' = "send"
    /\ UNCHANGED <<unsent, answers, regionVars, coordVars, effectVars, queueVars,
                   leaderVars, faults>>

(* send() only queues the message: when the broker refuses it for good,    *)
(* flush() returns all the same.                                           *)
SendSubBooking(r) ==
    /\ creator = "send"
    /\ r \in unsent
    /\ unsent' = unsent \ {r}
    /\ \/ requested' = requested \cup {r} /\ UNCHANGED faults
       \/ Fault("send") /\ UNCHANGED requested
    /\ creator' = IF unsent = {r} THEN "done" ELSE "send"
    /\ UNCHANGED <<delivered, reserved, sagaVars, coordVars, effectVars, queueVars,
                   leaderVars>>

(* A send raises, and what was sent stays sent.  The handler means to set  *)
(* the saga ABORTED, but passes the reason where update_saga_status takes  *)
(* the expected status: no saga has that status, the ValueError is         *)
(* swallowed, and the saga stays PENDING.                                  *)
SendFails ==
    /\ creator = "send"
    /\ Fault("send")
    /\ creator' = "done"
    /\ UNCHANGED <<unsent, sagaVars, regionVars, coordVars, effectVars, queueVars,
                   leaderVars>>

----------------------------------------------------------------------------
(* The regions *)

HasRecord(r) == docs[r] # <<>>

(* Validation of a sub-booking: its places are counted in, or it is        *)
(* rejected; nothing is recorded.                                          *)
Validate(r, outcome) ==
    /\ r \in requested
    /\ ~HasRecord(r)
    /\ requested' = requested \ {r}
    /\ delivered' = delivered \cup {r}
    /\ reserved' = [reserved EXCEPT ![r] = IF outcome = "APPROVED" THEN @ + 1 ELSE @]
    /\ inbox' = inbox \cup {[region |-> r, outcome |-> outcome]}
    /\ UNCHANGED <<apiVars, sagaVars, coordVars, effectVars, consumed, leaderVars, faults>>

(* The dedup check finds the record that the coordinator has written.      *)
SkipValidation(r) ==
    /\ r \in requested
    /\ HasRecord(r)
    /\ requested' = requested \ {r}
    /\ UNCHANGED <<apiVars, delivered, reserved, sagaVars, coordVars, effectVars,
                   queueVars, leaderVars, faults>>

(* The region crashes before it commits its offset.                        *)
Redeliver(r) ==
    /\ r \in delivered
    /\ Fault("redeliver")
    /\ requested' = requested \cup {r}
    /\ UNCHANGED <<apiVars, delivered, reserved, sagaVars, coordVars, effectVars,
                   queueVars, leaderVars>>

----------------------------------------------------------------------------
(* Leader election: _is_leader, _leader_renewal_loop and                   *)
(* _saga_coordinator_loop, then _recover_pending_sagas                     *)

(* Mutant: the key is set whoever holds it.                                *)
MayOverwrite(c) == TRUE

(* SET NX succeeds, or the key is the instance's own: a restarted          *)
(* container keeps its HOSTNAME.                                           *)
MayLead(c) == key \in {NoHolder, c}

(* Nothing ever takes a coordinator out of leaders but its crash: the loop *)
(* asks for the key until it has it, and never again.                      *)
TakeOver(c) ==
    /\ pc[c] = "standby"
    /\ MayLead(c)
    /\ key' = c
    /\ leaders' = leaders \cup {c}
    /\ Goto(c, "recover")
    /\ UNCHANGED <<apiVars, regionVars, sagaVars, hand, snap, todo, replaying, effectVars,
                   queueVars, faults>>

(* _is_leader raises while Redis is unreachable: the loop's thread ends.   *)
ElectionRaises(c) ==
    /\ pc[c] = "standby"
    /\ Fault("thread")
    /\ Goto(c, "dead")
    /\ UNCHANGED <<apiVars, regionVars, sagaVars, hand, snap, todo, replaying, effectVars,
                   queueVars, leaderVars>>

(* The TTL of 30 s ends a key that nobody renews.                          *)
ExpireKey ==
    /\ key \notin leaders \cup {NoHolder}
    /\ key' = NoHolder
    /\ UNCHANGED <<apiVars, regionVars, sagaVars, coordVars, effectVars, queueVars,
                   leaders, faults>>

(* Redis restarts without its data, or the leader's renewals fail for 30   *)
(* seconds; the renewal loop renews no key that is not its own.            *)
LoseKey ==
    /\ key \in leaders
    /\ Fault("key")
    /\ key' = NoHolder
    /\ UNCHANGED <<apiVars, regionVars, sagaVars, coordVars, effectVars, queueVars,
                   leaders>>

(* Mutant: the first answer is taken for all.                              *)
SomeAnswered(a) == \E r \in Region : a[r] # "NONE"

AllAnswered(a) == \A r \in Region : a[r] # "NONE"
Approvers(a)   == {r \in Region : a[r] = "APPROVED"}

(* Mutant: the recovery trusts that the releases were sent.                *)
RecoverWithoutRelease(c) ==
    /\ pc[c] = "recover"
    /\ status = "ABORTING"
    /\ snap' = [snap EXCEPT ![c] = answers]
    /\ todo' = [todo EXCEPT ![c] = {}]
    /\ replaying' = replaying \cup {c}
    /\ Goto(c, "release")
    /\ UNCHANGED <<apiVars, regionVars, sagaVars, hand, effectVars, queueVars, leaderVars,
                   faults>>

(* An ABORTING saga: start its compensation all over again.                *)
RecoverAborting(c) ==
    /\ pc[c] = "recover"
    /\ status = "ABORTING"
    /\ snap' = [snap EXCEPT ![c] = answers]
    /\ todo' = [todo EXCEPT ![c] = Approvers(answers)]
    /\ replaying' = replaying \cup {c}
    /\ Goto(c, "release")
    /\ UNCHANGED <<apiVars, regionVars, sagaVars, hand, effectVars, queueVars, leaderVars,
                   faults>>

(* A PENDING saga with all its outcomes: handle one of them again.         *)
RecoverAnswered(c, r) ==
    /\ pc[c] = "recover"
    /\ status = "PENDING"
    /\ AllAnswered(answers)
    /\ hand' = [hand EXCEPT ![c] = [region |-> r, outcome |-> answers[r]]]
    /\ replaying' = replaying \cup {c}
    /\ Goto(c, "read")
    /\ UNCHANGED <<apiVars, regionVars, sagaVars, snap, todo, effectVars, queueVars,
                   leaderVars, faults>>

RecoverNothing(c) ==
    /\ pc[c] = "recover"
    /\ ~(status = "ABORTING" \/ (status = "PENDING" /\ AllAnswered(answers)))
    /\ Goto(c, "poll")
    /\ UNCHANGED <<apiVars, regionVars, sagaVars, hand, snap, todo, replaying, effectVars,
                   queueVars, leaderVars, faults>>

----------------------------------------------------------------------------
(* _saga_outcome_consumer and _advance_saga *)

Deliver(c, m) ==
    /\ pc[c] = "poll"
    /\ m \in inbox
    /\ inbox' = inbox \ {m}
    /\ hand' = [hand EXCEPT ![c] = m]
    /\ Goto(c, "read")
    /\ UNCHANGED <<apiVars, regionVars, sagaVars, snap, todo, replaying, effectVars,
                   consumed, leaderVars, faults>>

CommitOffsets(c) ==
    /\ pc[c] = "poll"
    /\ consumed[c] # {}
    /\ consumed' = [consumed EXCEPT ![c] = {}]
    /\ UNCHANGED <<apiVars, regionVars, sagaVars, coordVars, effectVars, inbox,
                   leaderVars, faults>>

(* The message of booking-outcomes that a coordinator works on: none while *)
(* it polls, and none while it replays an outcome in the recovery.         *)
Message(c) == IF c \in replaying THEN {} ELSE {hand[c]} \ {NoReply}

(* Back to the consumer loop.                                              *)
Finish(c) ==
    /\ Goto(c, "poll")
    /\ consumed' = [consumed EXCEPT ![c] = @ \cup Message(c)]
    /\ replaying' = replaying \ {c}
    /\ hand' = [hand EXCEPT ![c] = NoReply]
    /\ todo' = [todo EXCEPT ![c] = {}]
    /\ UNCHANGED <<snap, inbox>>

(* Mutant: no saga is ever taken for settled.                              *)
NeverSettled == status # "NONE"

StillOpen == status \in {"PENDING", "ABORTING"}

(* get_saga: a settled saga ignores the outcome.                           *)
ReadStatus(c) ==
    /\ pc[c] = "read"
    /\ IF StillOpen
         THEN Goto(c, "update") /\ UNCHANGED <<hand, snap, todo, replaying, queueVars>>
         ELSE Finish(c)
    /\ UNCHANGED <<apiVars, regionVars, sagaVars, effectVars, leaderVars, faults>>

(* The first half of update_saga_regional_outcome: the later outcome wins. *)
UpdateOutcome(c) ==
    /\ pc[c] = "update"
    /\ answers' = [answers EXCEPT ![hand[c].region] = hand[c].outcome]
    /\ Goto(c, "reread")
    /\ UNCHANGED <<apiVars, regionVars, status, hand, replaying, snap, todo,
                   effectVars, queueVars, leaderVars, faults>>

(* Its second half, and the wait for the other regions.                    *)
RereadOutcomes(c) ==
    /\ pc[c] = "reread"
    /\ IF AllAnswered(answers)
         THEN /\ snap' = [snap EXCEPT ![c] = answers]
              /\ Goto(c, "decide")
              /\ UNCHANGED <<hand, todo, replaying, queueVars>>
         ELSE Finish(c)
    /\ UNCHANGED <<apiVars, regionVars, sagaVars, effectVars, leaderVars, faults>>

(* Mutant: a saga aborts only when every region rejects.                   *)
AllRejected(a) == \A r \in Region : a[r] = "REJECTED"

AnyRejected(a) == \E r \in Region : a[r] = "REJECTED"

(* update_saga_status, as _advance_saga calls it: whatever the status was. *)
SetStatus(st) == status' = st

StartAbort(c) ==
    /\ pc[c] = "decide"
    /\ AnyRejected(snap[c])
    /\ SetStatus("ABORTING")
    /\ todo' = [todo EXCEPT ![c] = Approvers(snap[c])]
    /\ Goto(c, "release")
    /\ UNCHANGED <<apiVars, regionVars, answers, hand, replaying, snap, effectVars,
                   queueVars, leaderVars, faults>>

SendRelease(c, r) ==
    /\ pc[c] = "release"
    /\ r \in todo[c]
    /\ \/ released' = [released EXCEPT ![r] = @ + 1] /\ UNCHANGED faults
       \/ Fault("send") /\ UNCHANGED released
    /\ todo' = [todo EXCEPT ![c] = @ \ {r}]
    /\ UNCHANGED <<apiVars, regionVars, sagaVars, pc, hand, replaying, snap, docs,
                   stray, verdicts, queueVars, leaderVars>>

ReleasesSent(c) ==
    /\ pc[c] = "release"
    /\ todo[c] = {}
    /\ todo' = [todo EXCEPT ![c] = Region]
    /\ Goto(c, "reject")
    /\ UNCHANGED <<apiVars, regionVars, sagaVars, hand, replaying, snap, effectVars,
                   queueVars, leaderVars, faults>>

AddRecord(r, st) == docs' = [docs EXCEPT ![r] = Append(@, st)]

(* The rejected record of a region, which is only logged when it fails.    *)
WriteRejected(c, r) ==
    /\ pc[c] = "reject"
    /\ r \in todo[c]
    /\ todo' = [todo EXCEPT ![c] = @ \ {r}]
    /\ \/ AddRecord(r, "rejected") /\ UNCHANGED faults
       \/ Fault("store") /\ UNCHANGED docs
    /\ UNCHANGED <<apiVars, regionVars, sagaVars, pc, hand, replaying, snap,
                   released, stray, verdicts, queueVars, leaderVars>>

SetAborted(c) ==
    /\ pc[c] = "reject"
    /\ todo[c] = {}
    /\ SetStatus("ABORTED")
    /\ Goto(c, "tell_rejected")
    /\ UNCHANGED <<apiVars, regionVars, answers, hand, replaying, snap, todo,
                   effectVars, queueVars, leaderVars, faults>>

StartCommit(c) ==
    /\ pc[c] = "decide"
    /\ ~AnyRejected(snap[c])
    /\ todo' = [todo EXCEPT ![c] = Region]
    /\ Goto(c, "commit")
    /\ UNCHANGED <<apiVars, regionVars, sagaVars, hand, replaying, snap, effectVars,
                   queueVars, leaderVars, faults>>

(* Mutant: no fallback to the global data-service.                         *)
WriteApprovedOnce(c, r) ==
    /\ pc[c] = "commit"
    /\ r \in todo[c]
    /\ todo' = [todo EXCEPT ![c] = @ \ {r}]
    /\ \/ AddRecord(r, "approved") /\ UNCHANGED faults
       \/ Fault("store") /\ UNCHANGED docs
    /\ UNCHANGED <<apiVars, regionVars, sagaVars, pc, hand, replaying, snap,
                   released, stray, verdicts, queueVars, leaderVars>>

(* The approved record of a region, or, when the region does not answer,   *)
(* the same record in the global data-service.                             *)
WriteApproved(c, r) ==
    /\ pc[c] = "commit"
    /\ r \in todo[c]
    /\ todo' = [todo EXCEPT ![c] = @ \ {r}]
    /\ \/ AddRecord(r, "approved") /\ UNCHANGED <<stray, faults>>
       \/ Fault("store") /\ stray' = stray \cup {r} /\ UNCHANGED docs
    /\ UNCHANGED <<apiVars, regionVars, sagaVars, pc, hand, replaying, snap,
                   released, verdicts, queueVars, leaderVars>>

SetCommitted(c) ==
    /\ pc[c] = "commit"
    /\ todo[c] = {}
    /\ SetStatus("COMMITTED")
    /\ Goto(c, "tell_approved")
    /\ UNCHANGED <<apiVars, regionVars, answers, hand, replaying, snap, todo,
                   effectVars, queueVars, leaderVars, faults>>

Tell(c) ==
    /\ \/ pc[c] = "tell_approved" /\ verdicts' = verdicts \cup {"APPROVED"}
       \/ pc[c] = "tell_rejected" /\ verdicts' = verdicts \cup {"REJECTED"}
    /\ Finish(c)
    /\ UNCHANGED <<apiVars, regionVars, sagaVars, released, docs, stray, leaderVars, faults>>

(* A data-service repeats an insert whose answer it lost.                  *)
WriteRepeated(c, r) ==
    /\ pc[c] \in {"reject", "commit"}
    /\ r \in todo[c]
    /\ Fault("store")
    /\ AddRecord(r, IF pc[c] = "commit" THEN "approved" ELSE "rejected")
    /\ UNCHANGED <<apiVars, regionVars, sagaVars, coordVars, released, stray, verdicts,
                   queueVars, leaderVars>>

(* Any other exception in _advance_saga: FAILED (if that can be stored),   *)
(* with no compensation.  In the recovery of an ABORTING saga, where no    *)
(* outcome is in hand, it is only logged.                                  *)
StepFails(c) ==
    /\ pc[c] \notin {"standby", "recover", "poll", "dead"}
    /\ Fault("store")
    /\ IF hand[c] = NoReply THEN UNCHANGED status ELSE status' \in {"FAILED", status}
    /\ Finish(c)
    /\ UNCHANGED <<apiVars, regionVars, answers, effectVars, leaderVars>>

(* Mutant: the outcome in hand is acknowledged before it is handled.       *)
RedeliverableOnly(c) == consumed[c]

(* What the instance had consumed and not committed is delivered again.    *)
Redeliverable(c) == consumed[c] \cup Message(c)

(* The consumer loop raises and its thread ends; the instance stays alive, *)
(* and its renewal thread keeps it the leader.                             *)
ConsumerDies(c) ==
    /\ pc[c] = "poll"
    /\ Fault("thread")
    /\ inbox' = inbox \cup Redeliverable(c)
    /\ consumed' = [consumed EXCEPT ![c] = {}]
    /\ Goto(c, "dead")
    /\ UNCHANGED <<apiVars, regionVars, sagaVars, hand, snap, todo, replaying, effectVars,
                   leaderVars>>

(* The instance dies and restarts.                                         *)
Crash(c) ==
    /\ pc[c] # "standby"
    /\ Fault("crash")
    /\ leaders' = leaders \ {c}
    /\ inbox' = inbox \cup Redeliverable(c)
    /\ consumed' = [consumed EXCEPT ![c] = {}]
    /\ Goto(c, "standby")
    /\ hand' = [hand EXCEPT ![c] = NoReply]
    /\ snap' = [snap EXCEPT ![c] = NoAnswers]
    /\ todo' = [todo EXCEPT ![c] = {}]
    /\ replaying' = replaying \ {c}
    /\ UNCHANGED <<apiVars, regionVars, sagaVars, effectVars, key>>

----------------------------------------------------------------------------
Create == InsertSaga \/ \E r \in Region : SendSubBooking(r)

Answering(r) == SkipValidation(r) \/ \E o \in Answer : Validate(r, o)

Coordinate(c) ==
    \/ RecoverAborting(c)
    \/ RecoverNothing(c)
    \/ ReadStatus(c)
    \/ UpdateOutcome(c)
    \/ RereadOutcomes(c)
    \/ StartAbort(c)
    \/ ReleasesSent(c)
    \/ SetAborted(c)
    \/ StartCommit(c)
    \/ SetCommitted(c)
    \/ Tell(c)
    \/ \E m \in Reply : Deliver(c, m)
    \/ \E r \in Region :
         \/ RecoverAnswered(c, r)
         \/ SendRelease(c, r)
         \/ WriteRejected(c, r)
         \/ WriteApproved(c, r)

Next ==
    \/ Create
    \/ SendFails
    \/ \E r \in Region : Answering(r) \/ Redeliver(r)
    \/ ExpireKey
    \/ LoseKey
    \/ \E c \in Coordinator :
         TakeOver(c) \/ ElectionRaises(c) \/ Coordinate(c) \/ CommitOffsets(c) \/ StepFails(c)
         \/ ConsumerDies(c) \/ Crash(c) \/ (\E r \in Region : WriteRepeated(c, r))

Spec == Init /\ [][Next]_vars

(* The handler runs to its end, every region's validation service is up,   *)
(* TTLs run out, standbys poll every 5 s, and the leader's thread goes on. *)
Fairness ==
    /\ WF_vars(Create)
    /\ \A r \in Region : WF_vars(Answering(r))
    /\ WF_vars(ExpireKey)
    /\ WF_vars(\E c \in Coordinator : TakeOver(c))
    /\ \A c \in Coordinator : WF_vars(Coordinate(c))

FairSpec == Spec /\ Fairness

----------------------------------------------------------------------------
Place == {"standby", "recover", "poll", "read", "update", "reread", "decide",
          "release", "reject", "commit", "tell_approved", "tell_rejected", "dead"}

(* Type correctness: every variable of the saga and of its coordinators    *)
(* holds values the code can put there.                                    *)
SagaTypeOK ==
    /\ creator \in {"insert", "send", "done"}
    /\ unsent \subseteq Region
    /\ status \in {"NONE", "PENDING", "ABORTING"} \cup Terminal
    /\ answers \in [Region -> Answer \cup {"NONE"}]
    /\ requested \subseteq Region
    /\ delivered \subseteq Region
    /\ reserved \in [Region -> Nat]
    /\ released \in [Region -> Nat]
    /\ docs \in [Region -> Seq({"approved", "rejected"})]
    /\ stray \subseteq Region
    /\ inbox \subseteq Reply
    /\ consumed \in [Coordinator -> SUBSET Reply]
    /\ verdicts \subseteq Answer
    /\ key \in Coordinator \cup {NoHolder}
    /\ leaders \subseteq Coordinator
    /\ pc \in [Coordinator -> Place]
    /\ hand \in [Coordinator -> Reply \cup {NoReply}]
    /\ snap \in [Coordinator -> [Region -> Answer \cup {"NONE"}]]
    /\ todo \in [Coordinator -> SUBSET Region]
    /\ replaying \subseteq Coordinator
    /\ faults \in [FaultKind -> Nat]

(* A booking that is reported approved holds its places in every region,   *)
(* and a saga that committed never gave any of them back: the compensation *)
(* of _advance_saga and of the recovery exclude its commit.                *)
ApprovedKeepsPlaces ==
    "APPROVED" \in verdicts \/ status = "COMMITTED" =>
        \A r \in Region : reserved[r] >= 1 /\ released[r] = 0

(* A booking that is reported rejected has been compensated: every region  *)
(* whose last answer was an approval was sent a capacity-release, over     *)
(* crashes and recoveries, unless the broker lost a message.               *)
RejectedIsCompensated ==
    "REJECTED" \in verdicts /\ faults["send"] = 0 =>
        \A r \in Approvers(answers) : released[r] >= 1

(* A committed saga has a record for every region it crosses, in that      *)
(* region or else in the global data-service, whoever wrote it and however *)
(* often the commit was interrupted.                                       *)
CommittedIsRecorded ==
    status = "COMMITTED" =>
        \A r \in Region : r \in stray \/ "approved" \in {docs[r][i] : i \in 1 .. Len(docs[r])}

(* What the saga decided, as the driver of the booking may understand it.  *)
Decision ==
    CASE status = "COMMITTED"               -> "commit"
      [] status \in {"ABORTING", "ABORTED"} -> "abort"
      [] status = "FAILED"                  -> "failed"
      [] OTHER                              -> "open"

Booking == INSTANCE AtomicBooking WITH
               vote <- answers, decision <- Decision, told <- verdicts

(* The saga implements an atomic booking: it commits only on unanimous     *)
(* approval, never after it began to abort, and tells the driver nothing   *)
(* but its decision.                                                       *)
BookingSpec == Booking!Spec

(* README.md: only one journey-management instance runs the coordinator.   *)
(* Over crashes, restarts and expiries that holds as long as the leader's  *)
(* own key is never lost: a restarted instance that still owns the key and *)
(* the standby that waits for it never both lead.                          *)
OneCoordinator == faults["key"] = 0 => Cardinality(leaders) <= 1

(* A saga all of whose regions answered settles, over crashes of its       *)
(* coordinators, as long as storage and threads hold.                      *)
SagaSettles ==
    (status = "PENDING" /\ creator = "done" /\ unsent = {})
        ~> (status \in Terminal \/ \E k \in {"store", "thread", "send"} : faults[k] > 0)
=============================================================================
