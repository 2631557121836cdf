---------------------------- MODULE BookingProofs ----------------------------
(***************************************************************************)
(* What a saga does for its booking, for any number of regions and         *)
(* coordinators: approved bookings keep their places, rejected ones give   *)
(* theirs back, and the saga implements AtomicBooking.                     *)
(*                                                                         *)
(* None of this holds of every mix of faults.  The hypotheses say which    *)
(* faults may not come together in one budget.  There are two arguments:   *)
(* without redelivery every region answers once, so all that coordinators  *)
(* know agrees, however many they are (Once); with redelivery answers may  *)
(* change, but a single coordinator whose updates do not fail decides on   *)
(* the answers it has stored (Firm).                                       *)
(***************************************************************************)
EXTENDS SagaProofs

(* No budget lets a region answer again beside a second leader or a        *)
(* failing update.                                                         *)
AnswersApart ==
    \A b \in Budgets : b["redeliver"] = 0 \/ (b["key"] = 0 /\ b["store"] = 0)

(* Nor a second leader beside a failing update.                            *)
FaultsApart ==
    AnswersApart /\ \A b \in Budgets : b["key"] = 0 \/ b["store"] = 0

----------------------------------------------------------------------------
(* What a step may do.                                                     *)

(* A reply that is on its way, or in hand, or handled and not committed.   *)
Reported(m) ==
    m \in inbox \/ \E c \in Coordinator : m \in consumed[c] \/ m = hand[c]

Working(c) == pc[c] \notin {"standby", "dead"}

RegionsMove ==
    /\ unsent' \subseteq unsent
    /\ unsent' \cap (requested' \cup delivered') \subseteq requested \cup delivered
    /\ requested' \subseteq requested \cup unsent \/ faults'["redeliver"] > 0
    /\ \A r \in Region :
         \/ reserved'[r] = reserved[r]
         \/ r \in requested /\ r \notin requested' /\ reserved'[r] >= reserved[r]

CreatorMoves ==
    \/ UNCHANGED creator /\ (unsent' = unsent \/ (creator = "send" /\ unsent' # {}))
    \/ creator = "insert" /\ creator' = "send" /\ unsent' = unsent /\ status' = "PENDING"
    \/ creator = "send" /\ creator' = "done"

RepliesMove ==
    \A m \in Reply : Reported(m)' =>
        Reported(m) \/ answers[m.region] = m.outcome \/ Validate(m.region, m.outcome)

AnswersMove ==
    \A r \in Region : answers'[r] # answers[r] =>
        \E c \in Coordinator :
            /\ pc[c] = "update" /\ pc'[c] = "reread"
            /\ hand[c].region = r /\ hand[c].outcome = answers'[r]

StatusMoves ==
    \/ status' = status
    \/ creator = "insert" /\ creator' = "send" /\ status' = "PENDING"
    \/ creator = "send" /\ creator' = "done" /\ unsent' = unsent /\ status' = "ABORTED"
    \/ \E c \in Coordinator :
         \/ /\ pc[c] = "decide" /\ pc'[c] = "release"
            /\ AnyRejected(snap[c]) /\ status' = "ABORTING"
         \/ pc[c] = "reject" /\ pc'[c] = "tell_rejected" /\ status' = "ABORTED"
         \/ pc[c] = "commit" /\ pc'[c] = "tell_approved" /\ status' = "COMMITTED"
         \/ /\ Working(c) /\ pc'[c] = "poll" /\ hand[c] \in Reply
            /\ faults'["store"] > 0 /\ status' = "FAILED"

VerdictsMove ==
    \/ verdicts' = verdicts
    \/ \E c \in Coordinator :
         \/ pc[c] = "tell_approved" /\ verdicts' = verdicts \cup {"APPROVED"}
         \/ pc[c] = "tell_rejected" /\ verdicts' = verdicts \cup {"REJECTED"}

ReleasesMove ==
    \A r \in Region : released'[r] # released[r] =>
        released'[r] >= 1 /\ \E c \in Coordinator : pc[c] = "release"

LeadersMove ==
    \A c \in leaders : c \in leaders' \/ pc'[c] = "standby"

Keeps(c) == hand'[c] = hand[c] /\ snap'[c] = snap[c]

Stays(c)    == pc'[c] = pc[c] /\ Keeps(c) /\ todo'[c] = todo[c]
Writes(c)   == pc[c] \in {"reject", "commit"} /\ pc'[c] = pc[c] /\ Keeps(c)
Releases(c) ==
    /\ pc[c] = "release" /\ pc'[c] = "release" /\ Keeps(c)
    /\ \E r \in todo[c] :
         todo'[c] = todo[c] \ {r} /\ (released'[r] >= 1 \/ faults'["send"] > 0)

Ends(c)  == pc'[c] \in {"standby", "dead"} /\ snap'[c] \in {snap[c], NoAnswers}
Leads(c) == pc[c] = "standby" /\ pc'[c] = "recover" /\ c \in leaders' /\ Keeps(c)
Polls(c) ==
    /\ pc'[c] = "poll" /\ snap'[c] = snap[c]
    /\ \/ pc[c] = "recover" /\ status # "ABORTING"
          /\ ~(status = "PENDING" /\ AllAnswered(answers))
       \/ pc[c] = "read" /\ ~StillOpen
       \/ pc[c] = "reread" /\ ~AllAnswered(answers)
       \/ pc[c] \in {"tell_approved", "tell_rejected"}
       \/ Working(c) /\ faults'["store"] > 0

Reads(c) ==
    /\ pc'[c] = "read" /\ snap'[c] = snap[c] /\ hand'[c] \in Reply
    /\ \/ pc[c] = "poll"
       \/ /\ pc[c] = "recover" /\ status = "PENDING"
          /\ answers[hand'[c].region] = hand'[c].outcome

Updates(c) == pc[c] = "read" /\ pc'[c] = "update" /\ StillOpen /\ Keeps(c)
Rereads(c) == pc[c] = "update" /\ pc'[c] = "reread" /\ Keeps(c)

Decides(c) ==
    pc[c] = "reread" /\ pc'[c] = "decide" /\ AllAnswered(answers) /\ snap'[c] = answers

Resumes(c) ==
    /\ pc[c] = "recover" /\ pc'[c] = "release" /\ status = "ABORTING"
    /\ snap'[c] = answers /\ todo'[c] = Approvers(answers)

Aborts(c) ==
    /\ pc[c] = "decide" /\ pc'[c] = "release" /\ AnyRejected(snap[c]) /\ Keeps(c)
    /\ todo'[c] = Approvers(snap[c]) /\ status' = "ABORTING"

Commits(c) == pc[c] = "decide" /\ pc'[c] = "commit" /\ ~AnyRejected(snap[c]) /\ Keeps(c)
Rejects(c) == pc[c] = "release" /\ pc'[c] = "reject" /\ todo[c] = {} /\ Keeps(c)

Denies(c) == pc[c] = "reject" /\ pc'[c] = "tell_rejected" /\ status' = "ABORTED" /\ Keeps(c)
Grants(c) == pc[c] = "commit" /\ pc'[c] = "tell_approved" /\ status' = "COMMITTED" /\ Keeps(c)

Moves(c) ==
    \/ Stays(c) \/ Writes(c) \/ Releases(c) \/ Ends(c) \/ Leads(c) \/ Polls(c)
    \/ Reads(c) \/ Updates(c) \/ Rereads(c) \/ Decides(c) \/ Resumes(c) \/ Aborts(c)
    \/ Commits(c) \/ Rejects(c) \/ Denies(c) \/ Grants(c)

CoordinatorsMove == \A c \in Coordinator : Moves(c)

----------------------------------------------------------------------------
(* Faults only add up, within a budget.                                    *)
FaultsMove ==
    /\ \A k \in FaultKind : faults'[k] >= faults[k]
    /\ faults' = faults \/ \E b \in Budgets : \A k \in FaultKind : faults'[k] <= b[k]

LEMMA FaultsStep ==
    TypeInv /\ [Next]_vars => FaultsMove
<1> SUFFICES ASSUME TypeInv, [Next]_vars PROVE FaultsMove
  OBVIOUS
<1>t. faults \in [FaultKind -> Nat]
  BY DEF TypeInv, SagaTypeOK
<1>f. ASSUME UNCHANGED faults \/ \E k \in FaultKind : Fault(k) PROVE FaultsMove
  BY <1>f, <1>t, FaultsAddUp DEF Fault, FaultsMove
<1>1. CASE InsertSaga
  BY <1>1, <1>f DEF InsertSaga
<1>2. ASSUME NEW r \in Region, SendSubBooking(r) PROVE FaultsMove
  BY <1>2, <1>f DEF SendSubBooking, FaultKind
<1>3. CASE SendFails
  BY <1>3, <1>f DEF SendFails, FaultKind
<1>4. ASSUME NEW r \in Region, SkipValidation(r) PROVE FaultsMove
  BY <1>4, <1>f DEF SkipValidation
<1>5. ASSUME NEW r \in Region, NEW o \in Answer, Validate(r, o) PROVE FaultsMove
  BY <1>5, <1>f DEF Validate
<1>6. ASSUME NEW r \in Region, Redeliver(r) PROVE FaultsMove
  BY <1>6, <1>f DEF Redeliver, FaultKind
<1>7. CASE ExpireKey
  BY <1>7, <1>f DEF ExpireKey
<1>8. CASE LoseKey
  BY <1>8, <1>f DEF LoseKey, FaultKind
<1>9. ASSUME NEW c \in Coordinator, TakeOver(c) PROVE FaultsMove
  BY <1>9, <1>f DEF TakeOver
<1>10. ASSUME NEW c \in Coordinator, ElectionRaises(c) PROVE FaultsMove
  BY <1>10, <1>f DEF ElectionRaises, FaultKind
<1>11. ASSUME NEW c \in Coordinator, RecoverAborting(c) PROVE FaultsMove
  BY <1>11, <1>f DEF RecoverAborting
<1>12. ASSUME NEW c \in Coordinator, NEW r \in Region, RecoverAnswered(c, r)
      PROVE  FaultsMove
  BY <1>12, <1>f DEF RecoverAnswered
<1>13. ASSUME NEW c \in Coordinator, RecoverNothing(c) PROVE FaultsMove
  BY <1>13, <1>f DEF RecoverNothing
<1>14. ASSUME NEW c \in Coordinator, NEW m \in Reply, Deliver(c, m) PROVE FaultsMove
  BY <1>14, <1>f DEF Deliver
<1>15. ASSUME NEW c \in Coordinator, ReadStatus(c) PROVE FaultsMove
  BY <1>15, <1>f DEF ReadStatus
<1>16. ASSUME NEW c \in Coordinator, UpdateOutcome(c) PROVE FaultsMove
  BY <1>16, <1>f DEF UpdateOutcome
<1>17. ASSUME NEW c \in Coordinator, RereadOutcomes(c) PROVE FaultsMove
  BY <1>17, <1>f DEF RereadOutcomes
<1>18. ASSUME NEW c \in Coordinator, StartAbort(c) PROVE FaultsMove
  BY <1>18, <1>f DEF StartAbort
<1>19. ASSUME NEW c \in Coordinator, NEW r \in Region, SendRelease(c, r)
      PROVE  FaultsMove
  BY <1>19, <1>f DEF SendRelease, FaultKind
<1>20. ASSUME NEW c \in Coordinator, ReleasesSent(c) PROVE FaultsMove
  BY <1>20, <1>f DEF ReleasesSent
<1>21. ASSUME NEW c \in Coordinator, NEW r \in Region, WriteRejected(c, r)
      PROVE  FaultsMove
  BY <1>21, <1>f DEF WriteRejected, FaultKind
<1>22. ASSUME NEW c \in Coordinator, SetAborted(c) PROVE FaultsMove
  BY <1>22, <1>f DEF SetAborted
<1>23. ASSUME NEW c \in Coordinator, StartCommit(c) PROVE FaultsMove
  BY <1>23, <1>f DEF StartCommit
<1>24. ASSUME NEW c \in Coordinator, NEW r \in Region, WriteApproved(c, r)
      PROVE  FaultsMove
  BY <1>24, <1>f DEF WriteApproved, FaultKind
<1>25. ASSUME NEW c \in Coordinator, SetCommitted(c) PROVE FaultsMove
  BY <1>25, <1>f DEF SetCommitted
<1>26. ASSUME NEW c \in Coordinator, Tell(c) PROVE FaultsMove
  BY <1>26, <1>f DEF Tell
<1>27. ASSUME NEW c \in Coordinator, CommitOffsets(c) PROVE FaultsMove
  BY <1>27, <1>f DEF CommitOffsets
<1>28. ASSUME NEW c \in Coordinator, NEW r \in Region, WriteRepeated(c, r)
      PROVE  FaultsMove
  BY <1>28, <1>f DEF WriteRepeated, FaultKind
<1>29. ASSUME NEW c \in Coordinator, StepFails(c) PROVE FaultsMove
  BY <1>29, <1>f DEF StepFails, FaultKind
<1>30. ASSUME NEW c \in Coordinator, ConsumerDies(c) PROVE FaultsMove
  BY <1>30, <1>f DEF ConsumerDies, FaultKind
<1>31. ASSUME NEW c \in Coordinator, Crash(c) PROVE FaultsMove
  BY <1>31, <1>f DEF Crash, FaultKind
<1>32. CASE UNCHANGED vars
  BY <1>32, <1>f DEF vars
<1> QED
  BY <1>1, <1>2, <1>3, <1>4, <1>5, <1>6, <1>7, <1>8, <1>9, <1>10, <1>11, <1>12,
     <1>13, <1>14, <1>15, <1>16, <1>17, <1>18, <1>19, <1>20, <1>21, <1>22, <1>23, <1>24,
     <1>25, <1>26, <1>27, <1>28, <1>29, <1>30, <1>31, <1>32
  DEF Next, Create, Answering, Coordinate

(* Nothing is reported that was not, when handled replies change hands.    *)
LEMMA HandledReplies ==
    ASSUME TypeInv, NEW c \in Coordinator,
           inbox' \subseteq inbox \cup Redeliverable(c),
           consumed' = [consumed EXCEPT ![c] = {}] \/
           consumed' = [consumed EXCEPT ![c] = @ \cup Message(c)],
           \A d \in Coordinator : hand'[d] \in {hand[d], NoReply}
    PROVE  \A m \in Reply : Reported(m)' => Reported(m)
<1> SUFFICES ASSUME NEW m \in Reply, Reported(m)' PROVE Reported(m)
  OBVIOUS
<1>t. consumed \in [Coordinator -> SUBSET Reply] /\ m # NoReply
  BY SagaAssumption DEF TypeInv, SagaTypeOK
<1>r. m \in Redeliverable(c) => Reported(m)
  BY DEF Redeliverable, Message, Reported
<1>1. CASE m \in inbox'
  BY <1>1, <1>r DEF Reported
<1>2. ASSUME NEW d \in Coordinator, m \in consumed'[d] PROVE Reported(m)
  <2>1. m \in consumed[d] \/ (d = c /\ m \in Redeliverable(c))
    BY <1>2, <1>t DEF Redeliverable
  <2> QED
    BY <2>1, <1>r DEF Reported
<1>3. ASSUME NEW d \in Coordinator, m = hand'[d] PROVE Reported(m)
  BY <1>3, <1>t DEF Reported
<1> QED
  BY <1>1, <1>2, <1>3 DEF Reported

LEMMA FinishReplies ==
    ASSUME TypeInv, NEW c \in Coordinator, Finish(c)
    PROVE  \A m \in Reply : Reported(m)' => Reported(m)
<1>1. /\ inbox' \subseteq inbox \cup Redeliverable(c)
      /\ consumed' = [consumed EXCEPT ![c] = @ \cup Message(c)]
      /\ \A d \in Coordinator : hand'[d] \in {hand[d], NoReply}
  BY DEF Finish, TypeInv, SagaTypeOK
<1> QED
  BY <1>1, HandledReplies

(* Every step makes one of these moves.                                    *)
StepMoves ==
    /\ RegionsMove /\ CreatorMoves
    /\ StatusMoves /\ AnswersMove
    /\ VerdictsMove /\ ReleasesMove
    /\ RepliesMove /\ LeadersMove
    /\ CoordinatorsMove

LEMMA StepsMove == TypeInv /\ [Next]_vars => StepMoves
<1> SUFFICES ASSUME TypeInv, [Next]_vars PROVE StepMoves
  OBVIOUS
<1>t. /\ faults \in [FaultKind -> Nat] /\ reserved \in [Region -> Nat]
      /\ released \in [Region -> Nat] /\ "redeliver" \in FaultKind
      /\ "store" \in FaultKind /\ "send" \in FaultKind
      /\ unsent \subseteq Region /\ answers \in [Region -> Answer \cup {"NONE"}]
  BY DEF TypeInv, SagaTypeOK, FaultKind
<1>c. /\ pc \in [Coordinator -> Place] /\ hand \in [Coordinator -> Reply \cup {NoReply}]
      /\ snap \in [Coordinator -> [Region -> Answer \cup {"NONE"}]]
      /\ todo \in [Coordinator -> SUBSET Region]
      /\ consumed \in [Coordinator -> SUBSET Reply]
  BY DEF TypeInv, SagaTypeOK
<1>f. ASSUME NEW k \in FaultKind, Fault(k) PROVE faults'[k] > 0
  BY <1>f, <1>t, FaultsAddUp
<1>R. ASSUME UNCHANGED <<apiVars, regionVars>> PROVE RegionsMove /\ CreatorMoves
  BY <1>R, <1>t DEF apiVars, regionVars, RegionsMove, CreatorMoves
<1>S. ASSUME UNCHANGED sagaVars PROVE StatusMoves /\ AnswersMove
  BY <1>S DEF sagaVars, StatusMoves, AnswersMove
<1>E. ASSUME UNCHANGED effectVars PROVE VerdictsMove /\ ReleasesMove
  BY <1>E DEF effectVars, VerdictsMove, ReleasesMove
<1>Q. ASSUME UNCHANGED <<inbox, consumed, hand>> PROVE RepliesMove
  BY <1>Q DEF RepliesMove, Reported
<1>L. ASSUME UNCHANGED leaders PROVE LeadersMove
  BY <1>L DEF LeadersMove
<1>C. ASSUME UNCHANGED coordVars PROVE CoordinatorsMove
  BY <1>C DEF coordVars, CoordinatorsMove, Moves, Stays, Keeps
<1>1. CASE InsertSaga
  <2>1. RegionsMove /\ CreatorMoves
    BY <1>1, <1>t DEF InsertSaga, RegionsMove, CreatorMoves, regionVars
  <2>2. StatusMoves /\ AnswersMove
    BY <1>1, <1>t DEF InsertSaga, StatusMoves, AnswersMove
  <2> QED
    BY <1>1, <2>1, <2>2, <1>E, <1>Q, <1>C, <1>L
    DEF StepMoves, InsertSaga, coordVars, queueVars, leaderVars
<1>2. ASSUME NEW r \in Region, SendSubBooking(r) PROVE StepMoves
  <2>1. RegionsMove /\ CreatorMoves
    BY <1>2, <1>t DEF SendSubBooking, RegionsMove, CreatorMoves
  <2> QED
    BY <1>2, <2>1, <1>S, <1>E, <1>Q, <1>C, <1>L
    DEF StepMoves, SendSubBooking, coordVars, queueVars, leaderVars
<1>3. CASE SendFails
  <2>1. RegionsMove /\ CreatorMoves
    BY <1>3, <1>t DEF SendFails, RegionsMove, CreatorMoves, regionVars
  <2> QED
    BY <1>3, <2>1, <1>S, <1>E, <1>Q, <1>C, <1>L
    DEF StepMoves, SendFails, coordVars, queueVars, leaderVars
<1>4. ASSUME NEW r \in Region, SkipValidation(r) PROVE StepMoves
  <2>1. RegionsMove /\ CreatorMoves
    BY <1>4, <1>t DEF SkipValidation, RegionsMove, CreatorMoves, apiVars
  <2> QED
    BY <1>4, <2>1, <1>S, <1>E, <1>Q, <1>C, <1>L
    DEF StepMoves, SkipValidation, coordVars, queueVars, leaderVars
<1>5. ASSUME NEW r \in Region, NEW o \in Answer, Validate(r, o) PROVE StepMoves
  <2>1. RegionsMove /\ CreatorMoves
    BY <1>5, <1>t DEF Validate, RegionsMove, CreatorMoves, apiVars
  <2>2. RepliesMove
    <3>1. \A m \in Reply : Reported(m)' => Reported(m) \/ m = [region |-> r, outcome |-> o]
      BY <1>5 DEF Validate, Reported, coordVars
    <3> QED
      BY <1>5, <3>1 DEF RepliesMove
  <2> QED
    BY <1>5, <2>1, <2>2, <1>S, <1>E, <1>C, <1>L
    DEF StepMoves, Validate, coordVars, leaderVars
<1>6. ASSUME NEW r \in Region, Redeliver(r) PROVE StepMoves
  <2>1. RegionsMove /\ CreatorMoves
    BY <1>6, <1>t, <1>f DEF Redeliver, RegionsMove, CreatorMoves, apiVars
  <2> QED
    BY <1>6, <2>1, <1>S, <1>E, <1>Q, <1>C, <1>L
    DEF StepMoves, Redeliver, coordVars, queueVars, leaderVars
<1>7. CASE ExpireKey
  <2> QED
    BY <1>7, <1>R, <1>S, <1>E, <1>Q, <1>C, <1>L
    DEF StepMoves, ExpireKey, coordVars, queueVars
<1>8. CASE LoseKey
  <2> QED
    BY <1>8, <1>R, <1>S, <1>E, <1>Q, <1>C, <1>L
    DEF StepMoves, LoseKey, coordVars, queueVars
<1>9. ASSUME NEW c \in Coordinator, TakeOver(c) PROVE StepMoves
  <2>1. CoordinatorsMove
    <3>1. ASSUME NEW d \in Coordinator \ {c} PROVE Stays(d)
      BY <1>9, <1>c DEF TakeOver, Stays, Keeps, Goto
    <3>2. Leads(c)
      BY <1>9, <1>c DEF TakeOver, Leads, Keeps, Goto
    <3> QED
      BY <3>1, <3>2 DEF CoordinatorsMove, Moves
  <2>2. LeadersMove
    BY <1>9, <1>c DEF TakeOver, LeadersMove, Goto
  <2> QED
    BY <1>9, <2>1, <2>2, <1>R, <1>S, <1>E, <1>Q
    DEF StepMoves, TakeOver, queueVars
<1>10. ASSUME NEW c \in Coordinator, ElectionRaises(c) PROVE StepMoves
  <2>1. CoordinatorsMove
    <3>1. ASSUME NEW d \in Coordinator \ {c} PROVE Stays(d)
      BY <1>10, <1>c DEF ElectionRaises, Stays, Keeps, Goto
    <3>2. Ends(c)
      BY <1>10, <1>c DEF ElectionRaises, Ends, Goto
    <3> QED
      BY <3>1, <3>2 DEF CoordinatorsMove, Moves
  <2> QED
    BY <1>10, <2>1, <1>R, <1>S, <1>E, <1>Q, <1>L
    DEF StepMoves, ElectionRaises, queueVars, leaderVars
<1>11. ASSUME NEW c \in Coordinator, RecoverAborting(c) PROVE StepMoves
  <2>1. CoordinatorsMove
    <3>1. ASSUME NEW d \in Coordinator \ {c} PROVE Stays(d)
      BY <1>11, <1>c DEF RecoverAborting, Stays, Keeps, Goto
    <3>2. Resumes(c)
      BY <1>11, <1>c DEF RecoverAborting, Resumes, Goto
    <3> QED
      BY <3>1, <3>2 DEF CoordinatorsMove, Moves
  <2> QED
    BY <1>11, <2>1, <1>R, <1>S, <1>E, <1>Q, <1>L
    DEF StepMoves, RecoverAborting, queueVars, leaderVars
<1>12. ASSUME NEW c \in Coordinator, NEW r \in Region, RecoverAnswered(c, r)
      PROVE  StepMoves
  <2>1. RepliesMove
    BY <1>12, <1>c DEF RecoverAnswered, RepliesMove, Reported, queueVars
  <2>2. CoordinatorsMove
    <3>1. ASSUME NEW d \in Coordinator \ {c} PROVE Stays(d)
      BY <1>12, <1>c DEF RecoverAnswered, Stays, Keeps, Goto
    <3>2. Reads(c)
      BY <1>12, <1>c, <1>t DEF RecoverAnswered, Reads, Goto, Reply, AllAnswered
    <3> QED
      BY <3>1, <3>2 DEF CoordinatorsMove, Moves
  <2> QED
    BY <1>12, <2>1, <2>2, <1>R, <1>S, <1>E, <1>L
    DEF StepMoves, RecoverAnswered, queueVars, leaderVars
<1>13. ASSUME NEW c \in Coordinator, RecoverNothing(c) PROVE StepMoves
  <2>1. CoordinatorsMove
    <3>1. ASSUME NEW d \in Coordinator \ {c} PROVE Stays(d)
      BY <1>13, <1>c DEF RecoverNothing, Stays, Keeps, Goto
    <3>2. Polls(c)
      BY <1>13, <1>c DEF RecoverNothing, Polls, Goto
    <3> QED
      BY <3>1, <3>2 DEF CoordinatorsMove, Moves
  <2> QED
    BY <1>13, <2>1, <1>R, <1>S, <1>E, <1>Q, <1>L
    DEF StepMoves, RecoverNothing, queueVars, leaderVars
<1>14. ASSUME NEW c \in Coordinator, NEW m \in Reply, Deliver(c, m) PROVE StepMoves
  <2>1. RepliesMove
    BY <1>14, <1>c DEF Deliver, RepliesMove, Reported
  <2>2. CoordinatorsMove
    <3>1. ASSUME NEW d \in Coordinator \ {c} PROVE Stays(d)
      BY <1>14, <1>c DEF Deliver, Stays, Keeps, Goto
    <3>2. Reads(c)
      BY <1>14, <1>c DEF Deliver, Reads, Goto
    <3> QED
      BY <3>1, <3>2 DEF CoordinatorsMove, Moves
  <2> QED
    BY <1>14, <2>1, <2>2, <1>R, <1>S, <1>E, <1>L
    DEF StepMoves, Deliver, leaderVars
<1>15. ASSUME NEW c \in Coordinator, ReadStatus(c) PROVE StepMoves
  <2>1. RepliesMove
    <3>1. CASE Finish(c)
      BY <3>1, FinishReplies DEF RepliesMove
    <3>2. CASE UNCHANGED <<hand, queueVars>>
      BY <3>2 DEF RepliesMove, Reported, queueVars
    <3> QED
      BY <1>15, <3>1, <3>2 DEF ReadStatus
  <2>2. CoordinatorsMove
    <3>1. ASSUME NEW d \in Coordinator \ {c} PROVE Stays(d)
      BY <1>15, <1>c DEF ReadStatus, Stays, Keeps, Goto, Finish
    <3>2. Polls(c) \/ Updates(c)
      BY <1>15, <1>c DEF ReadStatus, Polls, Updates, Keeps, Goto, Finish
    <3> QED
      BY <3>1, <3>2 DEF CoordinatorsMove, Moves
  <2> QED
    BY <1>15, <2>1, <2>2, <1>R, <1>S, <1>E, <1>L
    DEF StepMoves, ReadStatus, leaderVars, queueVars
<1>16. ASSUME NEW c \in Coordinator, UpdateOutcome(c) PROVE StepMoves
  <2>1. StatusMoves /\ AnswersMove
    BY <1>16, <1>t, <1>c DEF UpdateOutcome, StatusMoves, AnswersMove, Goto
  <2>2. CoordinatorsMove
    <3>1. ASSUME NEW d \in Coordinator \ {c} PROVE Stays(d)
      BY <1>16, <1>c DEF UpdateOutcome, Stays, Keeps, Goto
    <3>2. Rereads(c)
      BY <1>16, <1>c DEF UpdateOutcome, Rereads, Keeps, Goto
    <3> QED
      BY <3>1, <3>2 DEF CoordinatorsMove, Moves
  <2> QED
    BY <1>16, <2>1, <2>2, <1>R, <1>E, <1>Q, <1>L
    DEF StepMoves, UpdateOutcome, queueVars, leaderVars
<1>17. ASSUME NEW c \in Coordinator, RereadOutcomes(c) PROVE StepMoves
  <2>1. RepliesMove
    <3>1. CASE Finish(c)
      BY <3>1, FinishReplies DEF RepliesMove
    <3>2. CASE UNCHANGED <<hand, queueVars>>
      BY <3>2 DEF RepliesMove, Reported, queueVars
    <3> QED
      BY <1>17, <3>1, <3>2 DEF RereadOutcomes
  <2>2. CoordinatorsMove
    <3>1. ASSUME NEW d \in Coordinator \ {c} PROVE Stays(d)
      BY <1>17, <1>c DEF RereadOutcomes, Stays, Keeps, Goto, Finish
    <3>2. Decides(c) \/ Polls(c)
      BY <1>17, <1>c DEF RereadOutcomes, Decides, Polls, Goto, Finish
    <3> QED
      BY <3>1, <3>2 DEF CoordinatorsMove, Moves
  <2> QED
    BY <1>17, <2>1, <2>2, <1>R, <1>S, <1>E, <1>L
    DEF StepMoves, RereadOutcomes, leaderVars, queueVars
<1>18. ASSUME NEW c \in Coordinator, StartAbort(c) PROVE StepMoves
  <2>1. StatusMoves /\ AnswersMove
    BY <1>18, <1>t, <1>c DEF StartAbort, StatusMoves, AnswersMove, SetStatus, Goto
  <2>2. CoordinatorsMove
    <3>1. ASSUME NEW d \in Coordinator \ {c} PROVE Stays(d)
      BY <1>18, <1>c DEF StartAbort, Stays, Keeps, Goto
    <3>2. Aborts(c)
      BY <1>18, <1>c DEF StartAbort, Aborts, Keeps, Goto, SetStatus
    <3> QED
      BY <3>1, <3>2 DEF CoordinatorsMove, Moves
  <2> QED
    BY <1>18, <2>1, <2>2, <1>R, <1>E, <1>Q, <1>L
    DEF StepMoves, StartAbort, queueVars, leaderVars
<1>19. ASSUME NEW c \in Coordinator, NEW r \in Region, SendRelease(c, r)
      PROVE  StepMoves
  <2>1. VerdictsMove /\ ReleasesMove
    BY <1>19, <1>t DEF SendRelease, VerdictsMove, ReleasesMove
  <2>2. CoordinatorsMove
    <3>1. ASSUME NEW d \in Coordinator \ {c} PROVE Stays(d)
      BY <1>19, <1>c DEF SendRelease, Stays, Keeps
    <3>2. Releases(c)
      BY <1>19, <1>c, <1>t, <1>f DEF SendRelease, Releases, Keeps, FaultKind
    <3> QED
      BY <3>1, <3>2 DEF CoordinatorsMove, Moves
  <2> QED
    BY <1>19, <2>1, <2>2, <1>R, <1>S, <1>Q, <1>L
    DEF StepMoves, SendRelease, queueVars, leaderVars
<1>20. ASSUME NEW c \in Coordinator, ReleasesSent(c) PROVE StepMoves
  <2>1. CoordinatorsMove
    <3>1. ASSUME NEW d \in Coordinator \ {c} PROVE Stays(d)
      BY <1>20, <1>c DEF ReleasesSent, Stays, Keeps, Goto
    <3>2. Rejects(c)
      BY <1>20, <1>c DEF ReleasesSent, Rejects, Keeps, Goto
    <3> QED
      BY <3>1, <3>2 DEF CoordinatorsMove, Moves
  <2> QED
    BY <1>20, <2>1, <1>R, <1>S, <1>E, <1>Q, <1>L
    DEF StepMoves, ReleasesSent, queueVars, leaderVars
<1>21. ASSUME NEW c \in Coordinator, NEW r \in Region, WriteRejected(c, r)
      PROVE  StepMoves
  <2>1. VerdictsMove /\ ReleasesMove
    BY <1>21, <1>t DEF WriteRejected, VerdictsMove, ReleasesMove
  <2>2. CoordinatorsMove
    <3>1. ASSUME NEW d \in Coordinator \ {c} PROVE Stays(d)
      BY <1>21, <1>c DEF WriteRejected, Stays, Keeps
    <3>2. Writes(c)
      BY <1>21, <1>c DEF WriteRejected, Writes, Keeps
    <3> QED
      BY <3>1, <3>2 DEF CoordinatorsMove, Moves
  <2> QED
    BY <1>21, <2>1, <2>2, <1>R, <1>S, <1>Q, <1>L
    DEF StepMoves, WriteRejected, queueVars, leaderVars
<1>22. ASSUME NEW c \in Coordinator, SetAborted(c) PROVE StepMoves
  <2>1. StatusMoves /\ AnswersMove
    BY <1>22, <1>t, <1>c DEF SetAborted, StatusMoves, AnswersMove, SetStatus, Goto
  <2>2. CoordinatorsMove
    <3>1. ASSUME NEW d \in Coordinator \ {c} PROVE Stays(d)
      BY <1>22, <1>c DEF SetAborted, Stays, Keeps, Goto
    <3>2. Denies(c)
      BY <1>22, <1>c DEF SetAborted, Denies, Keeps, Goto, SetStatus
    <3> QED
      BY <3>1, <3>2 DEF CoordinatorsMove, Moves
  <2> QED
    BY <1>22, <2>1, <2>2, <1>R, <1>E, <1>Q, <1>L
    DEF StepMoves, SetAborted, queueVars, leaderVars
<1>23. ASSUME NEW c \in Coordinator, StartCommit(c) PROVE StepMoves
  <2>1. CoordinatorsMove
    <3>1. ASSUME NEW d \in Coordinator \ {c} PROVE Stays(d)
      BY <1>23, <1>c DEF StartCommit, Stays, Keeps, Goto
    <3>2. Commits(c)
      BY <1>23, <1>c DEF StartCommit, Commits, Keeps, Goto
    <3> QED
      BY <3>1, <3>2 DEF CoordinatorsMove, Moves
  <2> QED
    BY <1>23, <2>1, <1>R, <1>S, <1>E, <1>Q, <1>L
    DEF StepMoves, StartCommit, queueVars, leaderVars
<1>24. ASSUME NEW c \in Coordinator, NEW r \in Region, WriteApproved(c, r)
      PROVE  StepMoves
  <2>1. VerdictsMove /\ ReleasesMove
    BY <1>24, <1>t DEF WriteApproved, VerdictsMove, ReleasesMove
  <2>2. CoordinatorsMove
    <3>1. ASSUME NEW d \in Coordinator \ {c} PROVE Stays(d)
      BY <1>24, <1>c DEF WriteApproved, Stays, Keeps
    <3>2. Writes(c)
      BY <1>24, <1>c DEF WriteApproved, Writes, Keeps
    <3> QED
      BY <3>1, <3>2 DEF CoordinatorsMove, Moves
  <2> QED
    BY <1>24, <2>1, <2>2, <1>R, <1>S, <1>Q, <1>L
    DEF StepMoves, WriteApproved, queueVars, leaderVars
<1>25. ASSUME NEW c \in Coordinator, SetCommitted(c) PROVE StepMoves
  <2>1. StatusMoves /\ AnswersMove
    BY <1>25, <1>t, <1>c DEF SetCommitted, StatusMoves, AnswersMove, SetStatus, Goto
  <2>2. CoordinatorsMove
    <3>1. ASSUME NEW d \in Coordinator \ {c} PROVE Stays(d)
      BY <1>25, <1>c DEF SetCommitted, Stays, Keeps, Goto
    <3>2. Grants(c)
      BY <1>25, <1>c DEF SetCommitted, Grants, Keeps, Goto, SetStatus
    <3> QED
      BY <3>1, <3>2 DEF CoordinatorsMove, Moves
  <2> QED
    BY <1>25, <2>1, <2>2, <1>R, <1>E, <1>Q, <1>L
    DEF StepMoves, SetCommitted, queueVars, leaderVars
<1>26. ASSUME NEW c \in Coordinator, Tell(c) PROVE StepMoves
  <2>1. VerdictsMove /\ ReleasesMove
    BY <1>26, <1>t DEF Tell, VerdictsMove, ReleasesMove
  <2>2. RepliesMove
    BY <1>26, FinishReplies DEF Tell, RepliesMove
  <2>3. CoordinatorsMove
    <3>1. ASSUME NEW d \in Coordinator \ {c} PROVE Stays(d)
      BY <1>26, <1>c DEF Tell, Stays, Keeps, Goto, Finish
    <3>2. Polls(c)
      BY <1>26, <1>c DEF Tell, Polls, Goto, Finish
    <3> QED
      BY <3>1, <3>2 DEF CoordinatorsMove, Moves
  <2> QED
    BY <1>26, <2>1, <2>2, <2>3, <1>R, <1>S, <1>L
    DEF StepMoves, Tell, leaderVars
<1>27. ASSUME NEW c \in Coordinator, CommitOffsets(c) PROVE StepMoves
  <2>1. RepliesMove
    <3>1. /\ inbox' \subseteq inbox \cup Redeliverable(c)
          /\ consumed' = [consumed EXCEPT ![c] = {}]
          /\ \A d \in Coordinator : hand'[d] \in {hand[d], NoReply}
      BY <1>27, <1>c DEF CommitOffsets, coordVars
    <3> QED
      BY <3>1, HandledReplies DEF RepliesMove
  <2> QED
    BY <1>27, <2>1, <1>R, <1>S, <1>E, <1>C, <1>L
    DEF StepMoves, CommitOffsets, coordVars, leaderVars
<1>28. ASSUME NEW c \in Coordinator, NEW r \in Region, WriteRepeated(c, r)
      PROVE  StepMoves
  <2>1. VerdictsMove /\ ReleasesMove
    BY <1>28, <1>t DEF WriteRepeated, VerdictsMove, ReleasesMove
  <2> QED
    BY <1>28, <2>1, <1>R, <1>S, <1>Q, <1>C, <1>L
    DEF StepMoves, WriteRepeated, coordVars, queueVars, leaderVars
<1>29. ASSUME NEW c \in Coordinator, StepFails(c) PROVE StepMoves
  <2>1. StatusMoves /\ AnswersMove
    BY <1>29, <1>t, <1>f, <1>c DEF StepFails, StatusMoves, AnswersMove, Finish, Goto, Working
  <2>2. RepliesMove
    BY <1>29, FinishReplies DEF StepFails, RepliesMove
  <2>3. CoordinatorsMove
    <3>1. ASSUME NEW d \in Coordinator \ {c} PROVE Stays(d)
      BY <1>29, <1>c DEF StepFails, Stays, Keeps, Goto, Finish
    <3>2. Polls(c)
      BY <1>29, <1>c, <1>f DEF StepFails, Polls, Goto, Finish, FaultKind, Working
    <3> QED
      BY <3>1, <3>2 DEF CoordinatorsMove, Moves
  <2> QED
    BY <1>29, <2>1, <2>2, <2>3, <1>R, <1>E, <1>L
    DEF StepMoves, StepFails, leaderVars
<1>30. ASSUME NEW c \in Coordinator, ConsumerDies(c) PROVE StepMoves
  <2>1. RepliesMove
    <3>1. /\ inbox' \subseteq inbox \cup Redeliverable(c)
          /\ consumed' = [consumed EXCEPT ![c] = {}]
          /\ \A d \in Coordinator : hand'[d] \in {hand[d], NoReply}
      BY <1>30, <1>c DEF ConsumerDies, coordVars
    <3> QED
      BY <3>1, HandledReplies DEF RepliesMove
  <2>2. CoordinatorsMove
    <3>1. ASSUME NEW d \in Coordinator \ {c} PROVE Stays(d)
      BY <1>30, <1>c DEF ConsumerDies, Stays, Keeps, Goto
    <3>2. Ends(c)
      BY <1>30, <1>c DEF ConsumerDies, Ends, Goto
    <3> QED
      BY <3>1, <3>2 DEF CoordinatorsMove, Moves
  <2> QED
    BY <1>30, <2>1, <2>2, <1>R, <1>S, <1>E, <1>L
    DEF StepMoves, ConsumerDies, leaderVars
<1>31. ASSUME NEW c \in Coordinator, Crash(c) PROVE StepMoves
  <2>1. RepliesMove
    <3>1. /\ inbox' \subseteq inbox \cup Redeliverable(c)
          /\ consumed' = [consumed EXCEPT ![c] = {}]
          /\ \A d \in Coordinator : hand'[d] \in {hand[d], NoReply}
      BY <1>31, <1>c DEF Crash, coordVars
    <3> QED
      BY <3>1, HandledReplies DEF RepliesMove
  <2>2. CoordinatorsMove
    <3>1. ASSUME NEW d \in Coordinator \ {c} PROVE Stays(d)
      BY <1>31, <1>c DEF Crash, Stays, Keeps, Goto
    <3>2. Ends(c)
      BY <1>31, <1>c DEF Crash, Ends, Goto
    <3> QED
      BY <3>1, <3>2 DEF CoordinatorsMove, Moves
  <2>3. LeadersMove
    BY <1>31, <1>c DEF Crash, LeadersMove, Goto
  <2> QED
    BY <1>31, <2>1, <2>2, <2>3, <1>R, <1>S, <1>E
    DEF StepMoves, Crash
<1>32. CASE UNCHANGED vars
  <2>1. UNCHANGED <<apiVars, regionVars, sagaVars, effectVars, inbox, consumed, hand, coordVars,
                  leaders>>
    BY <1>32 DEF vars, queueVars, coordVars, leaderVars
  <2> QED
    BY <2>1, <1>R, <1>S, <1>E, <1>Q, <1>L, <1>C DEF StepMoves
<1> QED
  BY <1>1, <1>2, <1>3, <1>4, <1>5, <1>6, <1>7, <1>8, <1>9, <1>10, <1>11, <1>12,
     <1>13, <1>14, <1>15, <1>16, <1>17, <1>18, <1>19, <1>20, <1>21, <1>22, <1>23, <1>24,
     <1>25, <1>26, <1>27, <1>28, <1>29, <1>30, <1>31, <1>32
  DEF Next, Create, Answering, Coordinate

----------------------------------------------------------------------------
(* What holds over any mix of faults.  Nothing is reported of a region     *)
(* that was not asked, and an approval stands for places counted in.       *)
IsTrue(r, outcome) ==
    r \notin unsent /\ (outcome = "APPROVED" => reserved[r] >= 1)

Decided == {"decide", "release", "reject", "commit", "tell_approved", "tell_rejected"}

RepliesAreTrue == \A m \in Reply : Reported(m) => IsTrue(m.region, m.outcome)

AnswersAreTrue == \A r \in Region : answers[r] # "NONE" => IsTrue(r, answers[r])

SnapsAreAnswers ==
    \A c \in Coordinator, r \in Region : snap[c][r] # "NONE" => answers[r] # "NONE"

CreationOrder ==
    /\ creator = "insert" => status = "NONE" /\ unsent = Region
    /\ creator = "send" => unsent # {}
    /\ status = "NONE" => creator = "insert"
    /\ \A r \in unsent : r \notin requested \cup delivered

(* Nobody decides before all have answered, and nobody tells before the    *)
(* decision is stored.                                                     *)
DecidedOnAll ==
    /\ \A c \in Coordinator :
         /\ pc[c] \in Decided => AllAnswered(snap[c])
         /\ pc[c] \in {"commit", "tell_approved"} => ~AnyRejected(snap[c])
         /\ pc[c] \in {"tell_approved", "tell_rejected"} => status # "PENDING"
    /\ status \in {"ABORTING", "COMMITTED"} \/ verdicts # {} => AllAnswered(answers)
    /\ status = "ABORTED" => creator = "done"
    /\ verdicts # {} => status # "PENDING"

KnownInv ==
    RepliesAreTrue /\ AnswersAreTrue /\ SnapsAreAnswers /\ CreationOrder /\ DecidedOnAll

(* A coordinator's copy of the outcomes is the one it had, or read now.    *)
LEMMA SnapMoves ==
    ASSUME NEW c \in Coordinator, Moves(c)
    PROVE  snap'[c] \in {snap[c], answers, NoAnswers}
  BY DEF Moves, Stays, Writes, Releases, Ends, Leads, Polls, Reads, Updates, Rereads,
         Decides, Resumes, Aborts, Commits, Rejects, Denies, Grants, Keeps

(* An answer is never taken back, though it may change.                    *)
LEMMA AnswersStay ==
    ASSUME TypeInv, StepMoves, NEW r \in Region, answers[r] # "NONE"
    PROVE  answers'[r] # "NONE"
<1>1. \A m \in Reply : m.outcome # "NONE"
  BY DEF Reply, Answer
<1> QED
  BY <1>1 DEF StepMoves, AnswersMove, TypeInv, Handling

(* Once all regions have answered, none is left to be asked.               *)
LEMMA AllAsked ==
    ASSUME TypeInv, KnownInv, AllAnswered(answers)
    PROVE  unsent = {} /\ creator = "done"
<1>1. unsent = {}
  BY DEF KnownInv, AnswersAreTrue, AllAnswered, IsTrue, TypeInv, SagaTypeOK
<1> QED
  BY <1>1, SagaAssumption DEF KnownInv, CreationOrder, TypeInv, SagaTypeOK

(* Who has decided has read all answers.                                   *)
LEMMA DecidedMeansAnswered ==
    ASSUME KnownInv, NEW c \in Coordinator, pc[c] \in Decided
    PROVE  AllAnswered(answers)
  BY DEF KnownInv, DecidedOnAll, SnapsAreAnswers, AllAnswered

(* What makes a reply true lasts.                                          *)
LEMMA TruthStays ==
    ASSUME TypeInv, TypeInv', StepMoves, NEW r \in Region
    PROVE  /\ r \notin unsent => r \notin unsent'
           /\ reserved[r] >= 1 => reserved'[r] >= 1
<1>1. unsent' \subseteq unsent /\ (reserved'[r] = reserved[r] \/ reserved'[r] >= reserved[r])
  BY DEF StepMoves, RegionsMove
<1>2. reserved[r] \in Nat /\ reserved'[r] \in Nat
  BY DEF TypeInv, SagaTypeOK
<1> QED
  BY <1>1, <1>2

(* One more step keeps all of it.                                          *)
LEMMA KnownStep == TypeInv /\ TypeInv' /\ KnownInv /\ StepMoves => KnownInv'
<1> SUFFICES ASSUME TypeInv, TypeInv', KnownInv, StepMoves PROVE KnownInv'
  OBVIOUS
<1>m. \A m \in Reply : m.region \in Region /\ m.outcome \in Answer
  BY DEF Reply
<1>1. RepliesAreTrue'
  <2> SUFFICES ASSUME NEW m \in Reply, Reported(m)' PROVE IsTrue(m.region, m.outcome)'
    BY DEF RepliesAreTrue
  <2>1. CASE Reported(m) \/ answers[m.region] = m.outcome
    <3>1. IsTrue(m.region, m.outcome)
      BY <1>m, <2>1 DEF KnownInv, RepliesAreTrue, AnswersAreTrue, Answer
    <3> QED
      BY <1>m, <3>1, TruthStays DEF IsTrue
  <2>2. CASE Validate(m.region, m.outcome)
    <3>1. m.region \in requested
          /\ reserved' = [reserved EXCEPT ![m.region] =
                            IF m.outcome = "APPROVED" THEN @ + 1 ELSE @]
      BY <2>2 DEF Validate
    <3>2. m.region \notin unsent'
      BY <3>1 DEF KnownInv, CreationOrder, StepMoves, RegionsMove
    <3> QED
      BY <1>m, <3>1, <3>2 DEF IsTrue, TypeInv, SagaTypeOK
  <2> QED
    BY <2>1, <2>2 DEF StepMoves, RepliesMove
<1>2. AnswersAreTrue'
  <2> SUFFICES ASSUME NEW r \in Region, answers'[r] # "NONE"
               PROVE  r \notin unsent' /\ (answers'[r] = "APPROVED" => reserved'[r] >= 1)
    BY DEF AnswersAreTrue, IsTrue
  <2>1. r \notin unsent /\ (answers'[r] = "APPROVED" => reserved[r] >= 1)
    <3>1. CASE answers'[r] = answers[r]
      BY <3>1 DEF KnownInv, AnswersAreTrue, IsTrue
    <3>2. CASE answers'[r] # answers[r]
      <4>1. PICK c \in Coordinator :
              pc[c] = "update" /\ hand[c].region = r /\ hand[c].outcome = answers'[r]
        BY <3>2 DEF StepMoves, AnswersMove
      <4>2. hand[c] \in Reply /\ Reported(hand[c])
        BY <4>1 DEF TypeInv, Handling, Reported
      <4> QED
        BY <4>1, <4>2 DEF KnownInv, RepliesAreTrue, IsTrue
    <3> QED
      BY <3>1, <3>2
  <2> QED
    BY <2>1, TruthStays
<1>3. SnapsAreAnswers'
  <2> SUFFICES ASSUME NEW c \in Coordinator, NEW r \in Region, snap'[c][r] # "NONE"
               PROVE  answers'[r] # "NONE"
    BY DEF SnapsAreAnswers
  <2>1. snap[c][r] # "NONE" \/ answers[r] # "NONE"
    BY SnapMoves DEF StepMoves, CoordinatorsMove, NoAnswers
  <2> QED
    BY <2>1, AnswersStay DEF KnownInv, SnapsAreAnswers
<1>u. ASSUME NEW c \in Coordinator, pc[c] \in Decided PROVE unsent = {} /\ creator = "done"
  BY <1>u, DecidedMeansAnswered, AllAsked
<1>4. CreationOrder'
  <2>1. creator' = "insert" => status' = "NONE" /\ unsent' = Region
    <3> SUFFICES ASSUME creator' = "insert" PROVE status' = "NONE" /\ unsent' = Region
      OBVIOUS
    <3>1. creator = "insert" /\ unsent' = unsent /\ unsent = Region /\ status = "NONE"
      BY DEF StepMoves, CreatorMoves, KnownInv, CreationOrder
    <3>2. \A c \in Coordinator : pc[c] \notin Decided /\ hand[c] \notin Reply
      <4>1. \A c \in Coordinator : hand[c] \notin Reply
        BY <1>m, <3>1 DEF KnownInv, RepliesAreTrue, Reported, IsTrue
      <4> QED
        BY <1>u, <3>1, <4>1
    <3> QED
      BY <3>1, <3>2 DEF StepMoves, StatusMoves, Decided
  <2>2. creator' = "send" => unsent' # {}
    BY SagaAssumption DEF StepMoves, CreatorMoves, KnownInv, CreationOrder
  <2>3. status' = "NONE" => creator' = "insert"
    BY DEF StepMoves, CreatorMoves, StatusMoves, KnownInv, CreationOrder
  <2>4. \A r \in unsent' : r \notin requested' \cup delivered'
    BY DEF StepMoves, RegionsMove, KnownInv, CreationOrder
  <2> QED
    BY <2>1, <2>2, <2>3, <2>4 DEF CreationOrder
<1>p. ASSUME unsent = {}, status # "PENDING" PROVE status' # "PENDING"
  <2>1. creator # "insert"
    BY <1>p, SagaAssumption DEF KnownInv, CreationOrder
  <2> QED
    BY <1>p, <2>1 DEF StepMoves, StatusMoves
<1>5. ASSUME NEW c \in Coordinator
      PROVE  /\ pc'[c] \in Decided => AllAnswered(snap'[c])
             /\ pc'[c] \in {"commit", "tell_approved"} => ~AnyRejected(snap'[c])
             /\ pc'[c] \in {"tell_approved", "tell_rejected"} => status' # "PENDING"
  <2>1. CASE Decides(c)
    BY <2>1 DEF Decides, Decided
  <2>2. CASE Resumes(c)
    BY <2>2 DEF Resumes, Decided, KnownInv, DecidedOnAll
  <2>3. CASE Denies(c) \/ Grants(c)
    BY <2>3 DEF Denies, Grants, Keeps, Decided, KnownInv, DecidedOnAll
  <2>4. CASE Aborts(c) \/ Commits(c) \/ Rejects(c)
    BY <2>4 DEF Aborts, Commits, Rejects, Keeps, Decided, KnownInv, DecidedOnAll
  <2>5. CASE Stays(c) \/ Writes(c) \/ Releases(c)
    <3>1. pc'[c] = pc[c] /\ snap'[c] = snap[c]
      BY <2>5 DEF Stays, Writes, Releases, Keeps
    <3> QED
      BY <3>1, <1>u, <1>p DEF KnownInv, DecidedOnAll, Decided
  <2>6. CASE Ends(c) \/ Leads(c) \/ Polls(c) \/ Reads(c) \/ Updates(c) \/ Rereads(c)
    BY <2>6 DEF Ends, Leads, Polls, Reads, Updates, Rereads, Decided
  <2> QED
    BY <2>1, <2>2, <2>3, <2>4, <2>5, <2>6 DEF StepMoves, CoordinatorsMove, Moves
<1>6. status' \in {"ABORTING", "COMMITTED"} \/ verdicts' # {} => AllAnswered(answers')
  <2> SUFFICES ASSUME status' \in {"ABORTING", "COMMITTED"} \/ verdicts' # {}
               PROVE  AllAnswered(answers)
    BY AnswersStay DEF AllAnswered
  <2>1. \/ status \in {"ABORTING", "COMMITTED"} \/ verdicts # {}
        \/ \E c \in Coordinator : pc[c] \in Decided
    BY DEF StepMoves, StatusMoves, VerdictsMove, Decided
  <2> QED
    BY <2>1, DecidedMeansAnswered DEF KnownInv, DecidedOnAll
<1>7. status' = "ABORTED" => creator' = "done"
  <2> SUFFICES ASSUME status' = "ABORTED" PROVE creator' = "done"
    OBVIOUS
  <2>1. CASE status = "ABORTED" \/ \E c \in Coordinator : pc[c] = "reject"
    BY <2>1, <1>u DEF KnownInv, DecidedOnAll, Decided, StepMoves, CreatorMoves
  <2>2. CASE creator' = "done"
    BY <2>2
  <2> QED
    BY <2>1, <2>2 DEF StepMoves, StatusMoves
<1>8. verdicts' # {} => status' # "PENDING"
  <2> SUFFICES ASSUME verdicts' # {} PROVE unsent = {} /\ status # "PENDING"
    BY <1>p
  <2>1. CASE verdicts # {}
    BY <2>1, AllAsked DEF KnownInv, DecidedOnAll
  <2>2. ASSUME NEW c \in Coordinator, pc[c] \in {"tell_approved", "tell_rejected"}
        PROVE  unsent = {} /\ status # "PENDING"
    BY <2>2, <1>u DEF KnownInv, DecidedOnAll, Decided
  <2> QED
    BY <2>1, <2>2 DEF StepMoves, VerdictsMove
<1> QED
  BY <1>1, <1>2, <1>3, <1>4, <1>5, <1>6, <1>7, <1>8 DEF KnownInv, DecidedOnAll

----------------------------------------------------------------------------
(* Without redelivery every region answers at most once, and what it       *)
(* answered can be read off its places.                                    *)
Answered(r) == r \notin requested \cup unsent

Vote(r, outcome) == Answered(r) /\ (outcome = "APPROVED" <=> reserved[r] >= 1)

Refused == \E r \in Region : Answered(r) /\ reserved[r] = 0
Granted == \A r \in Region : Answered(r) /\ reserved[r] >= 1

VotesAgree ==
    /\ \A r \in Region : ~Answered(r) => reserved[r] = 0
    /\ \A m \in Reply : Reported(m) => Vote(m.region, m.outcome)
    /\ \A r \in Region : answers[r] # "NONE" => Vote(r, answers[r])
    /\ \A c \in Coordinator, r \in Region : snap[c][r] # "NONE" => Vote(r, snap[c][r])

DecisionsAgree ==
    /\ status = "ABORTING" => Refused
    /\ status = "ABORTED" => Refused \/ unsent # {}
    /\ status = "COMMITTED" \/ "APPROVED" \in verdicts => Granted
    /\ \A r \in Region : released[r] > 0 => Refused
    /\ \A c \in Coordinator :
         /\ pc[c] \in {"release", "reject", "tell_rejected"} => Refused
         /\ pc[c] \in {"commit", "tell_approved"} => Granted

(* With the places of an approval its region was sent a release.           *)
Compensated(r) == reserved[r] >= 1 => released[r] >= 1

Compensates ==
    /\ "REJECTED" \in verdicts => \A r \in Region : Compensated(r)
    /\ \A c \in Coordinator :
         /\ pc[c] = "release" => \A r \in Region \ todo[c] : Compensated(r)
         /\ pc[c] \in {"reject", "tell_rejected"} => \A r \in Region : Compensated(r)

Tellers ==
    /\ status # "FAILED"
    /\ \A c \in Coordinator :
         /\ pc[c] = "tell_approved" => status = "COMMITTED"
         /\ pc[c] = "tell_rejected" => status \in {"ABORTING", "ABORTED"}

Once ==
    faults["redeliver"] = 0 =>
        /\ VotesAgree /\ DecisionsAgree
        /\ faults["send"] = 0 => Compensates
        /\ faults["store"] = 0 => Tellers

(* What a region answered stays answered.                                  *)
LEMMA VotesStay ==
    ASSUME StepMoves, faults'["redeliver"] = 0, NEW r \in Region, Answered(r)
    PROVE  r \notin requested' \cup unsent' /\ reserved'[r] = reserved[r]
<1>1. ~(faults'["redeliver"] > 0)
  OBVIOUS
<1> QED
  BY <1>1 DEF StepMoves, RegionsMove, Answered

(* So a refusal, and the approval of all, are final.                       *)
LEMMA FinalVotes ==
    ASSUME StepMoves, faults'["redeliver"] = 0
    PROVE  (Refused => Refused') /\ (Granted => Granted')
  BY VotesStay DEF Refused, Granted, Answered

LEMMA NotBoth == ASSUME Refused, Granted PROVE FALSE
<1>1. PICK r \in Region : reserved[r] = 0
  BY DEF Refused
<1>2. reserved[r] >= 1
  BY DEF Granted
<1> QED
  BY <1>1, <1>2

(* A rejection that a coordinator has read is a refusal, and answers       *)
(* without one are the approval of all.                                    *)
LEMMA ReadVotes ==
    ASSUME TypeInv, NEW a \in [Region -> Answer \cup {"NONE"}],
           \A r \in Region : a[r] # "NONE" => Vote(r, a[r])
    PROVE  /\ AnyRejected(a) => Refused
           /\ AllAnswered(a) /\ ~AnyRejected(a) => Granted
           /\ AllAnswered(a) => \A r \in Region \ Approvers(a) : Compensated(r)
<1>1. \A r \in Region : a[r] \in {"APPROVED", "REJECTED", "NONE"} /\ reserved[r] \in Nat
  BY DEF Answer, TypeInv, SagaTypeOK
<1>2. ASSUME NEW r \in Region, a[r] = "REJECTED" PROVE Answered(r) /\ reserved[r] = 0
  BY <1>1, <1>2 DEF Vote
<1>3. ASSUME NEW r \in Region, a[r] = "APPROVED" PROVE Answered(r) /\ reserved[r] >= 1
  BY <1>1, <1>3 DEF Vote
<1>4. AnyRejected(a) => Refused
  BY <1>2 DEF AnyRejected, Refused
<1>5. AllAnswered(a) /\ ~AnyRejected(a) => Granted
  BY <1>1, <1>3 DEF AnyRejected, AllAnswered, Granted
<1>6. AllAnswered(a) => \A r \in Region \ Approvers(a) : reserved[r] = 0
  BY <1>1, <1>2 DEF AllAnswered, Approvers
<1> QED
  BY <1>4, <1>5, <1>6 DEF Compensated

(* Of the outcomes, the saga document and the copies, none contradicts     *)
(* the places its region counted in.                                       *)
LEMMA VotesStep ==
    ASSUME TypeInv, TypeInv', KnownInv, StepMoves, faults'["redeliver"] = 0, VotesAgree
    PROVE  VotesAgree'
<1>t. /\ reserved \in [Region -> Nat] /\ reserved' \in [Region -> Nat]
      /\ \A m \in Reply : m.region \in Region /\ m.outcome \in Answer
  BY DEF TypeInv, SagaTypeOK, Reply
<1>v. ASSUME NEW r \in Region, NEW o \in Answer, Vote(r, o)
      PROVE  r \notin requested' \cup unsent' /\ (o = "APPROVED" <=> reserved'[r] >= 1)
  BY <1>v, VotesStay DEF Vote
<1>1. ASSUME NEW r \in Region, r \in requested' \cup unsent' PROVE reserved'[r] = 0
  <2>1. ~Answered(r)
    BY <1>1, VotesStay
  <2>2. reserved'[r] = reserved[r]
    BY <1>1, <2>1 DEF StepMoves, RegionsMove, KnownInv, CreationOrder
  <2> QED
    BY <2>1, <2>2 DEF VotesAgree
<1>2. ASSUME NEW m \in Reply, Reported(m)'
      PROVE  /\ m.region \notin requested' \cup unsent'
             /\ m.outcome = "APPROVED" <=> reserved'[m.region] >= 1
  <2>1. CASE Reported(m) \/ answers[m.region] = m.outcome
    <3>1. Vote(m.region, m.outcome)
      BY <1>t, <2>1 DEF VotesAgree, Answer
    <3> QED
      BY <1>t, <1>v, <3>1
  <2>2. CASE Validate(m.region, m.outcome)
    <3>1. /\ m.region \in requested /\ requested' = requested \ {m.region}
          /\ unsent' = unsent
          /\ reserved' = [reserved EXCEPT ![m.region] =
                            IF m.outcome = "APPROVED" THEN @ + 1 ELSE @]
      BY <2>2 DEF Validate, apiVars
    <3>2. m.region \notin unsent /\ reserved[m.region] = 0
      BY <1>t, <3>1 DEF KnownInv, CreationOrder, VotesAgree, Answered
    <3> QED
      BY <1>t, <3>1, <3>2
  <2> QED
    BY <1>2, <2>1, <2>2 DEF StepMoves, RepliesMove
<1>3. ASSUME NEW r \in Region, answers'[r] # "NONE"
      PROVE  /\ r \notin requested' \cup unsent'
             /\ answers'[r] = "APPROVED" <=> reserved'[r] >= 1
  <2>1. CASE answers'[r] = answers[r]
    BY <1>3, <2>1, <1>v DEF VotesAgree, TypeInv, SagaTypeOK
  <2>2. CASE answers'[r] # answers[r]
    <3>1. PICK c \in Coordinator :
            pc[c] = "update" /\ hand[c].region = r /\ hand[c].outcome = answers'[r]
      BY <2>2 DEF StepMoves, AnswersMove
    <3>2. hand[c] \in Reply /\ Reported(hand[c])
      BY <3>1 DEF TypeInv, Handling, Reported
    <3>3. Vote(r, hand[c].outcome) /\ hand[c].outcome \in Answer
      BY <1>t, <3>1, <3>2 DEF VotesAgree
    <3> QED
      BY <1>v, <3>1, <3>3
  <2> QED
    BY <2>1, <2>2
<1>4. ASSUME NEW c \in Coordinator, NEW r \in Region, snap'[c][r] # "NONE"
      PROVE  /\ r \notin requested' \cup unsent'
             /\ snap'[c][r] = "APPROVED" <=> reserved'[r] >= 1
  <2>1. snap'[c] \in {snap[c], answers, NoAnswers}
    BY SnapMoves DEF StepMoves, CoordinatorsMove
  <2>2. Vote(r, snap'[c][r]) /\ snap'[c][r] \in Answer
    BY <1>4, <2>1 DEF VotesAgree, NoAnswers, TypeInv, SagaTypeOK
  <2> QED
    BY <1>v, <2>2
<1> QED
  BY <1>1, <1>2, <1>3, <1>4 DEF VotesAgree, Vote, Answered

(* Who has the outcomes of all regions knows whether one refused.          *)
LEMMA DecidersKnow ==
    ASSUME TypeInv, VotesAgree, NEW c \in Coordinator
    PROVE  /\ AnyRejected(snap[c]) => Refused
           /\ AllAnswered(snap[c]) /\ ~AnyRejected(snap[c]) => Granted
           /\ AllAnswered(snap[c]) => \A r \in Region \ Approvers(snap[c]) : Compensated(r)
<1>1. snap[c] \in [Region -> Answer \cup {"NONE"}]
  BY DEF TypeInv, SagaTypeOK
<1>2. \A r \in Region : snap[c][r] # "NONE" => Vote(r, snap[c][r])
  BY DEF VotesAgree
<1> QED
  BY <1>1, <1>2, ReadVotes

(* Every decision that is taken, stored or published follows the votes.    *)
LEMMA DecisionsStep ==
    ASSUME TypeInv, TypeInv', KnownInv, StepMoves, faults'["redeliver"] = 0,
           VotesAgree, DecisionsAgree
    PROVE  DecisionsAgree'
<1>s. (Refused => Refused') /\ (Granted => Granted')
  BY FinalVotes
<1>1. status' = "ABORTING" => Refused
  BY DecidersKnow DEF StepMoves, StatusMoves, DecisionsAgree
<1>2. status' = "ABORTED" => Refused \/ unsent' # {}
  <2> SUFFICES ASSUME status' = "ABORTED" PROVE Refused \/ unsent' # {}
    OBVIOUS
  <2>1. CASE status = "ABORTED"
    BY <2>1 DEF StepMoves, CreatorMoves, KnownInv, CreationOrder, DecidedOnAll, DecisionsAgree
  <2>2. CASE creator = "send" /\ unsent' = unsent
    BY <2>2 DEF KnownInv, CreationOrder
  <2>3. CASE \E c \in Coordinator : pc[c] = "reject"
    BY <2>3 DEF DecisionsAgree
  <2> QED
    BY <2>1, <2>2, <2>3 DEF StepMoves, StatusMoves
<1>3. status' = "COMMITTED" \/ "APPROVED" \in verdicts' => Granted
  <2>1. status' = "COMMITTED" => Granted
    BY DEF StepMoves, StatusMoves, DecisionsAgree
  <2>2. "APPROVED" \in verdicts' => Granted
    BY DEF StepMoves, VerdictsMove, DecisionsAgree
  <2> QED
    BY <2>1, <2>2
<1>4. ASSUME NEW r \in Region, released'[r] > 0 PROVE Refused
  <2>1. CASE released'[r] = released[r]
    BY <1>4, <2>1 DEF DecisionsAgree
  <2>2. CASE released'[r] # released[r]
    BY <2>2 DEF StepMoves, ReleasesMove, DecisionsAgree
  <2> QED
    BY <2>1, <2>2
<1>5. ASSUME NEW c \in Coordinator
      PROVE  /\ pc'[c] \in {"release", "reject", "tell_rejected"} => Refused
             /\ pc'[c] \in {"commit", "tell_approved"} => Granted
  <2>1. CASE Aborts(c) \/ Resumes(c)
    BY <2>1, DecidersKnow DEF Aborts, Resumes, DecisionsAgree
  <2>2. CASE Commits(c)
    BY <2>2, DecidersKnow DEF Commits, KnownInv, DecidedOnAll, Decided
  <2>3. CASE Stays(c) \/ Writes(c) \/ Releases(c) \/ Rejects(c) \/ Denies(c) \/ Grants(c)
    BY <2>3 DEF Stays, Writes, Releases, Rejects, Denies, Grants, DecisionsAgree
  <2>4. CASE Ends(c) \/ Leads(c) \/ Polls(c) \/ Reads(c) \/ Updates(c) \/ Rereads(c)
             \/ Decides(c)
    BY <2>4 DEF Ends, Leads, Polls, Reads, Updates, Rereads, Decides
  <2> QED
    BY <2>1, <2>2, <2>3, <2>4 DEF StepMoves, CoordinatorsMove, Moves
<1> QED
  BY <1>s, <1>1, <1>2, <1>3, <1>4, <1>5 DEF DecisionsAgree

(* Once all answered, what was compensated stays so.                       *)
LEMMA CompensationStays ==
    ASSUME TypeInv, TypeInv', StepMoves, faults'["redeliver"] = 0, VotesAgree,
           AllAnswered(answers), NEW r \in Region
    PROVE  /\ reserved'[r] = reserved[r]
           /\ Compensated(r) => (reserved'[r] >= 1 => released'[r] >= 1)
<1>1. Answered(r)
  BY DEF AllAnswered, VotesAgree, Vote
<1>2. reserved'[r] = reserved[r]
  BY <1>1, VotesStay
<1>3. released'[r] = released[r] \/ released'[r] >= 1
  BY DEF StepMoves, ReleasesMove
<1> QED
  BY <1>2, <1>3 DEF Compensated

(* A coordinator that passes a region in its loop has compensated it, and  *)
(* another that starts the loop again takes nothing back.                  *)
LEMMA CompensatesStep ==
    ASSUME TypeInv, TypeInv', KnownInv, StepMoves, faults'["redeliver"] = 0,
           faults'["send"] = 0, VotesAgree, Compensates
    PROVE  Compensates'
<1>a. /\ \A c \in Coordinator : pc[c] \in Decided => AllAnswered(answers)
      /\ verdicts # {} => AllAnswered(answers)
  BY DecidedMeansAnswered DEF KnownInv, DecidedOnAll
<1>d. ASSUME NEW r \in Region, AllAnswered(answers), Compensated(r)
      PROVE  reserved'[r] >= 1 => released'[r] >= 1
  BY <1>d, CompensationStays
<1>1. ASSUME "REJECTED" \in verdicts', NEW r \in Region
      PROVE  reserved'[r] >= 1 => released'[r] >= 1
  <2>1. AllAnswered(answers) /\ Compensated(r)
    BY <1>a, <1>1 DEF StepMoves, VerdictsMove, Compensates, Decided
  <2> QED
    BY <2>1, <1>d
<1>2. ASSUME NEW c \in Coordinator, pc'[c] = "release", NEW r \in Region \ todo'[c]
      PROVE  reserved'[r] >= 1 => released'[r] >= 1
  <2>1. CASE Aborts(c)
    <3>1. AllAnswered(answers) /\ Compensated(r)
      BY <1>2, <2>1, <1>a, DecidersKnow DEF Aborts, KnownInv, DecidedOnAll, Decided
    <3> QED
      BY <1>d, <3>1
  <2>2. CASE Resumes(c)
    <3>1. AllAnswered(answers) /\ answers \in [Region -> Answer \cup {"NONE"}]
      BY <2>2 DEF Resumes, KnownInv, DecidedOnAll, TypeInv, SagaTypeOK
    <3>2. \A q \in Region : answers[q] # "NONE" => Vote(q, answers[q])
      BY DEF VotesAgree
    <3>3. Compensated(r)
      BY <1>2, <2>2, <3>1, <3>2, ReadVotes DEF Resumes
    <3> QED
      BY <1>d, <3>1, <3>3
  <2>3. CASE Stays(c)
    <3>1. AllAnswered(answers) /\ Compensated(r)
      BY <1>2, <2>3, <1>a DEF Stays, Compensates, Decided
    <3> QED
      BY <1>d, <3>1
  <2>4. CASE Releases(c)
    <3>1. AllAnswered(answers) /\ ~(faults'["send"] > 0)
      BY <2>4, <1>a DEF Releases, Decided
    <3>2. released'[r] >= 1 \/ Compensated(r)
      BY <1>2, <2>4, <3>1 DEF Releases, Compensates
    <3> QED
      BY <1>d, <3>1, <3>2
  <2>5. CASE Ends(c) \/ Leads(c) \/ Polls(c) \/ Reads(c) \/ Updates(c) \/ Rereads(c)
             \/ Decides(c)
             \/ Writes(c) \/ Commits(c) \/ Rejects(c) \/ Denies(c) \/ Grants(c)
    BY <1>2, <2>5 DEF Ends, Leads, Polls, Reads, Updates, Rereads, Decides, Writes,
         Commits, Rejects, Denies, Grants
  <2> QED
    BY <2>1, <2>2, <2>3, <2>4, <2>5 DEF StepMoves, CoordinatorsMove, Moves
<1>3. ASSUME NEW c \in Coordinator, pc'[c] \in {"reject", "tell_rejected"}, NEW r \in Region
      PROVE  reserved'[r] >= 1 => released'[r] >= 1
  <2>1. CASE Rejects(c) \/ Denies(c) \/ Stays(c) \/ Writes(c)
    <3>1. AllAnswered(answers) /\ Compensated(r)
      BY <1>3, <2>1, <1>a DEF Rejects, Denies, Stays, Writes, Compensates, Decided
    <3> QED
      BY <1>d, <3>1
  <2>2. CASE Ends(c) \/ Leads(c) \/ Polls(c) \/ Reads(c) \/ Updates(c) \/ Rereads(c)
             \/ Decides(c)
             \/ Resumes(c) \/ Aborts(c) \/ Releases(c) \/ Commits(c) \/ Grants(c)
    BY <1>3, <2>2 DEF Ends, Leads, Polls, Reads, Updates, Rereads, Decides, Resumes,
         Aborts, Releases, Commits, Grants
  <2> QED
    BY <2>1, <2>2 DEF StepMoves, CoordinatorsMove, Moves
<1> QED
  BY <1>1, <1>2, <1>3 DEF Compensates, Compensated

(* When updates do not fail either, what a coordinator is about to publish *)
(* is what the saga document says.                                         *)
LEMMA TellersStep ==
    ASSUME TypeInv, KnownInv, StepMoves, faults'["store"] = 0, VotesAgree,
           DecisionsAgree, Tellers
    PROVE  Tellers'
<1>f. ~(faults'["store"] > 0)
  OBVIOUS
<1>1. status' # "FAILED"
  BY <1>f DEF StepMoves, StatusMoves, Tellers
<1>a. ASSUME NEW c \in Coordinator, pc[c] \in Decided
      PROVE  creator = "done"
  BY <1>a, DecidedMeansAnswered, AllAsked
<1>2. ASSUME NEW c \in Coordinator, pc'[c] = "tell_approved" PROVE status' = "COMMITTED"
  <2>1. CASE Grants(c)
    BY <2>1 DEF Grants
  <2>2. CASE pc[c] = "tell_approved"
    <3>1. creator = "done" /\ Granted /\ status = "COMMITTED"
      BY <2>2, <1>a DEF Decided, DecisionsAgree, Tellers
    <3>2. \A d \in Coordinator : pc[d] # "reject" /\ ~AnyRejected(snap[d])
      BY <3>1, NotBoth, DecidersKnow DEF DecisionsAgree
    <3> QED
      BY <1>f, <3>1, <3>2 DEF StepMoves, StatusMoves
  <2> QED
    BY <1>2, <2>1, <2>2 DEF StepMoves, CoordinatorsMove, Moves, Stays, Writes, Releases,
         Ends, Leads, Polls, Reads, Updates, Rereads, Decides, Resumes, Aborts, Commits,
         Rejects, Denies
<1>3. ASSUME NEW c \in Coordinator, pc'[c] = "tell_rejected"
      PROVE  status' \in {"ABORTING", "ABORTED"}
  <2>1. CASE Denies(c)
    BY <2>1 DEF Denies
  <2>2. CASE pc[c] = "tell_rejected"
    <3>1. creator = "done" /\ Refused /\ status \in {"ABORTING", "ABORTED"}
      BY <2>2, <1>a DEF Decided, DecisionsAgree, Tellers
    <3>2. \A d \in Coordinator : pc[d] # "commit"
      BY <3>1, NotBoth DEF DecisionsAgree
    <3> QED
      BY <1>f, <3>1, <3>2 DEF StepMoves, StatusMoves
  <2> QED
    BY <1>3, <2>1, <2>2 DEF StepMoves, CoordinatorsMove, Moves, Stays, Writes, Releases,
         Ends, Leads, Polls, Reads, Updates, Rereads, Decides, Resumes, Aborts, Commits,
         Rejects, Grants
<1> QED
  BY <1>1, <1>2, <1>3 DEF Tellers

(* Faults that did not happen in a step had not happened before it.        *)
LEMMA NoFaultBefore ==
    ASSUME TypeInv, FaultsMove, NEW k \in FaultKind, faults'[k] = 0
    PROVE  faults[k] = 0
<1>1. faults[k] \in Nat /\ faults'[k] >= faults[k]
  BY DEF TypeInv, SagaTypeOK, FaultsMove
<1> QED
  BY <1>1

(* One more step without redelivery.                                       *)
LEMMA OnceStep ==
    TypeInv /\ TypeInv' /\ KnownInv /\ StepMoves /\ FaultsMove /\ Once => Once'
<1> SUFFICES ASSUME TypeInv, TypeInv', KnownInv, StepMoves, FaultsMove, Once,
                    faults'["redeliver"] = 0
             PROVE  /\ (VotesAgree /\ DecisionsAgree)'
                    /\ faults'["send"] = 0 => Compensates'
                    /\ faults'["store"] = 0 => Tellers'
  BY DEF Once
<1>1. faults["redeliver"] = 0 /\ (faults'["send"] = 0 => faults["send"] = 0)
      /\ (faults'["store"] = 0 => faults["store"] = 0)
  BY NoFaultBefore DEF FaultKind
<1>2. VotesAgree /\ DecisionsAgree
  BY <1>1 DEF Once
<1>3. VotesAgree'
  BY <1>2, VotesStep
<1>4. DecisionsAgree'
  BY <1>2, DecisionsStep
<1>5. faults'["send"] = 0 => Compensates'
  BY <1>1, <1>2, CompensatesStep DEF Once
<1>6. faults'["store"] = 0 => Tellers'
  BY <1>1, <1>2, TellersStep DEF Once
<1> QED
  BY <1>3, <1>4, <1>5, <1>6

----------------------------------------------------------------------------
(* As long as no held key was lost, one coordinator works at a time, and   *)
(* the status of the saga is what it is doing.                             *)
OneWorks ==
    /\ \A c \in Coordinator : Working(c) => c \in leaders
    /\ verdicts # {} => ~StillOpen
    /\ \A c \in Coordinator :
         /\ pc[c] \in {"update", "reread"} =>
              StillOpen \/ (status = "ABORTED" /\ unsent # {})
         /\ pc[c] \in {"decide", "commit"} => StillOpen
         /\ pc[c] \in {"release", "reject"} => status = "ABORTING"
         /\ pc[c] = "tell_approved" => status = "COMMITTED"
         /\ pc[c] = "tell_rejected" => status = "ABORTED"

Single == faults["key"] = 0 => OneWorks

(* If in addition no update fails, the decision is taken on the answers    *)
(* that are stored, and no answer changes after it.                        *)
Settled ==
    /\ status # "FAILED"
    /\ status = "ABORTING" => AnyRejected(answers)
    /\ status = "ABORTED" /\ unsent = {} => AnyRejected(answers) /\ AllAnswered(answers)
    /\ status = "COMMITTED" => \A r \in Region : answers[r] = "APPROVED"
    /\ "APPROVED" \in verdicts => status = "COMMITTED"
    /\ "REJECTED" \in verdicts => status = "ABORTED"
    /\ \A r \in Region : released[r] > 0 => status \in {"ABORTING", "ABORTED"}

Deciding ==
    \A c \in Coordinator :
      /\ pc[c] \in {"poll", "read", "update", "reread", "decide", "commit"} =>
           status # "ABORTING"
      /\ pc[c] = "poll" => ~(status = "PENDING" /\ AllAnswered(answers))
      /\ pc[c] \in {"read", "update"} /\ AllAnswered(answers)
         /\ (StillOpen \/ pc[c] = "update") => hand[c].outcome = answers[hand[c].region]
      /\ pc[c] \in Decided => snap[c] = answers

Released ==
    LET Given(r) == released[r] >= 1 IN
    /\ "REJECTED" \in verdicts => \A r \in Approvers(answers) : Given(r)
    /\ \A c \in Coordinator :
         /\ pc[c] = "release" => \A r \in Approvers(answers) \ todo[c] : Given(r)
         /\ pc[c] \in {"reject", "tell_rejected"} => \A r \in Approvers(answers) : Given(r)

Firm ==
    faults["key"] = 0 /\ faults["store"] = 0 =>
        Settled /\ Deciding /\ (faults["send"] = 0 => Released)

(* Two that work would both hold the key.                                  *)
LEMMA OnlyOneWorks ==
    ASSUME LeadersHoldKey, faults["key"] = 0, OneWorks,
           NEW c \in Coordinator, NEW d \in Coordinator, Working(c), Working(d)
    PROVE  c = d
  BY DEF LeadersHoldKey, OneWorks

(* So the status changes only by the one that works.                       *)
LEMMA OwnStatus ==
    ASSUME LeadersHoldKey, faults["key"] = 0, OneWorks, StepMoves, KnownInv,
           NEW c \in Coordinator, Working(c)
    PROVE  \/ status' = status
           \/ creator = "insert" /\ status' = "PENDING"
           \/ creator = "send" /\ unsent' = unsent /\ unsent # {} /\ status' = "ABORTED"
           \/ pc[c] = "decide" /\ pc'[c] = "release" /\ status' = "ABORTING"
           \/ pc[c] = "reject" /\ pc'[c] = "tell_rejected" /\ status' = "ABORTED"
           \/ pc[c] = "commit" /\ pc'[c] = "tell_approved" /\ status' = "COMMITTED"
           \/ pc'[c] = "poll" /\ faults'["store"] > 0 /\ status' = "FAILED"
<1>1. ASSUME NEW d \in Coordinator, Working(d) PROVE d = c
  BY <1>1, OnlyOneWorks
<1> QED
  BY <1>1 DEF StepMoves, StatusMoves, Working, KnownInv, CreationOrder

LEMMA SingleStep ==
    ASSUME TypeInv, TypeInv', KnownInv, StepMoves, FaultsMove, LeadersHoldKey, Single
    PROVE  Single'
<1> SUFFICES ASSUME faults'["key"] = 0 PROVE OneWorks'
  BY DEF Single
<1>k. faults["key"] = 0 /\ OneWorks
  BY NoFaultBefore DEF FaultKind, Single
<1>1. ASSUME NEW c \in Coordinator, pc'[c] \notin {"standby", "dead"} PROVE c \in leaders'
  <2>1. CASE Leads(c)
    BY <2>1 DEF Leads
  <2>2. CASE Working(c)
    BY <1>k, <1>1, <2>2 DEF OneWorks, StepMoves, LeadersMove
  <2> QED
    BY <1>1, <2>1, <2>2 DEF StepMoves, CoordinatorsMove, Moves, Stays, Writes, Releases,
         Ends, Polls, Reads, Updates, Rereads, Decides, Resumes, Aborts, Commits,
         Rejects, Denies, Grants, Working
<1>a. ASSUME NEW c \in Coordinator, pc[c] \in Decided
      PROVE  unsent = {} /\ creator = "done" /\ Working(c)
  BY <1>a, DecidedMeansAnswered, AllAsked DEF Decided, Working
<1>2. ASSUME verdicts' # {} PROVE status' \notin {"PENDING", "ABORTING"}
  <2>1. CASE verdicts # {}
    <3>1. status \notin {"PENDING", "ABORTING"} /\ creator = "done"
      BY <1>k, <2>1, AllAsked DEF OneWorks, StillOpen, KnownInv, DecidedOnAll
    <3>2. \A c \in Coordinator : pc[c] # "decide"
      BY <1>k, <3>1 DEF OneWorks, StillOpen
    <3> QED
      BY <3>1, <3>2 DEF StepMoves, StatusMoves
  <2>2. ASSUME NEW c \in Coordinator, pc[c] \in {"tell_approved", "tell_rejected"}
        PROVE  status' \notin {"PENDING", "ABORTING"}
    <3>1. status \notin {"PENDING", "ABORTING"} /\ creator = "done" /\ Working(c)
      BY <1>a, <1>k, <2>2 DEF OneWorks, Decided
    <3> QED
      BY <1>k, <2>2, <3>1, OwnStatus
  <2> QED
    BY <1>2, <2>1, <2>2 DEF StepMoves, VerdictsMove
<1>3. ASSUME NEW c \in Coordinator, pc'[c] \in {"update", "reread"}
      PROVE  status' \in {"PENDING", "ABORTING"} \/ (status' = "ABORTED" /\ unsent' # {})
  <2>1. Working(c) /\ pc[c] \in {"read", "update", "reread"}
        /\ (status \in {"PENDING", "ABORTING"} \/ (status = "ABORTED" /\ unsent # {}))
    BY <1>3, <1>k DEF StepMoves, CoordinatorsMove, Moves, Stays, Writes, Releases, Ends,
         Leads, Polls, Reads, Updates, Rereads, Decides, Resumes, Aborts, Commits,
         Rejects, Denies, Grants, Working, OneWorks, StillOpen
  <2>2. status' = status \/ status' = "PENDING" \/ (status' = "ABORTED" /\ unsent' # {})
    BY <1>3, <1>k, <2>1, OwnStatus
  <2>3. status = "ABORTED" => unsent' = unsent
    BY DEF KnownInv, DecidedOnAll, StepMoves, CreatorMoves
  <2> QED
    BY <2>1, <2>2, <2>3
<1>4. ASSUME NEW c \in Coordinator, pc'[c] \in {"decide", "commit"}
      PROVE  status' \in {"PENDING", "ABORTING"}
  <2>1. CASE Decides(c)
    <3>1. unsent = {} /\ creator = "done" /\ pc[c] = "reread" /\ pc'[c] = "decide"
      BY <2>1, AllAsked DEF Decides
    <3>2. status \in {"PENDING", "ABORTING"}
      BY <1>k, <3>1 DEF OneWorks, StillOpen
    <3> QED
      BY <1>k, <3>1, <3>2, OwnStatus DEF Working
  <2>2. CASE pc[c] \in {"decide", "commit"}
    <3>1. status \in {"PENDING", "ABORTING"} /\ creator = "done" /\ Working(c)
      BY <1>k, <1>a, <2>2 DEF OneWorks, StillOpen, Decided
    <3> QED
      BY <1>4, <1>k, <3>1, OwnStatus
  <2> QED
    BY <1>4, <2>1, <2>2 DEF StepMoves, CoordinatorsMove, Moves, Stays, Writes, Releases,
         Ends, Leads, Polls, Reads, Updates, Rereads, Resumes, Aborts, Commits,
         Rejects, Denies, Grants
<1>5. ASSUME NEW c \in Coordinator, pc'[c] \in {"release", "reject"}
      PROVE  status' = "ABORTING"
  <2>1. CASE Aborts(c)
    BY <2>1 DEF Aborts
  <2>2. CASE Resumes(c)
    <3>1. status = "ABORTING" /\ creator = "done" /\ pc[c] = "recover" /\ pc'[c] = "release"
      BY <2>2, AllAsked DEF Resumes, KnownInv, DecidedOnAll
    <3> QED
      BY <1>k, <3>1, OwnStatus DEF Working
  <2>3. CASE pc[c] \in {"release", "reject"}
    <3>1. status = "ABORTING" /\ creator = "done" /\ Working(c)
      BY <1>k, <1>a, <2>3 DEF OneWorks, Decided
    <3> QED
      BY <1>5, <1>k, <2>3, <3>1, OwnStatus
  <2> QED
    BY <1>5, <2>1, <2>2, <2>3 DEF StepMoves, CoordinatorsMove, Moves, Stays, Writes, Releases,
         Ends, Leads, Polls, Reads, Updates, Rereads, Decides, Commits,
         Rejects, Denies, Grants
<1>6. ASSUME NEW c \in Coordinator
      PROVE  /\ pc'[c] = "tell_approved" => status' = "COMMITTED"
             /\ pc'[c] = "tell_rejected" => status' = "ABORTED"
  <2>1. CASE Grants(c) \/ Denies(c)
    BY <2>1 DEF Grants, Denies
  <2>2. CASE pc[c] \in {"tell_approved", "tell_rejected"} /\ pc'[c] = pc[c]
    <3>1. creator = "done" /\ Working(c)
          /\ status = IF pc[c] = "tell_approved" THEN "COMMITTED" ELSE "ABORTED"
      BY <1>k, <1>a, <2>2 DEF OneWorks, Decided
    <3> QED
      BY <1>k, <2>2, <3>1, OwnStatus
  <2> QED
    BY <2>1, <2>2 DEF StepMoves, CoordinatorsMove, Moves, Stays, Writes, Releases,
         Ends, Leads, Polls, Reads, Updates, Rereads, Decides, Resumes, Aborts, Commits,
         Rejects
<1> QED
  BY <1>1, <1>2, <1>3, <1>4, <1>5, <1>6 DEF OneWorks, Working, StillOpen

(* The faults under which Firm holds did not happen before the step.       *)
FirmNow ==
    /\ LeadersHoldKey /\ faults["key"] = 0 /\ OneWorks
    /\ faults'["store"] = 0 /\ Settled /\ Deciding

(* All answers together are final: an outcome that is handled after them   *)
(* is one of them.                                                         *)
LEMMA AnswersAreFinal ==
    ASSUME TypeInv, TypeInv', KnownInv, StepMoves, FirmNow, AllAnswered(answers)
    PROVE  answers' = answers
<1>1. ASSUME NEW r \in Region PROVE answers'[r] = answers[r]
  <2> SUFFICES ASSUME answers'[r] # answers[r] PROVE FALSE
    OBVIOUS
  <2>1. PICK c \in Coordinator :
          pc[c] = "update" /\ hand[c].region = r /\ hand[c].outcome = answers'[r]
    BY DEF StepMoves, AnswersMove
  <2> QED
    BY <2>1 DEF FirmNow, Deciding
<1> QED
  BY <1>1 DEF TypeInv, SagaTypeOK

(* A coordinator about to abort or commit has read the stored answers.     *)
LEMMA DecidesOnStored ==
    ASSUME KnownInv, FirmNow, NEW c \in Coordinator, pc[c] \in Decided
    PROVE  snap[c] = answers /\ AllAnswered(answers) /\ creator # "insert" /\ Working(c)
<1>1. AllAnswered(answers) /\ snap[c] = answers
  BY DecidedMeansAnswered DEF FirmNow, Deciding
<1>2. creator # "insert"
  <2>1. \A r \in Region : r \notin unsent
    BY <1>1 DEF KnownInv, AnswersAreTrue, AllAnswered, IsTrue
  <2> QED
    BY <2>1, SagaAssumption DEF KnownInv, CreationOrder
<1> QED
  BY <1>1, <1>2 DEF Decided, Working

(* The decision, what was published and what was released fit the answers. *)
LEMMA SettledStep ==
    ASSUME TypeInv, TypeInv', KnownInv, StepMoves, FirmNow
    PROVE  Settled'
<1>f. ~(faults'["store"] > 0)
  BY DEF FirmNow
<1>a. ASSUME NEW c \in Coordinator, pc[c] \in Decided
      PROVE  /\ snap[c] = answers /\ AllAnswered(answers) /\ creator = "done"
             /\ answers' = answers /\ Working(c)
  BY <1>a, DecidesOnStored, AllAsked, AnswersAreFinal
<1>s. ASSUME status' # status
      PROVE  \/ status' = "PENDING" /\ creator = "insert"
             \/ status' = "ABORTED" /\ unsent' # {} /\ creator = "send"
             \/ \E c \in Coordinator :
                  /\ pc[c] \in Decided
                  /\ \/ pc[c] = "decide" /\ AnyRejected(answers) /\ status' = "ABORTING"
                     \/ pc[c] = "reject" /\ status' = "ABORTED"
                     \/ pc[c] = "commit" /\ status' = "COMMITTED"
  <2>1. CASE creator = "send" /\ unsent' = unsent /\ status' = "ABORTED"
    BY <2>1 DEF KnownInv, CreationOrder
  <2>2. ASSUME NEW c \in Coordinator, pc[c] = "decide", AnyRejected(snap[c])
        PROVE  AnyRejected(answers)
    BY <2>2, <1>a DEF Decided
  <2> QED
    BY <1>s, <1>f, <2>1, <2>2 DEF StepMoves, StatusMoves, Decided
<1>1. status' # "FAILED"
  BY <1>s DEF FirmNow, Settled
<1>2. status' = "ABORTING" => AnyRejected(answers')
  <2> SUFFICES ASSUME status' = "ABORTING" PROVE AnyRejected(answers) /\ answers' = answers
    OBVIOUS
  <2>1. CASE status = "ABORTING"
    BY <2>1, AnswersAreFinal DEF FirmNow, Settled, KnownInv, DecidedOnAll
  <2>2. CASE status' # status
    BY <2>2, <1>s, <1>a
  <2> QED
    BY <2>1, <2>2
<1>3. status' = "ABORTED" /\ unsent' = {} => AnyRejected(answers') /\ AllAnswered(answers')
  <2> SUFFICES ASSUME status' = "ABORTED", unsent' = {}
               PROVE  AnyRejected(answers) /\ AllAnswered(answers) /\ answers' = answers
    OBVIOUS
  <2>1. CASE status = "ABORTED"
    <3>1. unsent = {}
      BY <2>1 DEF KnownInv, DecidedOnAll, StepMoves, CreatorMoves
    <3> QED
      BY <2>1, <3>1, AnswersAreFinal DEF FirmNow, Settled
  <2>2. CASE status' # status
    <3>1. PICK c \in Coordinator : pc[c] = "reject"
      BY <2>2, <1>s
    <3>2. status = "ABORTING" /\ AllAnswered(answers) /\ answers' = answers
      BY <3>1, <1>a DEF FirmNow, OneWorks, Decided
    <3> QED
      BY <3>2 DEF FirmNow, Settled
  <2> QED
    BY <2>1, <2>2
<1>4. status' = "COMMITTED" => \A r \in Region : answers'[r] = "APPROVED"
  <2>1. CASE status = "COMMITTED"
    BY <2>1, AnswersAreFinal DEF FirmNow, Settled, KnownInv, DecidedOnAll
  <2>2. CASE status' # status /\ status' = "COMMITTED"
    <3>1. PICK c \in Coordinator : pc[c] = "commit"
      BY <2>2, <1>s
    <3>2. ~AnyRejected(answers) /\ AllAnswered(answers) /\ answers' = answers
      BY <3>1, <1>a DEF KnownInv, DecidedOnAll, Decided
    <3> QED
      BY <3>2 DEF AnyRejected, AllAnswered, TypeInv, SagaTypeOK, Answer
  <2> QED
    BY <2>1, <2>2
<1>v. ASSUME status # status', verdicts # {} PROVE FALSE
  <2>1. status \notin {"PENDING", "ABORTING"} /\ creator = "done"
    BY <1>v, AllAsked DEF FirmNow, OneWorks, StillOpen, KnownInv, DecidedOnAll
  <2>2. \A c \in Coordinator : pc[c] \notin {"decide", "reject", "commit"}
    BY <2>1 DEF FirmNow, OneWorks, StillOpen
  <2> QED
    BY <1>v, <1>s, <2>1, <2>2
<1>w. ASSUME NEW c \in Coordinator, pc[c] \in {"tell_approved", "tell_rejected"}
      PROVE  /\ status' = status
             /\ status = IF pc[c] = "tell_approved" THEN "COMMITTED" ELSE "ABORTED"
  <2>1. /\ status = IF pc[c] = "tell_approved" THEN "COMMITTED" ELSE "ABORTED"
        /\ creator = "done"
    BY <1>w, <1>a DEF FirmNow, OneWorks, Decided
  <2>2. \A d \in Coordinator : pc[d] \notin {"decide", "reject", "commit"}
    BY <1>w, <2>1 DEF FirmNow, OneWorks, StillOpen
  <2> QED
    BY <1>s, <2>1, <2>2
<1>5. "APPROVED" \in verdicts' => status' = "COMMITTED"
  BY <1>v, <1>w DEF StepMoves, VerdictsMove, FirmNow, Settled
<1>6. "REJECTED" \in verdicts' => status' = "ABORTED"
  BY <1>v, <1>w DEF StepMoves, VerdictsMove, FirmNow, Settled
<1>7. ASSUME NEW r \in Region, released'[r] > 0 PROVE status' \in {"ABORTING", "ABORTED"}
  <2>1. status \in {"ABORTING", "ABORTED"}
    <3>1. CASE released'[r] = released[r]
      BY <1>7, <3>1 DEF FirmNow, Settled
    <3>2. CASE released'[r] # released[r]
      BY <3>2 DEF StepMoves, ReleasesMove, FirmNow, OneWorks
    <3> QED
      BY <3>1, <3>2
  <2>2. creator # "insert"
    BY <2>1 DEF KnownInv, CreationOrder
  <2>3. \A c \in Coordinator : pc[c] # "commit"
    BY <2>1 DEF FirmNow, OneWorks, Deciding, StillOpen
  <2> QED
    BY <1>s, <2>1, <2>2, <2>3
<1> QED
  BY <1>1, <1>2, <1>3, <1>4, <1>5, <1>6, <1>7 DEF Settled

(* Outcomes that are handled once the decision is stored are ignored, and  *)
(* what a coordinator has read for its decision stays the answers.         *)
LEMMA DecidingStep ==
    ASSUME TypeInv, TypeInv', KnownInv, StepMoves, FirmNow
    PROVE  Deciding'
<1>f. ~(faults'["store"] > 0)
  BY DEF FirmNow
<1> SUFFICES ASSUME NEW c \in Coordinator
             PROVE  /\ pc'[c] \in {"poll", "read", "update", "reread", "decide", "commit"} =>
                         status' # "ABORTING"
                    /\ pc'[c] = "poll" => ~(status' = "PENDING" /\ AllAnswered(answers'))
                    /\ pc'[c] \in {"read", "update"} /\ AllAnswered(answers')
                       /\ (status' \in {"PENDING", "ABORTING"} \/ pc'[c] = "update") =>
                         hand'[c].outcome = answers'[hand'[c].region]
                    /\ pc'[c] \in Decided => snap'[c] = answers'
  BY DEF Deciding, StillOpen
<1>w. CASE ~Working(c) /\ pc'[c] # "recover" /\ pc'[c] \notin {"standby", "dead"}
  BY <1>w DEF StepMoves, CoordinatorsMove, Moves, Stays, Writes, Releases, Ends, Leads, Polls,
       Reads, Updates, Rereads, Decides, Resumes, Aborts, Commits, Rejects, Denies, Grants,
       Working
<1>i. CASE pc'[c] \in {"recover", "standby", "dead"}
  BY <1>i DEF Decided
<1>k. CASE Working(c)
  <2>s. \/ status' = status
        \/ creator = "insert" /\ status' = "PENDING"
        \/ creator = "send" /\ status' = "ABORTED"
        \/ pc[c] = "decide" /\ pc'[c] = "release"
        \/ pc[c] = "reject" /\ pc'[c] = "tell_rejected"
        \/ pc[c] = "commit" /\ pc'[c] = "tell_approved"
    BY <1>f, <1>k, OwnStatus DEF FirmNow
  <2>a. \/ answers' = answers
        \/ pc[c] = "update" /\ pc'[c] = "reread"
    <3>1. CASE \E r \in Region : answers'[r] # answers[r]
      <4>1. PICK d \in Coordinator : pc[d] = "update" /\ pc'[d] = "reread"
        BY <3>1 DEF StepMoves, AnswersMove
      <4>2. d = c
        BY <1>k, <4>1, OnlyOneWorks DEF FirmNow, Working
      <4> QED
        BY <4>1, <4>2
    <3>2. CASE \A r \in Region : answers'[r] = answers[r]
      BY <3>2 DEF TypeInv, SagaTypeOK
    <3> QED
      BY <3>1, <3>2
  <2>d. pc[c] \in Decided => snap[c] = answers /\ creator = "done"
    BY DecidesOnStored, AllAsked
  <2>o. AllAnswered(answers) => creator = "done"
    BY AllAsked
  <2>g. status = "ABORTING" => creator = "done"
    BY AllAsked DEF KnownInv, DecidedOnAll
  <2>1. pc'[c] \in {"poll", "read", "update", "reread", "decide", "commit"} =>
          status' # "ABORTING"
    <3> SUFFICES ASSUME pc'[c] \in {"poll", "read", "update", "reread", "decide", "commit"},
                        status = "ABORTING"
                 PROVE  FALSE
      BY <2>s
    <3>1. pc[c] \notin {"poll", "read", "update", "reread", "decide", "commit"}
      BY DEF FirmNow, Deciding
    <3>2. pc[c] \notin {"tell_approved", "tell_rejected"}
      BY DEF FirmNow, OneWorks
    <3> QED
      BY <1>f, <3>1, <3>2 DEF StepMoves, CoordinatorsMove, Moves, Stays, Writes, Releases,
           Ends, Leads, Polls, Reads, Updates, Rereads, Decides, Resumes, Aborts, Commits,
           Rejects, Denies, Grants
  <2>2. pc'[c] = "poll" => ~(status' = "PENDING" /\ AllAnswered(answers'))
    <3> SUFFICES ASSUME pc'[c] = "poll", status' = "PENDING", AllAnswered(answers) PROVE FALSE
      BY <2>a
    <3>1. status = "PENDING"
      BY <2>s, <2>o
    <3>2. CASE Stays(c)
      BY <3>1, <3>2 DEF Stays, FirmNow, Deciding
    <3>3. CASE Polls(c)
      BY <1>f, <3>1, <3>3 DEF Polls, StillOpen, FirmNow, OneWorks
    <3> QED
      BY <3>2, <3>3 DEF StepMoves, CoordinatorsMove, Moves, Writes, Releases, Ends, Leads,
           Reads, Updates, Rereads, Decides, Resumes, Aborts, Commits, Rejects, Denies, Grants
  <2>3. pc'[c] \in {"read", "update"} /\ AllAnswered(answers')
        /\ (status' \in {"PENDING", "ABORTING"} \/ pc'[c] = "update") =>
          hand'[c].outcome = answers'[hand'[c].region]
    <3> SUFFICES ASSUME pc'[c] \in {"read", "update"}, AllAnswered(answers),
                        status' \in {"PENDING", "ABORTING"} \/ pc'[c] = "update"
                 PROVE  hand'[c].outcome = answers[hand'[c].region]
      BY <2>a
    <3>1. status' = status
      BY <2>s, <2>o
    <3>2. CASE Stays(c)
      BY <3>1, <3>2 DEF Stays, Keeps, FirmNow, Deciding, StillOpen
    <3>3. CASE Reads(c)
      BY <3>1, <3>3 DEF Reads, FirmNow, Deciding, StillOpen
    <3>4. CASE Updates(c)
      BY <3>4 DEF Updates, Keeps, FirmNow, Deciding
    <3> QED
      BY <3>2, <3>3, <3>4 DEF StepMoves, CoordinatorsMove, Moves, Writes, Releases, Ends,
           Leads, Polls, Rereads, Decides, Resumes, Aborts, Commits, Rejects, Denies, Grants
  <2>4. pc'[c] \in Decided => snap'[c] = answers'
    <3> SUFFICES ASSUME pc'[c] \in Decided PROVE snap'[c] = answers
      BY <2>a DEF Decided
    <3> QED
      BY <2>d DEF StepMoves, CoordinatorsMove, Moves, Stays, Writes, Releases, Ends, Leads,
           Polls, Reads, Updates, Rereads, Decides, Resumes, Aborts, Commits, Rejects,
           Denies, Grants, Keeps, Decided
  <2> QED
    BY <2>1, <2>2, <2>3, <2>4
<1> QED
  BY <1>w, <1>i, <1>k

(* The loop over the approvers releases all of them.                       *)
LEMMA ReleasedStep ==
    ASSUME TypeInv, TypeInv', KnownInv, StepMoves, FirmNow, faults'["send"] = 0, Released
    PROVE  Released'
<1>r. ASSUME NEW r \in Region, released[r] >= 1 PROVE released'[r] >= 1
  BY <1>r DEF StepMoves, ReleasesMove
<1>a. ASSUME NEW c \in Coordinator, pc[c] \in Decided
      PROVE  snap[c] = answers /\ AllAnswered(answers) /\ answers' = answers
  BY <1>a, DecidesOnStored, AnswersAreFinal
<1>1. ASSUME "REJECTED" \in verdicts', NEW r \in Approvers(answers') PROVE released'[r] >= 1
  <2>1. answers' = answers /\ r \in Region
    BY <1>1, <1>a, AnswersAreFinal
       DEF StepMoves, VerdictsMove, KnownInv, DecidedOnAll, Decided, Approvers
  <2>2. released[r] >= 1
    BY <1>1, <2>1 DEF StepMoves, VerdictsMove, Released
  <2> QED
    BY <1>r, <2>1, <2>2
<1>2. ASSUME NEW c \in Coordinator, pc'[c] = "release", NEW r \in Approvers(answers') \ todo'[c]
      PROVE  released'[r] >= 1
  <2>1. CASE Aborts(c)
    BY <1>2, <2>1, <1>a DEF Aborts, Decided
  <2>2. CASE Resumes(c)
    BY <1>2, <2>2, AnswersAreFinal DEF Resumes, KnownInv, DecidedOnAll
  <2>3. CASE Stays(c) \/ Releases(c)
    <3>1. answers' = answers /\ r \in Region /\ pc[c] = "release"
      BY <1>2, <2>3, <1>a DEF Stays, Releases, Decided, Approvers
    <3>2. ~(faults'["send"] > 0)
      OBVIOUS
    <3>3. released'[r] >= 1 \/ r \notin todo[c]
      BY <1>2, <2>3, <3>2 DEF Stays, Releases
    <3> QED
      BY <1>2, <1>r, <3>1, <3>3 DEF Released
  <2>4. CASE Ends(c) \/ Leads(c) \/ Polls(c) \/ Reads(c) \/ Updates(c) \/ Rereads(c)
             \/ Decides(c)
             \/ Writes(c) \/ Commits(c) \/ Rejects(c) \/ Denies(c) \/ Grants(c)
    BY <1>2, <2>4 DEF Ends, Leads, Polls, Reads, Updates, Rereads, Decides, Writes,
         Commits, Rejects, Denies, Grants
  <2> QED
    BY <2>1, <2>2, <2>3, <2>4 DEF StepMoves, CoordinatorsMove, Moves
<1>3. ASSUME NEW c \in Coordinator, pc'[c] \in {"reject", "tell_rejected"},
             NEW r \in Approvers(answers')
      PROVE  released'[r] >= 1
  <2>1. CASE Rejects(c) \/ Denies(c) \/ Stays(c) \/ Writes(c)
    <3>1. answers' = answers /\ r \in Region
      BY <1>3, <2>1, <1>a DEF Rejects, Denies, Stays, Writes, Decided, Approvers
    <3>2. released[r] >= 1
      BY <1>3, <2>1, <3>1 DEF Rejects, Denies, Stays, Writes, Released
    <3> QED
      BY <1>r, <3>1, <3>2
  <2>2. CASE Ends(c) \/ Leads(c) \/ Polls(c) \/ Reads(c) \/ Updates(c) \/ Rereads(c)
             \/ Decides(c)
             \/ Resumes(c) \/ Aborts(c) \/ Releases(c) \/ Commits(c) \/ Grants(c)
    BY <1>3, <2>2 DEF Ends, Leads, Polls, Reads, Updates, Rereads, Decides, Resumes,
         Aborts, Releases, Commits, Grants
  <2> QED
    BY <2>1, <2>2 DEF StepMoves, CoordinatorsMove, Moves
<1> QED
  BY <1>1, <1>2, <1>3 DEF Released

(* One more step with one coordinator whose updates do not fail.           *)
LEMMA FirmStep ==
    ASSUME TypeInv, TypeInv', KnownInv, StepMoves, FaultsMove, LeadersHoldKey, Single, Firm
    PROVE  Firm'
<1> SUFFICES ASSUME faults'["key"] = 0, faults'["store"] = 0
             PROVE  Settled' /\ Deciding' /\ (faults'["send"] = 0 => Released')
  BY DEF Firm
<1>1. /\ faults["key"] = 0 /\ faults["store"] = 0
      /\ faults'["send"] = 0 => faults["send"] = 0
  BY NoFaultBefore DEF FaultKind
<1>2. FirmNow
  BY <1>1 DEF FirmNow, Single, Firm
<1>3. faults'["send"] = 0 => Released'
  BY <1>1, <1>2, ReleasedStep DEF Firm
<1> QED
  BY <1>2, <1>3, SettledStep, DecidingStep

----------------------------------------------------------------------------
(* All of it together.                                                     *)
SagaInv == LeadersHoldKey /\ KnownInv /\ Once /\ Single /\ Firm

(* What AnswersApart and FaultsApart say of the faults so far.             *)
AnswersApartNow == faults["redeliver"] = 0 \/ (faults["key"] = 0 /\ faults["store"] = 0)
FaultsApartNow  == AnswersApartNow /\ (faults["key"] = 0 \/ faults["store"] = 0)

(* Nothing has happened before the saga is created.                        *)
LEMMA SagaStart == Init => SagaInv /\ FaultsApartNow
<1> SUFFICES ASSUME Init PROVE SagaInv /\ FaultsApartNow
  OBVIOUS
<1>p. \A c \in Coordinator : pc[c] = "standby" /\ snap[c] = NoAnswers
  BY DEF Init
<1>h. NoReply \notin Reply /\ Region # {}
  BY SagaAssumption
<1>f. \A k \in FaultKind : faults[k] = 0
  BY DEF Init
<1>1. LeadersHoldKey
  BY DEF Init, LeadersHoldKey
<1>2. \A m \in Reply : ~Reported(m)
  BY <1>h DEF Init, Reported
<1>3. KnownInv
  BY <1>p, <1>h, <1>2 DEF Init, KnownInv, RepliesAreTrue, AnswersAreTrue, SnapsAreAnswers,
       CreationOrder, DecidedOnAll, NoAnswers, Decided
<1>4. VotesAgree
  BY <1>p, <1>2 DEF Init, VotesAgree, NoAnswers
<1>5. DecisionsAgree /\ Compensates /\ Tellers
  BY <1>p DEF Init, DecisionsAgree, Compensates, Tellers
<1>6. OneWorks
  BY <1>p DEF Init, OneWorks, Working
<1>7. Settled /\ Deciding /\ Released
  BY <1>p DEF Init, Settled, Deciding, Released, Decided
<1> QED
  BY <1>f, <1>1, <1>3, <1>4, <1>5, <1>6, <1>7
     DEF SagaInv, Once, Single, Firm, FaultsApartNow, AnswersApartNow, FaultKind

(* Every step keeps all of it.                                             *)
LEMMA SagaStep == TypeInv /\ TypeInv' /\ SagaInv /\ [Next]_vars => SagaInv'
<1> SUFFICES ASSUME TypeInv, TypeInv', SagaInv, [Next]_vars PROVE SagaInv'
  OBVIOUS
<1>1. StepMoves /\ FaultsMove /\ LeadersHoldKey'
  BY StepsMove, FaultsStep, LeadersStep DEF SagaInv
<1>2. KnownInv'
  BY <1>1, KnownStep DEF SagaInv
<1>3. Once'
  BY <1>1, OnceStep DEF SagaInv
<1>4. Single'
  BY <1>1, SingleStep DEF SagaInv
<1>5. Firm'
  BY <1>1, FirmStep DEF SagaInv
<1> QED
  BY <1>1, <1>2, <1>3, <1>4, <1>5 DEF SagaInv

LEMMA SagaInvHolds == Spec => []SagaInv
  BY SagaStart, SagaStep, TypesHold, PTL DEF Spec

(* Faults that no budget has together do not come together.                *)
LEMMA ApartStep ==
    ASSUME AnswersApart
    PROVE  TypeInv /\ TypeInv' /\ AnswersApartNow /\ [Next]_vars => AnswersApartNow'
<1> SUFFICES ASSUME TypeInv, TypeInv', AnswersApartNow, [Next]_vars PROVE AnswersApartNow'
  OBVIOUS
<1>1. CASE faults' = faults
  BY <1>1 DEF AnswersApartNow
<1>2. ASSUME NEW b \in Budgets, \A k \in FaultKind : faults'[k] <= b[k]
      PROVE  AnswersApartNow'
  <2>1. \A k \in FaultKind : b[k] \in Nat /\ faults'[k] \in Nat
    BY SagaAssumption DEF TypeInv, SagaTypeOK
  <2>2. \A k \in FaultKind : b[k] = 0 => faults'[k] = 0
    BY <1>2, <2>1
  <2> QED
    BY <2>2 DEF AnswersApart, AnswersApartNow, FaultKind
<1> QED
  BY <1>1, <1>2, FaultsStep DEF FaultsMove

LEMMA AllApartStep ==
    ASSUME FaultsApart
    PROVE  TypeInv /\ TypeInv' /\ FaultsApartNow /\ [Next]_vars => FaultsApartNow'
<1> SUFFICES ASSUME TypeInv, TypeInv', FaultsApartNow, [Next]_vars PROVE FaultsApartNow'
  OBVIOUS
<1>1. AnswersApartNow'
  BY ApartStep DEF FaultsApart, FaultsApartNow
<1>2. CASE faults' = faults
  BY <1>1, <1>2 DEF FaultsApartNow
<1>3. ASSUME NEW b \in Budgets, \A k \in FaultKind : faults'[k] <= b[k]
      PROVE  FaultsApartNow'
  <2>1. \A k \in FaultKind : b[k] \in Nat /\ faults'[k] \in Nat
    BY SagaAssumption DEF TypeInv, SagaTypeOK
  <2>2. \A k \in FaultKind : b[k] = 0 => faults'[k] = 0
    BY <1>3, <2>1
  <2> QED
    BY <1>1, <2>2 DEF FaultsApart, FaultsApartNow, FaultKind
<1> QED
  BY <1>2, <1>3, FaultsStep DEF FaultsMove

(* However many regions and coordinators there are, an approved booking    *)
(* holds its places everywhere and none was given back, unless a region    *)
(* may answer again beside a second leader or a failing update.            *)
THEOREM ApprovedBookingsKeepPlaces ==
    ASSUME AnswersApart PROVE Spec => []ApprovedKeepsPlaces
<1>1. Init => AnswersApartNow
  BY SagaStart DEF FaultsApartNow
<1>2. TypeInv /\ SagaInv /\ AnswersApartNow => ApprovedKeepsPlaces
  <2> SUFFICES ASSUME TypeInv, SagaInv, AnswersApartNow,
                      "APPROVED" \in verdicts \/ status = "COMMITTED", NEW r \in Region
               PROVE  reserved[r] >= 1 /\ released[r] = 0
    BY DEF ApprovedKeepsPlaces
  <2>t. released[r] \in Nat
    BY DEF TypeInv, SagaTypeOK
  <2>1. CASE faults["redeliver"] = 0
    <3>1. Granted /\ (released[r] > 0 => Refused)
      BY <2>1 DEF SagaInv, Once, DecisionsAgree
    <3> QED
      BY <2>t, <3>1, NotBoth DEF Granted
  <2>2. CASE faults["key"] = 0 /\ faults["store"] = 0
    <3>1. status = "COMMITTED" /\ answers[r] = "APPROVED" /\ ~(released[r] > 0)
      BY <2>2 DEF SagaInv, Firm, Settled
    <3>2. reserved[r] >= 1
      BY <3>1 DEF SagaInv, KnownInv, AnswersAreTrue, IsTrue
    <3> QED
      BY <2>t, <3>1, <3>2
  <2> QED
    BY <2>1, <2>2 DEF AnswersApartNow
<1> QED
  BY <1>1, <1>2, SagaInvHolds, TypesHold, ApartStep, PTL DEF Spec

(* Under the same hypothesis a booking is reported rejected only after a   *)
(* release was sent to every region whose answer in the saga is an         *)
(* approval, unless the publication of a release failed.                   *)
THEOREM RejectedBookingsAreCompensated ==
    ASSUME AnswersApart PROVE Spec => []RejectedIsCompensated
<1>1. Init => AnswersApartNow
  BY SagaStart DEF FaultsApartNow
<1>2. TypeInv /\ SagaInv /\ AnswersApartNow => RejectedIsCompensated
  <2> SUFFICES ASSUME TypeInv, SagaInv, AnswersApartNow,
                      "REJECTED" \in verdicts, faults["send"] = 0, NEW r \in Approvers(answers)
               PROVE  released[r] >= 1
    BY DEF RejectedIsCompensated
  <2>r. r \in Region /\ answers[r] = "APPROVED"
    BY DEF Approvers
  <2>1. CASE faults["redeliver"] = 0
    <3>1. Compensated(r)
      BY <2>1, <2>r DEF SagaInv, Once, Compensates
    <3>2. reserved[r] >= 1
      BY <2>r DEF SagaInv, KnownInv, AnswersAreTrue, IsTrue
    <3> QED
      BY <3>1, <3>2 DEF Compensated
  <2>2. CASE faults["key"] = 0 /\ faults["store"] = 0
    BY <2>2 DEF SagaInv, Firm, Released
  <2> QED
    BY <2>1, <2>2 DEF AnswersApartNow
<1> QED
  BY <1>1, <1>2, SagaInvHolds, TypesHold, ApartStep, PTL DEF Spec

----------------------------------------------------------------------------
(* The saga implements AtomicBooking, step by step.                        *)

(* What the mapping sees of a state.                                       *)
LEMMA DecisionCases ==
    ASSUME TypeInv
    PROVE  /\ Decision \in {"open", "commit", "abort", "failed"}
           /\ Decision = "commit" <=> status = "COMMITTED"
           /\ Decision = "abort" <=> status \in {"ABORTING", "ABORTED"}
           /\ Decision = "failed" <=> status = "FAILED"
           /\ Decision = "open" <=> status \in {"NONE", "PENDING"}
  BY DEF Decision, TypeInv, SagaTypeOK, Terminal

(* Only what was decided is published.                                     *)
LEMMA TellsDecision ==
    ASSUME SagaInv, FaultsApartNow, NEW c \in Coordinator
    PROVE  /\ pc[c] = "tell_approved" => status = "COMMITTED"
           /\ pc[c] = "tell_rejected" => status \in {"ABORTING", "ABORTED"}
<1>1. CASE faults["key"] = 0
  BY <1>1 DEF SagaInv, Single, OneWorks
<1>2. CASE faults["redeliver"] = 0 /\ faults["store"] = 0
  BY <1>2 DEF SagaInv, Once, Tellers
<1> QED
  BY <1>1, <1>2 DEF FaultsApartNow, AnswersApartNow

(* A coordinator at its decision finds the answers of all regions stored,  *)
(* in a saga that was created.                                             *)
LEMMA DecisionPending ==
    ASSUME TypeInv, SagaInv, NEW c \in Coordinator, pc[c] \in Decided
    PROVE  /\ AllAnswered(answers) /\ unsent = {} /\ creator = "done" /\ status # "NONE"
           /\ status = "PENDING" => verdicts = {}
<1>1. KnownInv
  BY DEF SagaInv
<1>2. AllAnswered(answers)
  BY <1>1, DecidedMeansAnswered
<1>3. unsent = {} /\ creator = "done"
  BY <1>1, <1>2, AllAsked
<1> QED
  BY <1>1, <1>2, <1>3 DEF KnownInv, CreationOrder, DecidedOnAll

(* A saga that is about to abort may: it has no other decision, nobody was *)
(* told one, and the answer that stands for the rejection is stored.       *)
LEMMA MayAbort ==
    ASSUME TypeInv, SagaInv, FaultsApartNow, NEW c \in Coordinator,
           pc[c] = "reject" \/ (pc[c] = "decide" /\ AnyRejected(snap[c]))
    PROVE  \/ status \in {"ABORTING", "ABORTED"}
           \/ /\ status = "PENDING" /\ verdicts = {}
              /\ \E r \in Region : answers[r] # "APPROVED"
<1>1. /\ AllAnswered(answers) /\ status # "NONE"
      /\ status = "PENDING" => verdicts = {}
  BY DecisionPending DEF Decided
<1>2. CASE faults["redeliver"] = 0
  <2>1. Refused
    BY <1>2, DecidersKnow DEF SagaInv, Once, DecisionsAgree
  <2>2. \E r \in Region : answers[r] # "APPROVED"
    <3>1. PICK r \in Region : reserved[r] = 0
      BY <2>1 DEF Refused
    <3>2. Vote(r, answers[r])
      BY <1>1, <1>2 DEF SagaInv, Once, VotesAgree, AllAnswered
    <3> QED
      BY <3>1, <3>2 DEF Vote
  <2>3. status # "COMMITTED"
    BY <1>2, <2>1, NotBoth DEF SagaInv, Once, DecisionsAgree
  <2>4. status # "FAILED"
    BY <1>2 DEF FaultsApartNow, SagaInv, Single, OneWorks, StillOpen, Once, Tellers
  <2> QED
    BY <1>1, <2>2, <2>3, <2>4 DEF TypeInv, SagaTypeOK, Terminal
<1>3. CASE faults["key"] = 0 /\ faults["store"] = 0
  <2>1. status \in {"PENDING", "ABORTING"}
    BY <1>3 DEF SagaInv, Single, OneWorks, StillOpen
  <2>2. CASE pc[c] = "reject"
    BY <1>3, <2>2 DEF SagaInv, Single, OneWorks
  <2>3. CASE AnyRejected(snap[c]) /\ pc[c] = "decide"
    <3>1. AnyRejected(answers)
      BY <1>3, <2>3 DEF SagaInv, Firm, Deciding, Decided
    <3> QED
      BY <1>1, <2>1, <3>1 DEF AnyRejected
  <2> QED
    BY <2>2, <2>3
<1> QED
  BY <1>2, <1>3 DEF FaultsApartNow, AnswersApartNow

(* A saga that is about to commit may: every stored answer is an approval. *)
LEMMA MayCommit ==
    ASSUME TypeInv, SagaInv, FaultsApartNow, NEW c \in Coordinator, pc[c] = "commit"
    PROVE  status \in {"PENDING", "COMMITTED"} /\ \A r \in Region : answers[r] = "APPROVED"
<1>1. AllAnswered(answers) /\ status # "NONE" /\ unsent = {}
  BY DecisionPending DEF Decided
<1>2. CASE faults["redeliver"] = 0
  <2>1. Granted
    BY <1>2 DEF SagaInv, Once, DecisionsAgree
  <2>2. ASSUME NEW r \in Region PROVE answers[r] = "APPROVED"
    <3>1. Vote(r, answers[r])
      BY <1>1, <1>2 DEF SagaInv, Once, VotesAgree, AllAnswered
    <3> QED
      BY <2>1, <3>1 DEF Vote, Granted
  <2>3. status \notin {"ABORTING", "ABORTED"}
    BY <1>1, <1>2, <2>1, NotBoth DEF SagaInv, Once, DecisionsAgree
  <2>4. status # "FAILED"
    BY <1>2 DEF FaultsApartNow, SagaInv, Single, OneWorks, StillOpen, Once, Tellers
  <2> QED
    BY <1>1, <2>2, <2>3, <2>4 DEF TypeInv, SagaTypeOK, Terminal
<1>3. CASE faults["key"] = 0 /\ faults["store"] = 0
  <2>1. status = "PENDING"
    BY <1>3 DEF SagaInv, Single, OneWorks, StillOpen, Firm, Deciding
  <2>2. snap[c] = answers /\ ~AnyRejected(snap[c])
    BY <1>3 DEF SagaInv, Firm, Deciding, Decided, KnownInv, DecidedOnAll
  <2>3. \A r \in Region : answers[r] \in Answer \cup {"NONE"}
    BY DEF TypeInv, SagaTypeOK
  <2> QED
    BY <1>1, <2>1, <2>2, <2>3 DEF AllAnswered, AnyRejected, Answer
<1> QED
  BY <1>2, <1>3 DEF FaultsApartNow, AnswersApartNow

(* Every step of the saga is a step of the atomic booking, or none.        *)
LEMMA BookingStep ==
    TypeInv /\ TypeInv' /\ SagaInv /\ FaultsApartNow /\ [Next]_vars
      => [Booking!Next]_(Booking!vars)
<1> SUFFICES ASSUME TypeInv, TypeInv', SagaInv, FaultsApartNow, [Next]_vars
             PROVE  [Booking!Next]_(Booking!vars)
  OBVIOUS
<1>d. /\ Decision \in {"open", "commit", "abort", "failed"}
      /\ Decision = "commit" <=> status = "COMMITTED"
      /\ Decision = "abort" <=> status \in {"ABORTING", "ABORTED"}
      /\ Decision = "failed" <=> status = "FAILED"
      /\ Decision = "open" <=> status \in {"NONE", "PENDING"}
  BY DecisionCases
<1>e. /\ Decision' = "commit" <=> status' = "COMMITTED"
      /\ Decision' = "abort" <=> status' \in {"ABORTING", "ABORTED"}
      /\ Decision' = "failed" <=> status' = "FAILED"
      /\ Decision' = "open" <=> status' \in {"NONE", "PENDING"}
  BY DEF Decision, TypeInv, SagaTypeOK, Terminal
<1>u. ASSUME UNCHANGED <<answers, status, verdicts>> PROVE UNCHANGED Booking!vars
  BY <1>u DEF Booking!vars, Decision
<1>1. CASE InsertSaga
  <2>1. status = "NONE" /\ status' = "PENDING" /\ answers' = answers /\ verdicts' = verdicts
    BY <1>1 DEF InsertSaga, SagaInv, KnownInv, CreationOrder, effectVars
  <2>2. Decision' = Decision
    BY <2>1 DEF Decision
  <2> QED
    BY <2>1, <2>2 DEF Booking!vars
<1>2. ASSUME NEW r \in Region, SendSubBooking(r) PROVE  [Booking!Next]_(Booking!vars)
  BY <1>2, <1>u DEF SendSubBooking, sagaVars, effectVars
<1>3. CASE SendFails
  BY <1>3, <1>u DEF SendFails, sagaVars, effectVars
<1>4. ASSUME NEW r \in Region, SkipValidation(r) PROVE  [Booking!Next]_(Booking!vars)
  BY <1>4, <1>u DEF SkipValidation, sagaVars, effectVars
<1>5. ASSUME NEW r \in Region, NEW o \in Answer, Validate(r, o)
      PROVE  [Booking!Next]_(Booking!vars)
  BY <1>5, <1>u DEF Validate, sagaVars, effectVars
<1>6. ASSUME NEW r \in Region, Redeliver(r) PROVE  [Booking!Next]_(Booking!vars)
  BY <1>6, <1>u DEF Redeliver, sagaVars, effectVars
<1>7. CASE ExpireKey
  BY <1>7, <1>u DEF ExpireKey, sagaVars, effectVars
<1>8. CASE LoseKey
  BY <1>8, <1>u DEF LoseKey, sagaVars, effectVars
<1>9. ASSUME NEW c \in Coordinator, TakeOver(c) PROVE  [Booking!Next]_(Booking!vars)
  BY <1>9, <1>u DEF TakeOver, sagaVars, effectVars
<1>10. ASSUME NEW c \in Coordinator, ElectionRaises(c)
      PROVE  [Booking!Next]_(Booking!vars)
  BY <1>10, <1>u DEF ElectionRaises, sagaVars, effectVars
<1>11. ASSUME NEW c \in Coordinator, RecoverAborting(c)
      PROVE  [Booking!Next]_(Booking!vars)
  BY <1>11, <1>u DEF RecoverAborting, sagaVars, effectVars
<1>12. ASSUME NEW c \in Coordinator, NEW r \in Region, RecoverAnswered(c, r)
      PROVE  [Booking!Next]_(Booking!vars)
  BY <1>12, <1>u DEF RecoverAnswered, sagaVars, effectVars
<1>13. ASSUME NEW c \in Coordinator, RecoverNothing(c)
      PROVE  [Booking!Next]_(Booking!vars)
  BY <1>13, <1>u DEF RecoverNothing, sagaVars, effectVars
<1>14. ASSUME NEW c \in Coordinator, NEW m \in Reply, Deliver(c, m)
      PROVE  [Booking!Next]_(Booking!vars)
  BY <1>14, <1>u DEF Deliver, sagaVars, effectVars
<1>15. ASSUME NEW c \in Coordinator, ReadStatus(c)
      PROVE  [Booking!Next]_(Booking!vars)
  BY <1>15, <1>u DEF ReadStatus, sagaVars, effectVars
<1>16. ASSUME NEW c \in Coordinator, UpdateOutcome(c)
      PROVE  [Booking!Next]_(Booking!vars)
  <2>1. hand[c] \in Reply
    BY <1>16 DEF UpdateOutcome, TypeInv, Handling
  <2>2. hand[c].region \in Region /\ hand[c].outcome \in {"APPROVED", "REJECTED"}
    BY <2>1 DEF Reply, Answer
  <2>3. Booking!Vote(hand[c].region)
    BY <1>16, <2>2 DEF UpdateOutcome, Booking!Vote, Decision, effectVars
  <2> QED
    BY <2>2, <2>3 DEF Booking!Next
<1>17. ASSUME NEW c \in Coordinator, RereadOutcomes(c)
      PROVE  [Booking!Next]_(Booking!vars)
  BY <1>17, <1>u DEF RereadOutcomes, sagaVars, effectVars
<1>18. ASSUME NEW c \in Coordinator, StartAbort(c)
      PROVE  [Booking!Next]_(Booking!vars)
  <2>1. answers' = answers /\ verdicts' = verdicts /\ status' = "ABORTING"
    BY <1>18 DEF StartAbort, SetStatus, effectVars
  <2>2. \/ status \in {"ABORTING", "ABORTED"}
        \/ /\ status = "PENDING" /\ verdicts = {}
           /\ \E r \in Region : answers[r] # "APPROVED"
    BY <1>18, MayAbort DEF StartAbort
  <2>3. CASE status \in {"ABORTING", "ABORTED"}
    BY <1>d, <1>e, <2>1, <2>3 DEF Booking!vars
  <2>4. CASE status = "PENDING"
    <3>1. Booking!Abort
      BY <1>d, <1>e, <2>1, <2>2, <2>4 DEF Booking!Abort
    <3> QED
      BY <3>1 DEF Booking!Next
  <2> QED
    BY <2>2, <2>3, <2>4
<1>19. ASSUME NEW c \in Coordinator, NEW r \in Region, SendRelease(c, r)
      PROVE  [Booking!Next]_(Booking!vars)
  BY <1>19, <1>u DEF SendRelease, sagaVars
<1>20. ASSUME NEW c \in Coordinator, ReleasesSent(c)
      PROVE  [Booking!Next]_(Booking!vars)
  BY <1>20, <1>u DEF ReleasesSent, sagaVars, effectVars
<1>21. ASSUME NEW c \in Coordinator, NEW r \in Region, WriteRejected(c, r)
      PROVE  [Booking!Next]_(Booking!vars)
  BY <1>21, <1>u DEF WriteRejected, sagaVars
<1>22. ASSUME NEW c \in Coordinator, SetAborted(c)
      PROVE  [Booking!Next]_(Booking!vars)
  <2>1. answers' = answers /\ verdicts' = verdicts /\ status' = "ABORTED"
    BY <1>22 DEF SetAborted, SetStatus, effectVars
  <2>2. \/ status \in {"ABORTING", "ABORTED"}
        \/ /\ status = "PENDING" /\ verdicts = {}
           /\ \E r \in Region : answers[r] # "APPROVED"
    BY <1>22, MayAbort DEF SetAborted
  <2>3. CASE status \in {"ABORTING", "ABORTED"}
    BY <1>d, <1>e, <2>1, <2>3 DEF Booking!vars
  <2>4. CASE status = "PENDING"
    <3>1. Booking!Abort
      BY <1>d, <1>e, <2>1, <2>2, <2>4 DEF Booking!Abort
    <3> QED
      BY <3>1 DEF Booking!Next
  <2> QED
    BY <2>2, <2>3, <2>4
<1>23. ASSUME NEW c \in Coordinator, StartCommit(c)
      PROVE  [Booking!Next]_(Booking!vars)
  BY <1>23, <1>u DEF StartCommit, sagaVars, effectVars
<1>24. ASSUME NEW c \in Coordinator, NEW r \in Region, WriteApproved(c, r)
      PROVE  [Booking!Next]_(Booking!vars)
  BY <1>24, <1>u DEF WriteApproved, sagaVars
<1>25. ASSUME NEW c \in Coordinator, SetCommitted(c)
      PROVE  [Booking!Next]_(Booking!vars)
  <2>1. answers' = answers /\ verdicts' = verdicts /\ status' = "COMMITTED"
    BY <1>25 DEF SetCommitted, SetStatus, effectVars
  <2>2. status \in {"PENDING", "COMMITTED"} /\ \A r \in Region : answers[r] = "APPROVED"
    BY <1>25, MayCommit DEF SetCommitted
  <2>3. CASE status = "COMMITTED"
    BY <1>d, <1>e, <2>1, <2>3 DEF Booking!vars
  <2>4. CASE status = "PENDING"
    <3>1. Booking!Commit
      BY <1>d, <1>e, <2>1, <2>2, <2>4 DEF Booking!Commit
    <3> QED
      BY <3>1 DEF Booking!Next
  <2> QED
    BY <2>2, <2>3, <2>4
<1>26. ASSUME NEW c \in Coordinator, Tell(c) PROVE  [Booking!Next]_(Booking!vars)
  <2>1. UNCHANGED <<answers, status>>
    BY <1>26 DEF Tell, sagaVars
  <2>2. Decision' = Decision
    BY <2>1 DEF Decision
  <2>3. CASE pc[c] = "tell_approved" /\ verdicts' = verdicts \cup {"APPROVED"}
    <3>1. Booking!Tell("APPROVED")
      BY <1>d, <2>1, <2>2, <2>3, TellsDecision DEF Booking!Tell
    <3> QED
      BY <3>1 DEF Booking!Next
  <2>4. CASE pc[c] = "tell_rejected" /\ verdicts' = verdicts \cup {"REJECTED"}
    <3>1. Booking!Tell("REJECTED")
      BY <1>d, <2>1, <2>2, <2>4, TellsDecision DEF Booking!Tell
    <3> QED
      BY <3>1 DEF Booking!Next
  <2> QED
    BY <1>26, <2>3, <2>4 DEF Tell
<1>27. ASSUME NEW c \in Coordinator, CommitOffsets(c)
      PROVE  [Booking!Next]_(Booking!vars)
  BY <1>27, <1>u DEF CommitOffsets, sagaVars, effectVars
<1>28. ASSUME NEW c \in Coordinator, NEW r \in Region, WriteRepeated(c, r)
      PROVE  [Booking!Next]_(Booking!vars)
  BY <1>28, <1>u DEF WriteRepeated, sagaVars
<1>29. ASSUME NEW c \in Coordinator, StepFails(c)
      PROVE  [Booking!Next]_(Booking!vars)
  <2>1. answers' = answers /\ verdicts' = verdicts /\ status' \in {"FAILED", status}
    BY <1>29 DEF StepFails, effectVars
  <2>2. CASE status' = "FAILED"
    <3>1. Booking!Fail
      BY <1>e, <2>1, <2>2 DEF Booking!Fail
    <3> QED
      BY <3>1 DEF Booking!Next
  <2> QED
    BY <1>u, <2>1, <2>2
<1>30. ASSUME NEW c \in Coordinator, ConsumerDies(c)
      PROVE  [Booking!Next]_(Booking!vars)
  BY <1>30, <1>u DEF ConsumerDies, sagaVars, effectVars
<1>31. ASSUME NEW c \in Coordinator, Crash(c) PROVE  [Booking!Next]_(Booking!vars)
  BY <1>31, <1>u DEF Crash, sagaVars, effectVars
<1>32. CASE UNCHANGED vars
  BY <1>32, <1>u DEF vars, sagaVars, effectVars
<1> QED
  BY <1>1, <1>2, <1>3, <1>4, <1>5, <1>6, <1>7, <1>8, <1>9, <1>10, <1>11, <1>12,
     <1>13, <1>14, <1>15, <1>16, <1>17, <1>18, <1>19, <1>20, <1>21, <1>22, <1>23, <1>24,
     <1>25, <1>26, <1>27, <1>28, <1>29, <1>30, <1>31, <1>32
  DEF Next, Create, Answering, Coordinate

(* One decision is taken for all regions of a booking: it commits only     *)
(* when all of them approve, never after an abort, only a failure replaces *)
(* the decision, and the driver is told nothing else, unless faults come   *)
(* together that FaultsApart keeps apart.                                  *)
THEOREM SagasAreAtomic ==
    ASSUME FaultsApart PROVE Spec => BookingSpec
<1>1. Init => Booking!Init
  BY DEF Init, Booking!Init, NoAnswers, Decision
<1>2. Init => FaultsApartNow
  BY SagaStart
<1> QED
  BY <1>1, <1>2, BookingStep, SagaInvHolds, TypesHold, AllApartStep, PTL
     DEF Spec, BookingSpec, Booking!Spec
=============================================================================
