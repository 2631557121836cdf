---------------------------- MODULE Validation ----------------------------
(***************************************************************************)
(* The validation service of one region: several instances of a Kafka      *)
(* consumer group that take booking requests, lock the request's road      *)
(* segments in Redis, check capacity and the vehicle, count the booking    *)
(* in, release the locks, record the verdict in MongoDB and publish it;    *)
(* and the consumer of capacity-releases that counts bookings out.         *)
(*                                                                         *)
(* Every Redis command and every data-service call is a step of its own,   *)
(* so instances interleave and fail between any two of them.               *)
(***************************************************************************)
EXTENDS Naturals, FiniteSets, Sequences

CONSTANTS
    Instance,       \* booking-consumer threads of the region's instances
    Message,        \* messages of booking-requests meant for this region
    NoMessage,      \* an instance that is polling holds no message
    Booking,        \* booking ids
    BookingOf,      \* the booking_id of a message (an outbox duplicate repeats it)
    SubBooking,     \* bookings whose messages carry a saga_id
    SegmentsOf,     \* the segments of a booking inside this region
    VehicleOf,      \* the vehicle of a booking
    Segment,        \* road segments, numbered in the order of their lock keys
    Capacity,       \* capacity of each segment, 0 when unseeded
    FaultKinds,     \* the faults this environment can produce
    MaxFaults,      \* how many of them, in all
    MaxReleases,    \* length of the capacity-releases log
    LockMayExpire   \* whether a lock can outlive its TTL while its holder works

AllFaults == {"crash", "redis", "db_read", "db_write", "send", "release_consumer"}

ASSUME SegmentAssumption ==
    /\ Segment \subseteq Nat
    /\ IsFiniteSet(Segment)
    /\ Capacity \in [Segment -> Nat]
ASSUME MessageAssumption ==
    /\ NoMessage \notin Message
    /\ \A m \in Message : BookingOf[m] \in Booking
    /\ SubBooking \subseteq Booking
    /\ \A b \in Booking : SegmentsOf[b] \in SUBSET Segment
ASSUME EnvironmentAssumption ==
    /\ FaultKinds \subseteq AllFaults
    /\ MaxFaults \in Nat
    /\ MaxReleases \in Nat
    /\ LockMayExpire \in BOOLEAN

VARIABLES
    pending,        \* messages not yet delivered, or to be delivered again
    processed,      \* per instance, messages handled since its last offset commit
    pc,             \* per instance, where _validate_and_publish stands
    msg,            \* per instance, the message in hand
    todo,           \* per instance, segments the current loop has still to visit
    held,           \* per instance, the list "acquired" of validate_and_reserve
    verdict,        \* per instance, outcome of validate_and_reserve, "NONE" before it,
                    \* "UNWRITTEN" when its insert failed
    locks,          \* Redis: lock:segment:* keys that exist (they name no owner)
    current,        \* Redis: current:segment:* counters
    records,        \* MongoDB: per booking, the statuses of its records, oldest first
    sent,           \* outcomes ever handed to a Kafka producer
    buffer,         \* per instance, those its producer has still to transmit
    outcomes,       \* messages on the topic booking-outcomes
    releaseLog,     \* the single partition of capacity-releases
    releaseNext,    \* position of the release consumer
    releaseCommit,  \* its committed offset
    releaseTodo,    \* segments of the release in hand that are still to be counted out
    faults          \* faults so far

redisVars   == <<locks, current>>
workerVars  == <<pc, msg, todo, held, verdict>>
requestVars == <<pending, processed>>
releaseVars == <<releaseLog, releaseNext, releaseCommit, releaseTodo>>
outcomeVars == <<sent, buffer, outcomes>>
vars == <<requestVars, workerVars, redisVars, records, outcomeVars, releaseVars, faults>>

Status  == {"approved", "rejected", "pending", "cancelled", "flagged"}
Verdict == {"NONE", "APPROVED", "REJECTED", "ERROR", "UNWRITTEN"}
Place   == {"poll", "dedup", "lock", "check", "vehicle", "incr", "unlock",
            "insert", "publish", "flush"}
Outcome == [booking : Booking, outcome : {"APPROVED", "REJECTED"}]

----------------------------------------------------------------------------
(* Helpers *)

BookingAt(i)  == BookingOf[msg[i]]
SegmentsAt(i) == SegmentsOf[BookingAt(i)]

IsFirst(s, S) == s \in S /\ \A t \in S : s <= t
IsLast(s, S)  == s \in S /\ \A t \in S : t <= s

(* Mutant: only a rejection counts as processed.                           *)
AlreadyRejected(b) ==
    /\ records[b] # <<>>
    /\ Head(records[b]) \in {"rejected", "pending"}

(* get_booking_by_id is a find_one: it sees the oldest record only.        *)
AlreadyProcessed(b) ==
    /\ records[b] # <<>>
    /\ Head(records[b]) \in {"approved", "rejected", "pending"}

(* get_vehicle_booking: some record of the vehicle, of any age, is active. *)
VehicleBusy(v) ==
    \E b \in Booking :
        /\ VehicleOf[b] = v
        /\ \E n \in DOMAIN records[b] : records[b][n] \in {"approved", "pending"}

Fault(kind) ==
    /\ kind \in FaultKinds
    /\ faults < MaxFaults
    /\ faults' = faults + 1

Goto(i, place) == pc' = [pc EXCEPT ![i] = place]

(* The instance goes back to the consumer loop, its message handled.       *)
Finish(i) ==
    /\ Goto(i, "poll")
    /\ processed' = [processed EXCEPT ![i] = @ \cup {msg[i]}]
    /\ msg' = [msg EXCEPT ![i] = NoMessage]
    /\ verdict' = [verdict EXCEPT ![i] = "NONE"]
    /\ UNCHANGED <<pending, todo, held>>

----------------------------------------------------------------------------
Init ==
    /\ pending = Message
    /\ processed = [i \in Instance |-> {}]
    /\ pc = [i \in Instance |-> "poll"]
    /\ msg = [i \in Instance |-> NoMessage]
    /\ todo = [i \in Instance |-> {}]
    /\ held = [i \in Instance |-> {}]
    /\ verdict = [i \in Instance |-> "NONE"]
    /\ locks = {}
    /\ current = [s \in Segment |-> 0]
    /\ records = [b \in Booking |-> <<>>]
    /\ sent = {}
    /\ buffer = [i \in Instance |-> {}]
    /\ outcomes = {}
    /\ releaseLog = <<>>
    /\ releaseNext = 1
    /\ releaseCommit = 1
    /\ releaseTodo = {}
    /\ faults = 0

----------------------------------------------------------------------------
(* The booking consumer: _booking_consumer_loop and _validate_and_publish  *)

Deliver(i, m) ==
    /\ pc[i] = "poll"
    /\ m \in pending
    /\ pending' = pending \ {m}
    /\ msg' = [msg EXCEPT ![i] = m]
    /\ Goto(i, "dedup")
    /\ UNCHANGED <<processed, todo, held, verdict, redisVars, records, outcomeVars,
                   releaseVars, faults>>

(* Auto-commit happens in a later poll, when nothing is in hand.           *)
CommitOffsets(i) ==
    /\ pc[i] = "poll"
    /\ processed[i] # {}
    /\ processed' = [processed EXCEPT ![i] = {}]
    /\ UNCHANGED <<pending, workerVars, redisVars, records, outcomeVars, releaseVars,
                   faults>>

(* A booking with a record is skipped, and nothing is published for it.    *)
DedupSkip(i) ==
    /\ pc[i] = "dedup"
    /\ AlreadyProcessed(BookingAt(i))
    /\ Finish(i)
    /\ UNCHANGED <<redisVars, records, outcomeVars, releaseVars, faults>>

(* A new booking: validate it, or reject it outright when it has no        *)
(* segment (that rejection is not recorded).                               *)
StartValidation(i) ==
    /\ todo' = [todo EXCEPT ![i] = SegmentsAt(i)]
    /\ IF SegmentsAt(i) = {}
         THEN Goto(i, "publish") /\ verdict' = [verdict EXCEPT ![i] = "ERROR"]
         ELSE Goto(i, "lock") /\ UNCHANGED verdict
    /\ UNCHANGED <<requestVars, msg, held, redisVars, records, outcomeVars, releaseVars>>

DedupNew(i) ==
    /\ pc[i] = "dedup"
    /\ ~AlreadyProcessed(BookingAt(i))
    /\ StartValidation(i)
    /\ UNCHANGED faults

(* The look-up fails: "treating as new".                                   *)
DedupUnavailable(i) ==
    /\ pc[i] = "dedup"
    /\ Fault("db_read")
    /\ StartValidation(i)

----------------------------------------------------------------------------
(* validate_and_reserve: the lock loop, the capacity loop, the vehicle     *)
(* look-up, the counting loop, and the finally that drops the locks.       *)

(* Mutant: SET without NX.                                                 *)
LockOverwritten(s) == s \in Segment

LockFree(s) == s \notin locks

LockSegment(i, s) ==
    /\ pc[i] = "lock"
    /\ IsFirst(s, todo[i])
    /\ LockFree(s)
    /\ locks' = locks \cup {s}
    /\ held' = [held EXCEPT ![i] = @ \cup {s}]
    /\ IF todo[i] = {s}
         THEN Goto(i, "check") /\ todo' = [todo EXCEPT ![i] = SegmentsAt(i)]
         ELSE todo' = [todo EXCEPT ![i] = @ \ {s}] /\ UNCHANGED pc
    /\ UNCHANGED <<requestVars, msg, verdict, current, records, outcomeVars, releaseVars,
                   faults>>

(* The return from inside the try: a rejection, then the finally.          *)
Refuse(i, v) ==
    /\ Goto(i, "unlock")
    /\ verdict' = [verdict EXCEPT ![i] = v]
    /\ todo' = [todo EXCEPT ![i] = {}]
    /\ UNCHANGED <<requestVars, msg, held, records, outcomeVars, releaseVars>>

LockContention(i, s) ==
    /\ pc[i] = "lock"
    /\ IsFirst(s, todo[i])
    /\ ~LockFree(s)
    /\ Refuse(i, "REJECTED")
    /\ UNCHANGED <<redisVars, faults>>

(* Mutant: off by one.                                                     *)
HasRoomForOneMore(s) == current[s] <= Capacity[s]

HasRoom(s) == current[s] < Capacity[s]

SegmentHasRoom(i, s) ==
    /\ pc[i] = "check"
    /\ IsFirst(s, todo[i])
    /\ HasRoom(s)
    /\ todo' = [todo EXCEPT ![i] = @ \ {s}]
    /\ IF todo[i] = {s} THEN Goto(i, "vehicle") ELSE UNCHANGED pc
    /\ UNCHANGED <<requestVars, msg, held, verdict, redisVars, records, outcomeVars,
                   releaseVars, faults>>

SegmentFull(i, s) ==
    /\ pc[i] = "check"
    /\ IsFirst(s, todo[i])
    /\ ~HasRoom(s)
    /\ Refuse(i, "REJECTED")
    /\ UNCHANGED <<redisVars, faults>>

(* Mutant: the finally runs before the INCRs.                              *)
StartCountingUnlocked(i) ==
    /\ Goto(i, "incr")
    /\ todo' = [todo EXCEPT ![i] = SegmentsAt(i)]
    /\ locks' = locks \ held[i]
    /\ held' = [held EXCEPT ![i] = {}]
    /\ UNCHANGED <<requestVars, msg, verdict, current, records, outcomeVars, releaseVars>>

(* Mutant: the last segment of a journey is not counted.                   *)
StartCountingAllButLast(i) ==
    /\ Goto(i, "incr")
    /\ todo' = [todo EXCEPT ![i] =
                  {s \in SegmentsAt(i) : ~IsLast(s, SegmentsAt(i)) \/ SegmentsAt(i) = {s}}]
    /\ UNCHANGED <<requestVars, msg, held, verdict, redisVars, records, outcomeVars,
                   releaseVars>>

StartCounting(i) ==
    /\ Goto(i, "incr")
    /\ todo' = [todo EXCEPT ![i] = SegmentsAt(i)]
    /\ UNCHANGED <<requestVars, msg, held, verdict, redisVars, records, outcomeVars,
                   releaseVars>>

VehicleFree(i) ==
    /\ pc[i] = "vehicle"
    /\ ~VehicleBusy(VehicleOf[BookingAt(i)])
    /\ StartCounting(i)
    /\ UNCHANGED faults

(* data-service answers "no active booking" when MongoDB is unavailable.   *)
VehicleUnknown(i) ==
    /\ pc[i] = "vehicle"
    /\ Fault("db_read")
    /\ StartCounting(i)

VehicleTaken(i) ==
    /\ pc[i] = "vehicle"
    /\ VehicleBusy(VehicleOf[BookingAt(i)])
    /\ Refuse(i, "REJECTED")
    /\ UNCHANGED <<redisVars, faults>>

(* The look-up itself fails or times out: "Internal validation error".     *)
VehicleError(i) ==
    /\ pc[i] = "vehicle"
    /\ Fault("db_read")
    /\ Refuse(i, "ERROR")
    /\ UNCHANGED redisVars

CountIn(s) == current' = [current EXCEPT ![s] = @ + 1]

IncrSegment(i, s) ==
    /\ pc[i] = "incr"
    /\ IsFirst(s, todo[i])
    /\ CountIn(s)
    /\ todo' = [todo EXCEPT ![i] = @ \ {s}]
    /\ IF todo[i] = {s}
         THEN Goto(i, "unlock") /\ verdict' = [verdict EXCEPT ![i] = "APPROVED"]
         ELSE UNCHANGED <<pc, verdict>>
    /\ UNCHANGED <<requestVars, msg, held, locks, records, outcomeVars, releaseVars,
                   faults>>

(* Redis does not answer: the command may or may not have been executed,   *)
(* and the exception leads to a rejection that is not recorded.            *)
RedisError(i, s) ==
    /\ Fault("redis")
    /\ IsFirst(s, todo[i])
    /\ \/ /\ pc[i] = "lock"
          /\ locks' \in {locks, locks \cup {s}}
          /\ UNCHANGED current
       \/ /\ pc[i] = "check"
          /\ UNCHANGED redisVars
       \/ /\ pc[i] = "incr"
          /\ CountIn(s) \/ UNCHANGED current
          /\ UNCHANGED locks
    /\ Refuse(i, "ERROR")

Unlock(i, s) ==
    /\ pc[i] = "unlock"
    /\ IsLast(s, held[i])
    /\ held' = [held EXCEPT ![i] = @ \ {s}]
    /\ locks' = locks \ {s}
    /\ UNCHANGED <<requestVars, pc, msg, todo, verdict, current, records, outcomeVars,
                   releaseVars, faults>>

(* A delete that fails is ignored; the key stays until its TTL.            *)
UnlockError(i, s) ==
    /\ Fault("redis")
    /\ pc[i] = "unlock"
    /\ IsLast(s, held[i])
    /\ held' = [held EXCEPT ![i] = @ \ {s}]
    /\ UNCHANGED <<requestVars, pc, msg, todo, verdict, redisVars, records, outcomeVars,
                   releaseVars>>

(* Mutant: every verdict is published without a record.                    *)
UnlockedUnrecorded(i) ==
    /\ pc[i] = "unlock"
    /\ held[i] = {}
    /\ Goto(i, "publish")
    /\ UNCHANGED <<requestVars, msg, todo, held, verdict, redisVars, records, outcomeVars,
                   releaseVars, faults>>

(* Only a direct booking that was decided without an exception is recorded *)
(* here; a sub-booking is recorded by the saga coordinator when it commits.*)
Unlocked(i) ==
    /\ pc[i] = "unlock"
    /\ held[i] = {}
    /\ Goto(i, IF verdict[i] = "ERROR" \/ BookingAt(i) \in SubBooking
                 THEN "publish" ELSE "insert")
    /\ UNCHANGED <<requestVars, msg, todo, held, verdict, redisVars, records, outcomeVars,
                   releaseVars, faults>>

----------------------------------------------------------------------------
(* Recording and publishing the verdict *)

StatusFor(v) == IF v = "APPROVED" THEN "approved" ELSE "rejected"

(* insert_one: nothing makes booking_id unique.                            *)
AddRecord(b, v) == records' = [records EXCEPT ![b] = Append(@, StatusFor(v))]

InsertRecord(i) ==
    /\ pc[i] = "insert"
    /\ AddRecord(BookingAt(i), verdict[i])
    /\ Goto(i, "publish")
    /\ UNCHANGED <<requestVars, msg, todo, held, verdict, redisVars, outcomeVars,
                   releaseVars, faults>>

(* The write fails, or succeeds with its answer lost: the verdict becomes  *)
(* a rejection, and the counters stay as they are.                         *)
InsertError(i) ==
    /\ pc[i] = "insert"
    /\ Fault("db_write")
    /\ AddRecord(BookingAt(i), verdict[i]) \/ UNCHANGED records
    /\ verdict' = [verdict EXCEPT ![i] = "UNWRITTEN"]
    /\ Goto(i, "publish")
    /\ UNCHANGED <<requestVars, msg, todo, held, redisVars, outcomeVars, releaseVars>>

(* data-service retries an insert whose answer it lost: one record more.   *)
InsertRepeated(i) ==
    /\ pc[i] = "insert"
    /\ Fault("db_write")
    /\ AddRecord(BookingAt(i), verdict[i])
    /\ UNCHANGED <<requestVars, workerVars, redisVars, outcomeVars, releaseVars>>

(* What send is called with: anything but an approval reads REJECTED.      *)
OutcomeAt(i) ==
    [booking |-> BookingAt(i),
     outcome |-> IF verdict[i] = "APPROVED" THEN "APPROVED" ELSE "REJECTED"]

(* producer.send only appends to the buffer of the producer.               *)
Send(i) ==
    /\ sent' = sent \cup {OutcomeAt(i)}
    /\ buffer' = [buffer EXCEPT ![i] = @ \cup {OutcomeAt(i)}]
    /\ UNCHANGED outcomes

(* The handler returns at once: its offset may be committed before the     *)
(* outcome has left the process.  After a failed insert it flushes first.  *)
Publish(i) ==
    /\ pc[i] = "publish"
    /\ Send(i)
    /\ IF verdict[i] = "UNWRITTEN"
         THEN Goto(i, "flush") /\ UNCHANGED <<requestVars, msg, todo, held, verdict>>
         ELSE Finish(i)
    /\ UNCHANGED <<redisVars, records, releaseVars, faults>>

(* flush returns when nothing is left to transmit, failed or not.          *)
Flushed(i) ==
    /\ pc[i] = "flush"
    /\ buffer[i] = {}
    /\ Finish(i)
    /\ UNCHANGED <<redisVars, records, outcomeVars, releaseVars, faults>>

(* The producer's own thread transmits an outcome.                         *)
Transmit(i, o) ==
    /\ o \in buffer[i]
    /\ buffer' = [buffer EXCEPT ![i] = @ \ {o}]
    /\ outcomes' = outcomes \cup {o}
    /\ UNCHANGED <<requestVars, workerVars, redisVars, records, sent, releaseVars,
                   faults>>

(* The broker does not take it, and nobody looks at the result of send.    *)
TransmitError(i, o) ==
    /\ Fault("send")
    /\ o \in buffer[i]
    /\ buffer' = [buffer EXCEPT ![i] = @ \ {o}]
    /\ UNCHANGED <<requestVars, workerVars, redisVars, records, sent, outcomes,
                   releaseVars>>

----------------------------------------------------------------------------
(* Crashes, lock expiry *)

(* Mutant: the message in hand is acknowledged before it is handled.       *)
CrashLosesMessage(i) ==
    /\ Fault("crash")
    /\ pending' = pending \cup processed[i]
    /\ processed' = [processed EXCEPT ![i] = {}]
    /\ Goto(i, "poll")
    /\ msg' = [msg EXCEPT ![i] = NoMessage]
    /\ todo' = [todo EXCEPT ![i] = {}]
    /\ held' = [held EXCEPT ![i] = {}]
    /\ verdict' = [verdict EXCEPT ![i] = "NONE"]
    /\ buffer' = [buffer EXCEPT ![i] = {}]
    /\ UNCHANGED <<redisVars, records, sent, outcomes, releaseVars>>

(* The instance dies, or its consumer thread restarts: everything since    *)
(* its last offset commit will be delivered again; its locks stay, and     *)
(* what its producer had not transmitted is gone.                          *)
Crash(i) ==
    /\ Fault("crash")
    /\ pending' = (pending \cup processed[i] \cup {msg[i]}) \ {NoMessage}
    /\ processed' = [processed EXCEPT ![i] = {}]
    /\ Goto(i, "poll")
    /\ msg' = [msg EXCEPT ![i] = NoMessage]
    /\ todo' = [todo EXCEPT ![i] = {}]
    /\ held' = [held EXCEPT ![i] = {}]
    /\ verdict' = [verdict EXCEPT ![i] = "NONE"]
    /\ buffer' = [buffer EXCEPT ![i] = {}]
    /\ UNCHANGED <<redisVars, records, sent, outcomes, releaseVars>>

Held == UNION {held[i] : i \in Instance}

(* Mutant: SET without EX.                                                 *)
NoExpiry(s) == s \in {} /\ UNCHANGED vars

(* Redis drops a lock when its LOCK_TTL of 10 s is over.  Unless           *)
(* LockMayExpire, no instance is still at work under it by then.           *)
ExpireLock(s) ==
    /\ s \in locks
    /\ LockMayExpire \/ s \notin Held
    /\ locks' = locks \ {s}
    /\ UNCHANGED <<requestVars, workerVars, current, records, outcomeVars, releaseVars,
                   faults>>

----------------------------------------------------------------------------
(* The release consumer: _release_consumer_loop and _release_capacity      *)

TakeRelease ==
    /\ releaseTodo = {}
    /\ releaseNext <= Len(releaseLog)
    /\ releaseTodo' = SegmentsOf[releaseLog[releaseNext]]
    /\ releaseNext' = releaseNext + 1
    /\ UNCHANGED <<requestVars, workerVars, redisVars, records, outcomeVars, releaseLog,
                   releaseCommit, faults>>

(* Mutant: a plain DECR.                                                   *)
CountOutUnguarded(s) == current' = [current EXCEPT ![s] = @ - 1]

(* LUA_SAFE_DECR: one atomic script per segment, never below zero.         *)
CountOut(s) ==
    current' = [current EXCEPT ![s] = IF @ > 0 THEN @ - 1 ELSE @]

ReleaseSegment(s) ==
    /\ s \in releaseTodo
    /\ CountOut(s)
    /\ releaseTodo' = releaseTodo \ {s}
    /\ UNCHANGED <<requestVars, workerVars, locks, records, outcomeVars, releaseLog,
                   releaseNext, releaseCommit, faults>>

CommitReleases ==
    /\ releaseTodo = {}
    /\ releaseCommit # releaseNext
    /\ releaseCommit' = releaseNext
    /\ UNCHANGED <<requestVars, workerVars, redisVars, records, outcomeVars, releaseLog,
                   releaseNext, releaseTodo, faults>>

(* Mutant: auto_offset_reset="latest" instead of the committed offset.     *)
RestartAtLatest ==
    /\ Fault("release_consumer")
    /\ releaseNext' = Len(releaseLog) + 1
    /\ releaseTodo' = {}
    /\ UNCHANGED <<requestVars, workerVars, redisVars, records, outcomeVars, releaseLog,
                   releaseCommit>>

(* The thread restarts, or the partition moves to the other instance.      *)
RestartReleases ==
    /\ Fault("release_consumer")
    /\ releaseNext' = releaseCommit
    /\ releaseTodo' = {}
    /\ UNCHANGED <<requestVars, workerVars, redisVars, records, outcomeVars, releaseLog,
                   releaseCommit>>

----------------------------------------------------------------------------
(* What journey-management and the authority service do to this region's   *)
(* stores: they send releases, and overwrite the status of a booking's     *)
(* oldest record.  This module lets them do so at any time.                *)

SendRelease(b) ==
    /\ Len(releaseLog) < MaxReleases
    /\ releaseLog' = Append(releaseLog, b)
    /\ UNCHANGED <<requestVars, workerVars, redisVars, records, outcomeVars, releaseNext,
                   releaseCommit, releaseTodo, faults>>

SetStatus(b, status) ==
    /\ records[b] # <<>>
    /\ records' = [records EXCEPT ![b][1] = status]
    /\ UNCHANGED <<requestVars, workerVars, redisVars, outcomeVars, releaseVars, faults>>

Environment ==
    \E b \in Booking : \/ SendRelease(b)
                       \/ \E st \in {"cancelled", "flagged"} : SetStatus(b, st)

----------------------------------------------------------------------------
WorkOn(i) ==
    \/ DedupSkip(i)
    \/ DedupNew(i)
    \/ VehicleFree(i)
    \/ VehicleTaken(i)
    \/ Unlocked(i)
    \/ InsertRecord(i)
    \/ Publish(i)
    \/ Flushed(i)
    \/ \E s \in Segment :
         \/ LockSegment(i, s)
         \/ LockContention(i, s)
         \/ SegmentHasRoom(i, s)
         \/ SegmentFull(i, s)
         \/ IncrSegment(i, s)
         \/ Unlock(i, s)

FailAt(i) ==
    \/ Crash(i)
    \/ DedupUnavailable(i)
    \/ VehicleUnknown(i)
    \/ VehicleError(i)
    \/ InsertError(i)
    \/ InsertRepeated(i)
    \/ \E s \in Segment : RedisError(i, s) \/ UnlockError(i, s)
    \/ \E o \in Outcome : TransmitError(i, o)

Consume(i) == \E m \in Message : Deliver(i, m)

Produce(i) == \E o \in Outcome : Transmit(i, o)

ReleaseStep ==
    \/ TakeRelease
    \/ CommitReleases
    \/ \E s \in Segment : ReleaseSegment(s)

(* The service by itself, and the service among its neighbours.            *)
Next ==
    \/ \E i \in Instance : \/ Consume(i) \/ CommitOffsets(i) \/ WorkOn(i)
                            \/ Produce(i) \/ FailAt(i)
    \/ \E s \in Segment : ExpireLock(s)
    \/ ReleaseStep
    \/ RestartReleases

OpenNext == Next \/ Environment

Spec == Init /\ [][Next]_vars

OpenSpec == Init /\ [][OpenNext]_vars

(* Both consumer threads loop for ever and restart themselves after an     *)
(* exception, polls commit what was handled, a producer's thread transmits *)
(* what it was given, and Redis expires keys by itself; no fault has to    *)
(* happen.                                                                 *)
Fairness ==
    /\ \A i \in Instance : /\ WF_vars(Consume(i) \/ WorkOn(i))
                           /\ WF_vars(CommitOffsets(i))
                           /\ WF_vars(Produce(i))
    /\ \A s \in Segment : WF_vars(ExpireLock(s))
    /\ WF_vars(ReleaseStep)

FairSpec == Spec /\ Fairness

----------------------------------------------------------------------------
(* Properties *)

(* Type correctness of every step of the consumers, under every fault: a   *)
(* counter stays a natural number, an offset stays inside its log, and an  *)
(* instance that is not polling has a message in hand.                     *)
TypeOK ==
    /\ pending \in SUBSET Message
    /\ processed \in [Instance -> SUBSET Message]
    /\ pc \in [Instance -> Place]
    /\ msg \in [Instance -> Message \cup {NoMessage}]
    /\ todo \in [Instance -> SUBSET Segment]
    /\ held \in [Instance -> SUBSET Segment]
    /\ \A i \in Instance : pc[i] # "poll" => msg[i] \in Message
    /\ verdict \in [Instance -> Verdict]
    /\ locks \in SUBSET Segment
    /\ current \in [Segment -> Nat]
    /\ records \in [Booking -> Seq(Status)]
    /\ sent \in SUBSET Outcome
    /\ buffer \in [Instance -> SUBSET Outcome]
    /\ outcomes \in SUBSET Outcome
    /\ releaseLog \in Seq(Booking)
    /\ releaseNext \in 1 .. Len(releaseLog) + 1
    /\ releaseCommit \in 1 .. Len(releaseLog) + 1
    /\ releaseTodo \in SUBSET Segment
    /\ faults \in Nat

(* No segment ever counts more vehicles than its capacity: what the locks  *)
(* around check and INCR are for.                                          *)
NoOverbooking == \A s \in Segment : current[s] <= Capacity[s]

(* Two instances never hold the lock of one segment together, and nobody   *)
(* deletes a key that another instance relies on.                          *)
LocksExclusive ==
    /\ \A i \in Instance : held[i] \subseteq locks
    /\ \A i, j \in Instance : i # j => held[i] \cap held[j] = {}

(* Between its capacity check and its INCR an instance holds every lock of *)
(* its booking, and nobody takes the room it has seen.                     *)
RoomKeptFor(i) ==
    /\ pc[i] \in {"poll", "dedup", "insert", "publish", "flush"} => held[i] = {}
    /\ pc[i] = "lock" => /\ held[i] = SegmentsAt(i) \ todo[i]
                         /\ todo[i] \subseteq SegmentsAt(i)
    /\ pc[i] \in {"check", "vehicle", "incr"} => held[i] = SegmentsAt(i)
    /\ pc[i] = "check" => \A s \in SegmentsAt(i) \ todo[i] : HasRoom(s)
    /\ pc[i] = "vehicle" => \A s \in SegmentsAt(i) : HasRoom(s)
    /\ pc[i] = "incr" => /\ todo[i] \subseteq SegmentsAt(i)
                         /\ \A s \in todo[i] : HasRoom(s)

RoomIsKept == \A i \in Instance : RoomKeptFor(i)

(* An APPROVED outcome of a direct booking is handed to the producer only  *)
(* once its record is in MongoDB, whatever fails in between: nobody can    *)
(* read it on the topic before, where only outcomes appear that were sent. *)
ApprovedIsRecorded ==
    \A b \in Booking \ SubBooking :
        [booking |-> b, outcome |-> "APPROVED"] \in sent => records[b] # <<>>

(* Every approved record is counted on each of its segments: crashes,      *)
(* redeliveries and Redis errors may leave a counter too high, never too   *)
(* low.  (A repeated insert adds a record without a count.)                *)
ApprovedOn(s) ==
    UNION {{<<b, n>> : n \in {m \in DOMAIN records[b] : records[b][m] = "approved"}}
             : b \in {c \in Booking : s \in SegmentsOf[c]}}

ApprovedIsCounted ==
    \A s \in Segment : Cardinality(ApprovedOn(s)) <= current[s]

(* However often crashes have its request delivered again, the outcomes    *)
(* sent for a direct booking never contradict each other, those that are   *)
(* lost on the way included.  (For a sub-booking they can: it has no       *)
(* record for the dedup to find.)                                          *)
OneVerdict ==
    \A o, p \in sent :
        (o.booking = p.booking /\ o.booking \notin SubBooking) => o = p

(* Of that, what is left when bookings are cancelled and flagged meanwhile: *)
(* the dedup only knows the statuses that a validation writes, and decides *)
(* a booking again whose status was overwritten; no other has two outcomes.*)
Overwritten(b) ==
    /\ records[b] # <<>>
    /\ Head(records[b]) \in {"cancelled", "flagged"}

VerdictStands ==
    \A o, p \in sent :
        (/\ o.booking = p.booking
         /\ o.booking \notin SubBooking
         /\ ~Overwritten(o.booking)) => o = p

(* Same contract, as a refinement: each counter moves like SegmentCounters.*)
Counters == INSTANCE SegmentCounters WITH used <- current

CountersSpec == Counters!Spec

(* Every request is decided in the end: an outcome for a sub-booking is on *)
(* the topic, and an outcome or at least a record for a direct booking,    *)
(* unless the offset of the request was committed while its outcome was    *)
(* in a producer's buffer only and then lost there.  A loss before the     *)
(* commit is no excuse: the request is delivered and decided again.        *)
Answered(b) == \E o \in outcomes : o.booking = b

Uncommitted(m) ==
    \/ m \in pending
    \/ \E i \in Instance : m \in processed[i] \/ msg[i] = m

LostAfterCommit(m) ==
    /\ ~Uncommitted(m)
    /\ \E o \in sent : o.booking = BookingOf[m]
    /\ \A i \in Instance : \A o \in buffer[i] : o.booking # BookingOf[m]

EveryRequestDecided ==
    \A m \in Message :
        LET b == BookingOf[m]
        IN  <>(\/ Answered(b)
               \/ b \notin SubBooking /\ records[b] # <<>>
               \/ LostAfterCommit(m))

(* No segment stays locked for ever, even after a crash under its lock.    *)
LocksAreFreed == \A s \in Segment : (s \in locks) ~> (s \notin locks)
=============================================================================
