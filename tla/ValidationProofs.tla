-------------------------- MODULE ValidationProofs --------------------------
(***************************************************************************)
(* Proofs about Validation, for every set of instances, messages, bookings *)
(* and segments, every capacity and every bound on faults and releases.    *)
(* At the end, Cancellation: its handlers and the authority service use a  *)
(* region as Validation allows, so what is proved of a region holds of the *)
(* whole.                                                                  *)
(***************************************************************************)
EXTENDS Cancellation, TLAPS, FiniteSetTheorems

(* The constants are as Validation assumes them.                           *)
USE SegmentAssumption, MessageAssumption, EnvironmentAssumption

(* Every step of the service keeps the types of its variables.             *)
LEMMA WorkKeepsTypes ==
    ASSUME TypeOK, NEW i \in Instance, WorkOn(i)
    PROVE  TypeOK'
<1> USE DEF TypeOK, vars, requestVars, workerVars, redisVars, outcomeVars, releaseVars,
        Goto, Place, Verdict
<1>1. CASE DedupSkip(i)
  BY <1>1 DEF DedupSkip, Finish
<1>2. CASE DedupNew(i)
  BY <1>2 DEF DedupNew, StartValidation, SegmentsAt, BookingAt
<1>3. CASE VehicleFree(i)
  BY <1>3 DEF VehicleFree, StartCounting, SegmentsAt, BookingAt
<1>4. CASE VehicleTaken(i)
  BY <1>4 DEF VehicleTaken, Refuse
<1>5. CASE Unlocked(i)
  BY <1>5 DEF Unlocked
<1>6. CASE InsertRecord(i)
  BY <1>6 DEF InsertRecord, AddRecord, StatusFor, Status, BookingAt
<1>7. CASE Publish(i)
  <2>1. /\ sent' \in SUBSET Outcome
        /\ buffer' \in [Instance -> SUBSET Outcome]
        /\ outcomes' \in SUBSET Outcome
    BY <1>7 DEF Publish, Send, OutcomeAt, Outcome, BookingAt
  <2>2. CASE verdict[i] = "UNWRITTEN"
    BY <1>7, <2>1, <2>2 DEF Publish
  <2>3. CASE verdict[i] # "UNWRITTEN"
    <3>1. /\ Finish(i) /\ pc[i] = "publish"
          /\ UNCHANGED <<redisVars, records, releaseVars, faults>>
      BY <1>7, <2>3 DEF Publish
    <3>2. /\ pc' \in [Instance -> Place]
          /\ processed' \in [Instance -> SUBSET Message]
          /\ msg' \in [Instance -> Message \cup {NoMessage}]
          /\ verdict' \in [Instance -> Verdict]
          /\ UNCHANGED <<pending, todo, held>>
      BY <3>1 DEF Finish
    <3>3. \A j \in Instance : pc'[j] # "poll" => msg'[j] \in Message
      BY <3>1 DEF Finish
    <3>4. QED
      BY <2>1, <3>1, <3>2, <3>3
  <2>4. QED
    BY <2>2, <2>3
<1>8. ASSUME NEW s \in Segment, LockSegment(i, s) PROVE TypeOK'
  <2>1. SegmentsAt(i) \subseteq Segment
    BY <1>8 DEF LockSegment, SegmentsAt, BookingAt
  <2>2. /\ pc' \in [Instance -> Place]
        /\ todo' \in [Instance -> SUBSET Segment]
    <3>1. CASE todo[i] = {s}
      <4>1. /\ pc' = [pc EXCEPT ![i] = "check"]
            /\ todo' = [todo EXCEPT ![i] = SegmentsAt(i)]
        BY <1>8, <3>1 DEF LockSegment
      <4>2. QED
        BY <2>1, <4>1
    <3>2. CASE todo[i] # {s}
      <4>1. /\ pc' = pc
            /\ todo' = [todo EXCEPT ![i] = @ \ {s}]
        BY <1>8, <3>2 DEF LockSegment
      <4>2. QED
        BY <4>1
    <3>3. QED
      BY <3>1, <3>2
  <2>3. \A j \in Instance : pc'[j] # "poll" => msg'[j] \in Message
    BY <1>8 DEF LockSegment
  <2>4. QED
    BY <1>8, <2>2, <2>3 DEF LockSegment
<1>9. ASSUME NEW s \in Segment, LockContention(i, s) PROVE TypeOK'
  BY <1>9 DEF LockContention, Refuse
<1>10. ASSUME NEW s \in Segment, SegmentHasRoom(i, s) PROVE TypeOK'
  BY <1>10 DEF SegmentHasRoom
<1>11. ASSUME NEW s \in Segment, SegmentFull(i, s) PROVE TypeOK'
  BY <1>11 DEF SegmentFull, Refuse
<1>12. ASSUME NEW s \in Segment, IncrSegment(i, s) PROVE TypeOK'
  <2>1. current' \in [Segment -> Nat]
    BY <1>12 DEF IncrSegment, CountIn
  <2>2. /\ pc' \in [Instance -> Place]
        /\ verdict' \in [Instance -> Verdict]
    BY <1>12 DEF IncrSegment
  <2>3. \A j \in Instance : pc'[j] # "poll" => msg'[j] \in Message
    BY <1>12 DEF IncrSegment
  <2>4. QED
    BY <1>12, <2>1, <2>2, <2>3 DEF IncrSegment
<1>13. ASSUME NEW s \in Segment, Unlock(i, s) PROVE TypeOK'
  BY <1>13 DEF Unlock
<1>14. CASE Flushed(i)
  BY <1>14 DEF Flushed, Finish
<1>15. QED
  BY <1>1, <1>2, <1>3, <1>4, <1>5, <1>6, <1>7, <1>8, <1>9, <1>10, <1>11,
     <1>12, <1>13, <1>14 DEF WorkOn

(* So does every fault.                                                    *)
LEMMA FaultKeepsTypes ==
    ASSUME TypeOK, NEW i \in Instance, FailAt(i)
    PROVE  TypeOK'
<1> USE DEF TypeOK, vars, requestVars, workerVars, redisVars, outcomeVars, releaseVars,
        Goto, Place, Verdict, Fault
<1>1. CASE Crash(i)
  BY <1>1 DEF Crash
<1>2. CASE DedupUnavailable(i)
  <2>1. SegmentsAt(i) \in SUBSET Segment
    BY <1>2 DEF DedupUnavailable, SegmentsAt, BookingAt
  <2>2. todo' \in [Instance -> SUBSET Segment]
    BY <1>2, <2>1 DEF DedupUnavailable, StartValidation
  <2>3. /\ pc' \in [Instance -> Place]
        /\ verdict' \in [Instance -> Verdict]
    BY <1>2 DEF DedupUnavailable, StartValidation
  <2>4. \A j \in Instance : pc'[j] # "poll" => msg'[j] \in Message
    BY <1>2 DEF DedupUnavailable, StartValidation
  <2>5. QED
    BY <1>2, <2>2, <2>3, <2>4 DEF DedupUnavailable, StartValidation
<1>3. CASE VehicleUnknown(i)
  BY <1>3 DEF VehicleUnknown, StartCounting, SegmentsAt, BookingAt
<1>4. CASE VehicleError(i)
  BY <1>4 DEF VehicleError, Refuse
<1>5. CASE InsertError(i)
  <2>1. records' \in [Booking -> Seq(Status)]
    <3>1. AddRecord(BookingAt(i), verdict[i]) \/ UNCHANGED records
      BY <1>5 DEF InsertError
    <3>2. CASE AddRecord(BookingAt(i), verdict[i])
      BY <1>5, <3>2 DEF InsertError, AddRecord, StatusFor, Status, BookingAt
    <3>3. QED
      BY <3>1, <3>2
  <2>2. /\ pc' = [pc EXCEPT ![i] = "publish"]
        /\ verdict' = [verdict EXCEPT ![i] = "UNWRITTEN"]
        /\ faults' = faults + 1
        /\ UNCHANGED <<requestVars, msg, todo, held, redisVars, outcomeVars, releaseVars>>
    BY <1>5 DEF InsertError
  <2>3. \A j \in Instance : pc'[j] # "poll" => msg'[j] \in Message
    BY <1>5, <2>2 DEF InsertError
  <2>4. /\ pc' \in [Instance -> Place]
        /\ verdict' \in [Instance -> Verdict]
    BY <2>2
  <2>5. QED
    BY <2>1, <2>2, <2>3, <2>4
<1>6. ASSUME NEW s \in Segment, RedisError(i, s) PROVE TypeOK'
  <2>1. /\ locks' \in SUBSET Segment
        /\ current' \in [Segment -> Nat]
    <3>1. \/ locks' \in {locks, locks \cup {s}} /\ UNCHANGED current
          \/ UNCHANGED redisVars
          \/ UNCHANGED locks /\ (CountIn(s) \/ UNCHANGED current)
      BY <1>6 DEF RedisError
    <3>2. CASE CountIn(s)
      <4>1. current' \in [Segment -> Nat]
        BY <3>2 DEF CountIn
      <4>2. locks' \in SUBSET Segment
        BY <3>1
      <4>3. QED
        BY <4>1, <4>2
    <3>3. CASE ~CountIn(s)
      BY <3>1, <3>3
    <3>4. QED
      BY <3>2, <3>3
  <2>2. Refuse(i, "ERROR") /\ faults' = faults + 1
    BY <1>6 DEF RedisError
  <2>3. pc[i] # "poll"
    BY <1>6 DEF RedisError
  <2>4. QED
    BY <2>1, <2>2, <2>3 DEF Refuse
<1>7. ASSUME NEW s \in Segment, UnlockError(i, s) PROVE TypeOK'
  BY <1>7 DEF UnlockError
<1>8. CASE InsertRepeated(i)
  BY <1>8 DEF InsertRepeated, AddRecord, StatusFor, Status, BookingAt
<1>9. ASSUME NEW o \in Outcome, TransmitError(i, o) PROVE TypeOK'
  BY <1>9 DEF TransmitError
<1>10. QED
  BY <1>1, <1>2, <1>3, <1>4, <1>5, <1>6, <1>7, <1>8, <1>9 DEF FailAt

(* So does everything else: delivery, commits, expiry, the release         *)
(* consumer and the neighbours.                                            *)
LEMMA RestKeepsTypes ==
    ASSUME TypeOK,
           \/ \E i \in Instance : Consume(i) \/ CommitOffsets(i) \/ Produce(i)
           \/ \E s \in Segment : ExpireLock(s)
           \/ ReleaseStep
           \/ RestartReleases
           \/ Environment
    PROVE  TypeOK'
<1> USE DEF TypeOK, vars, requestVars, workerVars, redisVars, outcomeVars, releaseVars
<1>1. ASSUME NEW i \in Instance, NEW m \in Message, Deliver(i, m) PROVE TypeOK'
  BY <1>1 DEF Deliver, Goto, Place
<1>2. ASSUME NEW i \in Instance, CommitOffsets(i) PROVE TypeOK'
  BY <1>2 DEF CommitOffsets
<1>3. ASSUME NEW s \in Segment, ExpireLock(s) PROVE TypeOK'
  BY <1>3 DEF ExpireLock
<1>4. CASE TakeRelease
  BY <1>4 DEF TakeRelease
<1>5. CASE CommitReleases
  BY <1>5 DEF CommitReleases
<1>6. ASSUME NEW s \in Segment, ReleaseSegment(s) PROVE TypeOK'
  BY <1>6 DEF ReleaseSegment, CountOut
<1>7. CASE RestartReleases
  BY <1>7 DEF RestartReleases, Fault
<1>8. ASSUME NEW b \in Booking, SendRelease(b) PROVE TypeOK'
  BY <1>8 DEF SendRelease
<1>9. ASSUME NEW b \in Booking, NEW st \in {"cancelled", "flagged"}, SetStatus(b, st)
      PROVE  TypeOK'
  <2>1. records' \in [Booking -> Seq(Status)]
    BY <1>9 DEF SetStatus, Status
  <2>2. QED
    BY <1>9, <2>1 DEF SetStatus
<1>10. ASSUME NEW i \in Instance, NEW o \in Outcome, Transmit(i, o) PROVE TypeOK'
  BY <1>10 DEF Transmit
<1>11. QED
  BY <1>1, <1>2, <1>3, <1>4, <1>5, <1>6, <1>7, <1>8, <1>9, <1>10
     DEF Consume, Produce, ReleaseStep, Environment

(* Types are kept by every step of the service and of its neighbours.      *)
LEMMA StepKeepsTypes ==
    ASSUME TypeOK, [OpenNext]_vars
    PROVE  TypeOK'
<1>1. CASE UNCHANGED vars
  BY <1>1 DEF TypeOK, vars, requestVars, workerVars, redisVars, outcomeVars, releaseVars
<1>2. CASE OpenNext
  BY <1>2, WorkKeepsTypes, FaultKeepsTypes, RestKeepsTypes DEF OpenNext, Next
<1>3. QED
  BY <1>1, <1>2

(* The service starts with empty queues, unlocked and uncounted segments.  *)
LEMMA InitTypes ==
    ASSUME Init
    PROVE  TypeOK
BY DEF Init, TypeOK, Place, Verdict, Outcome

(* The variables always have their types, and an instance past its poll    *)
(* has a message in hand.                                                  *)
THEOREM TypeCorrect == OpenSpec => []TypeOK
<1>1. Init => TypeOK
  BY InitTypes
<1>2. TypeOK /\ [OpenNext]_vars => TypeOK'
  BY StepKeepsTypes
<1>3. QED
  BY <1>1, <1>2, PTL DEF OpenSpec

-----------------------------------------------------------------------------
(* The inductive invariant behind NoOverbooking.  Alone, NoOverbooking is  *)
(* not inductive: an INCR is safe only because of a check some steps ago,  *)
(* and what that check saw still stands only because of the locks.         *)
Reserved ==
    TypeOK /\ LocksExclusive /\ RoomIsKept /\ NoOverbooking

Touches(i) == /\ \A j \in Instance \ {i} : /\ pc'[j] = pc[j]
                                           /\ msg'[j] = msg[j]
                                           /\ todo'[j] = todo[j]
                                           /\ held'[j] = held[j]

(* A step of one instance leaves the workplaces of the others alone.       *)
LEMMA OthersUntouched ==
    ASSUME TypeOK, NEW i \in Instance, WorkOn(i) \/ FailAt(i)
    PROVE  Touches(i)
<1> USE DEF TypeOK, Touches, Goto, requestVars, workerVars, redisVars, outcomeVars,
   releaseVars
<1>1. CASE WorkOn(i)
  <2>1. CASE DedupSkip(i) \/ Publish(i) \/ Flushed(i)
    BY <2>1 DEF DedupSkip, Publish, Flushed, Finish
  <2>2. CASE DedupNew(i) \/ VehicleFree(i) \/ VehicleTaken(i)
    BY <2>2 DEF DedupNew, VehicleFree, VehicleTaken, StartValidation,
                StartCounting, Refuse
  <2>3. CASE Unlocked(i) \/ InsertRecord(i)
    BY <2>3 DEF Unlocked, InsertRecord
  <2>4. ASSUME NEW s \in Segment, LockSegment(i, s) PROVE Touches(i)
    BY <2>4 DEF LockSegment
  <2>5. ASSUME NEW s \in Segment, LockContention(i, s) \/ SegmentFull(i, s)
        PROVE  Touches(i)
    BY <2>5 DEF LockContention, SegmentFull, Refuse
  <2>6. ASSUME NEW s \in Segment, SegmentHasRoom(i, s) PROVE Touches(i)
    BY <2>6 DEF SegmentHasRoom
  <2>7. ASSUME NEW s \in Segment, IncrSegment(i, s) PROVE Touches(i)
    BY <2>7 DEF IncrSegment
  <2>8. ASSUME NEW s \in Segment, Unlock(i, s) PROVE Touches(i)
    BY <2>8 DEF Unlock
  <2>9. QED
    BY <1>1, <2>1, <2>2, <2>3, <2>4, <2>5, <2>6, <2>7, <2>8 DEF WorkOn
<1>2. CASE FailAt(i)
  <2>1. CASE Crash(i)
    BY <2>1 DEF Crash
  <2>2. CASE DedupUnavailable(i) \/ VehicleUnknown(i) \/ VehicleError(i)
    BY <2>2 DEF DedupUnavailable, VehicleUnknown, VehicleError, StartValidation,
                StartCounting, Refuse
  <2>3. CASE InsertError(i) \/ InsertRepeated(i)
    BY <2>3 DEF InsertError, InsertRepeated
  <2>4. ASSUME NEW s \in Segment, RedisError(i, s) PROVE Touches(i)
    BY <2>4 DEF RedisError, Refuse
  <2>5. ASSUME NEW s \in Segment, UnlockError(i, s) PROVE Touches(i)
    BY <2>5 DEF UnlockError
  <2>6. ASSUME NEW o \in Outcome, TransmitError(i, o) PROVE Touches(i)
    BY <2>6 DEF TransmitError
  <2>7. QED
    BY <1>2, <2>1, <2>2, <2>3, <2>4, <2>5, <2>6 DEF FailAt
<1>3. QED
  BY <1>1, <1>2

(* The counters move only by an INCR of an instance that holds the         *)
(* segment's lock and knows that there is room.                            *)
LEMMA CountsUnderLock ==
    ASSUME Reserved, NEW i \in Instance, WorkOn(i) \/ FailAt(i)
    PROVE  \/ UNCHANGED current
           \/ \E s \in held[i] : HasRoom(s) /\ CountIn(s)
<1> USE DEF redisVars
<1>1. ASSUME NEW s \in Segment, IncrSegment(i, s) \/ RedisError(i, s)
      PROVE  \/ UNCHANGED current
             \/ \E t \in held[i] : HasRoom(t) /\ CountIn(t)
  <2>1. \/ UNCHANGED current
        \/ pc[i] = "incr" /\ IsFirst(s, todo[i]) /\ CountIn(s)
    BY <1>1 DEF IncrSegment, RedisError
  <2>2. ASSUME pc[i] = "incr", IsFirst(s, todo[i])
        PROVE  s \in held[i] /\ HasRoom(s)
    BY <2>2 DEF Reserved, RoomIsKept, RoomKeptFor, IsFirst
  <2>3. QED
    BY <2>1, <2>2
<1>2. CASE WorkOn(i)
  BY <1>1, <1>2 DEF WorkOn, DedupSkip, DedupNew, StartValidation, VehicleFree,
     StartCounting, VehicleTaken, Refuse, Unlocked, InsertRecord, Publish, Send, OutcomeAt,
     Flushed, LockSegment, LockContention, SegmentHasRoom, SegmentFull, Unlock
<1>3. CASE FailAt(i)
  BY <1>1, <1>3 DEF FailAt, Crash, DedupUnavailable, StartValidation, VehicleUnknown,
     StartCounting, VehicleError, InsertError, InsertRepeated, UnlockError, TransmitError
<1>4. QED
  BY <1>2, <1>3

(* Hence no step of one instance spoils what another has checked.          *)
LEMMA RoomKeptForOthers ==
    ASSUME Reserved, NEW i \in Instance, WorkOn(i) \/ FailAt(i),
           NEW j \in Instance, i # j
    PROVE  RoomKeptFor(j)'
<1>1. /\ pc'[j] = pc[j] /\ msg'[j] = msg[j]
      /\ todo'[j] = todo[j] /\ held'[j] = held[j]
  BY OthersUntouched DEF Reserved, Touches
<1>2. SegmentsAt(j)' = SegmentsAt(j)
  BY <1>1 DEF SegmentsAt, BookingAt
<1>3. ASSUME NEW s \in held[j], HasRoom(s) PROVE HasRoom(s)'
  <2>1. s \in Segment /\ s \notin held[i]
    BY <1>3 DEF Reserved, TypeOK, LocksExclusive
  <2>2. current'[s] = current[s]
    BY <2>1, CountsUnderLock DEF CountIn, Reserved, TypeOK
  <2>3. QED
    BY <1>3, <2>2 DEF HasRoom
<1>4. RoomKeptFor(j)
  BY DEF Reserved, RoomIsKept
<1>5. QED
  BY <1>1, <1>2, <1>3, <1>4 DEF RoomKeptFor

(* The instance that moves keeps its own checks.                           *)
LEMMA RoomKeptByWorker ==
    ASSUME Reserved, NEW i \in Instance, WorkOn(i) \/ FailAt(i)
    PROVE  RoomKeptFor(i)'
<1> USE DEF Reserved, TypeOK, RoomKeptFor, Goto
<1>1. RoomKeptFor(i)
  BY DEF RoomIsKept
<1>2. ASSUME \/ pc'[i] = "unlock"
             \/ pc'[i] \in {"poll", "dedup", "insert", "publish", "flush"} /\ held'[i] = {}
      PROVE  RoomKeptFor(i)'
  BY <1>2
<1>3. CASE \/ DedupSkip(i) \/ VehicleTaken(i) \/ Unlocked(i) \/ InsertRecord(i)
           \/ Publish(i) \/ Crash(i) \/ VehicleError(i) \/ InsertError(i)
           \/ InsertRepeated(i) \/ Flushed(i) \/ \E o \in Outcome : TransmitError(i, o)
  BY <1>1, <1>2, <1>3 DEF DedupSkip, Finish, VehicleTaken, Refuse, Unlocked, InsertRecord,
     Publish, Flushed, TransmitError, Crash, VehicleError, InsertError, InsertRepeated,
     workerVars, SegmentsAt, BookingAt, HasRoom, redisVars
<1>4. CASE DedupNew(i) \/ DedupUnavailable(i)
  <2>1. held[i] = {} /\ held'[i] = {} /\ SegmentsAt(i)' = SegmentsAt(i)
    BY <1>1, <1>4 DEF DedupNew, DedupUnavailable, StartValidation, SegmentsAt, BookingAt
  <2>2. \/ pc'[i] = "publish"
        \/ pc'[i] = "lock" /\ todo'[i] = SegmentsAt(i)
    BY <1>4 DEF DedupNew, DedupUnavailable, StartValidation
  <2>3. QED
    BY <1>2, <2>1, <2>2
<1>5. CASE VehicleFree(i) \/ VehicleUnknown(i)
  BY <1>1, <1>5 DEF VehicleFree, VehicleUnknown, StartCounting, SegmentsAt, BookingAt,
     HasRoom, redisVars
<1>6. ASSUME NEW s \in Segment, LockSegment(i, s) PROVE RoomKeptFor(i)'
  BY <1>1, <1>6 DEF LockSegment, IsFirst, SegmentsAt, BookingAt
<1>7. ASSUME NEW s \in Segment, SegmentHasRoom(i, s) PROVE RoomKeptFor(i)'
  BY <1>1, <1>7 DEF SegmentHasRoom, IsFirst, SegmentsAt, BookingAt, HasRoom, redisVars
<1>8. ASSUME NEW s \in Segment, IncrSegment(i, s) PROVE RoomKeptFor(i)'
  BY <1>1, <1>8 DEF IncrSegment, IsFirst, SegmentsAt, BookingAt, HasRoom, CountIn
<1>9. ASSUME NEW s \in Segment,
             \/ LockContention(i, s) \/ SegmentFull(i, s) \/ RedisError(i, s)
             \/ Unlock(i, s) \/ UnlockError(i, s)
      PROVE  RoomKeptFor(i)'
  BY <1>2, <1>9 DEF LockContention, SegmentFull, RedisError, Refuse, Unlock, UnlockError
<1>10. QED
  BY <1>3, <1>4, <1>5, <1>6, <1>7, <1>8, <1>9 DEF WorkOn, FailAt

(* Locks: SET NX keeps the lists of acquired locks disjoint, and while no  *)
(* lock outlives its TTL under its holder, nobody deletes another's key.   *)
LEMMA LocksStayExclusive ==
    ASSUME Reserved, NEW i \in Instance, WorkOn(i) \/ FailAt(i)
    PROVE  LocksExclusive'
<1> USE DEF Reserved, TypeOK, LocksExclusive, redisVars
<1>1. ASSUME NEW s \in Segment, LockSegment(i, s) PROVE LocksExclusive'
  BY <1>1 DEF LockSegment, LockFree
<1>2. ASSUME NEW s \in Segment, Unlock(i, s) PROVE LocksExclusive'
  BY <1>2 DEF Unlock, IsLast
<1>3. ASSUME NEW s \in Segment, UnlockError(i, s) PROVE LocksExclusive'
  BY <1>3 DEF UnlockError
<1>4. CASE Crash(i)
  BY <1>4 DEF Crash
<1>5. ASSUME UNCHANGED held, locks \subseteq locks' PROVE LocksExclusive'
  BY <1>5
<1>6. ASSUME NEW s \in Segment,
             \/ RedisError(i, s) \/ LockContention(i, s) \/ SegmentHasRoom(i, s)
             \/ SegmentFull(i, s) \/ IncrSegment(i, s)
      PROVE  LocksExclusive'
  BY <1>5, <1>6 DEF RedisError, LockContention, SegmentHasRoom, SegmentFull, Refuse,
     IncrSegment
<1>7. CASE \/ DedupSkip(i) \/ DedupNew(i) \/ DedupUnavailable(i) \/ VehicleFree(i)
           \/ VehicleUnknown(i) \/ VehicleTaken(i) \/ VehicleError(i) \/ Unlocked(i)
           \/ InsertRecord(i) \/ InsertError(i) \/ InsertRepeated(i)
           \/ Publish(i) \/ Flushed(i) \/ \E o \in Outcome : TransmitError(i, o)
  BY <1>5, <1>7 DEF DedupSkip, Finish, DedupNew, DedupUnavailable, StartValidation,
     VehicleFree, VehicleUnknown, StartCounting, VehicleTaken, VehicleError, Refuse,
     Unlocked, InsertRecord, InsertError, InsertRepeated, Publish, Flushed, TransmitError,
     workerVars
<1>8. QED
  BY <1>1, <1>2, <1>3, <1>4, <1>6, <1>7 DEF WorkOn, FailAt

(* A step of an instance keeps the whole inductive invariant.              *)
LEMMA WorkerKeepsReserved ==
    ASSUME Reserved, NEW i \in Instance, WorkOn(i) \/ FailAt(i)
    PROVE  Reserved'
<1>1. TypeOK'
  BY WorkKeepsTypes, FaultKeepsTypes DEF Reserved
<1>2. LocksExclusive'
  BY LocksStayExclusive
<1>3. RoomIsKept'
  BY RoomKeptByWorker, RoomKeptForOthers DEF RoomIsKept
<1>4. NoOverbooking'
  <2>1. CASE UNCHANGED current
    BY <2>1 DEF Reserved, NoOverbooking
  <2>2. ASSUME NEW s \in held[i], HasRoom(s), CountIn(s) PROVE NoOverbooking'
    BY <2>2 DEF Reserved, TypeOK, NoOverbooking, HasRoom, CountIn
  <2>3. QED
    BY <2>1, <2>2, CountsUnderLock
<1>5. QED
  BY <1>1, <1>2, <1>3, <1>4 DEF Reserved

(* Steps outside the workers: they raise no counter and, as long as a lock *)
(* expires only when nobody works under it, touch no lock in use.          *)
LEMMA RestKeepsReserved ==
    ASSUME Reserved, LockMayExpire = FALSE, TypeOK',
           \/ \E i \in Instance : Consume(i) \/ CommitOffsets(i) \/ Produce(i)
           \/ \E s \in Segment : ExpireLock(s)
           \/ ReleaseStep
           \/ RestartReleases
           \/ Environment
           \/ UNCHANGED vars
    PROVE  Reserved'
<1> USE DEF Reserved, TypeOK, vars, requestVars, workerVars, redisVars, outcomeVars,
   releaseVars
<1>1. ASSUME UNCHANGED <<pc, msg, todo, held>>, Held \cap locks \subseteq locks',
             \A s \in Segment : current'[s] <= current[s]
      PROVE  Reserved'
  <2>1. LocksExclusive'
    BY <1>1 DEF LocksExclusive, Held
  <2>2. \A i \in Instance : SegmentsAt(i)' = SegmentsAt(i)
    BY <1>1 DEF SegmentsAt, BookingAt
  <2>3. \A s \in Segment : HasRoom(s) => HasRoom(s)'
    BY <1>1, SegmentAssumption DEF HasRoom
  <2>4. ASSUME NEW i \in Instance PROVE RoomKeptFor(i)'
    <3>1. RoomKeptFor(i) /\ held[i] \subseteq Segment
      BY DEF RoomIsKept
    <3>2. QED
      BY <1>1, <2>2, <2>3, <3>1 DEF RoomKeptFor
  <2>5. NoOverbooking'
    BY <1>1, SegmentAssumption DEF NoOverbooking
  <2>6. QED
    BY <2>1, <2>4, <2>5 DEF RoomIsKept
<1>2. ASSUME NEW i \in Instance, NEW m \in Message, Deliver(i, m) PROVE Reserved'
  <2>1. LocksExclusive' /\ NoOverbooking'
    BY <1>2 DEF Deliver, LocksExclusive, NoOverbooking
  <2>2. \A j \in Instance : RoomKeptFor(j)'
    BY <1>2 DEF Deliver, RoomIsKept, RoomKeptFor, SegmentsAt, BookingAt, HasRoom, Goto
  <2>3. QED
    BY <2>1, <2>2 DEF RoomIsKept
<1>3. ASSUME NEW i \in Instance, CommitOffsets(i) PROVE Reserved'
  BY <1>1, <1>3 DEF CommitOffsets
<1>4. ASSUME NEW s \in Segment, ExpireLock(s) PROVE Reserved'
  BY <1>1, <1>4 DEF ExpireLock
<1>5. ASSUME NEW s \in Segment, ReleaseSegment(s) PROVE Reserved'
  <2>1. \A t \in Segment : current'[t] <= current[t]
    BY <1>5 DEF ReleaseSegment, CountOut
  <2>2. QED
    BY <1>1, <1>5, <2>1 DEF ReleaseSegment
<1>6. CASE TakeRelease \/ CommitReleases \/ RestartReleases \/ UNCHANGED vars
  BY <1>1, <1>6 DEF TakeRelease, CommitReleases, RestartReleases
<1>7. CASE Environment
  <2>1. UNCHANGED <<requestVars, workerVars, redisVars>>
    BY <1>7 DEF Environment, SendRelease, SetStatus
  <2>2. QED
    BY <1>1, <2>1
<1>8. ASSUME NEW i \in Instance, Produce(i) PROVE Reserved'
  <2>1. UNCHANGED <<requestVars, workerVars, redisVars>>
    BY <1>8 DEF Produce, Transmit
  <2>2. UNCHANGED <<pc, msg, todo, held, locks, current>>
    BY <2>1
  <2>3. \A s \in Segment : current'[s] <= current[s]
    BY <2>2
  <2>4. QED
    BY <1>1, <2>2, <2>3
<1>9. QED
  BY <1>2, <1>3, <1>4, <1>5, <1>6, <1>7, <1>8 DEF Consume, ReleaseStep

(* And so does every step there is.                                        *)
LEMMA StepKeepsReserved ==
    ASSUME Reserved, LockMayExpire = FALSE, [OpenNext]_vars
    PROVE  Reserved'
<1>1. TypeOK'
  BY StepKeepsTypes DEF Reserved
<1>2. QED
  BY <1>1, WorkerKeepsReserved, RestKeepsReserved DEF OpenNext, Next

(* At the start nothing is locked and nothing counted.                     *)
LEMMA InitReserved ==
    ASSUME Init
    PROVE  Reserved
BY InitTypes DEF Init, Reserved, LocksExclusive, RoomIsKept, RoomKeptFor, NoOverbooking

(* Whatever crashes, fails, is delivered again or released too often, and  *)
(* however many instances run: as long as no lock outlives its TTL under   *)
(* its holder, no segment is ever overbooked.                              *)
THEOREM NeverOverbooked ==
    ASSUME LockMayExpire = FALSE
    PROVE  OpenSpec => []NoOverbooking
<1>1. Init => Reserved
  BY InitReserved
<1>2. Reserved /\ [OpenNext]_vars => Reserved'
  BY StepKeepsReserved
<1>3. Reserved => NoOverbooking
  BY DEF Reserved
<1>4. QED
  BY <1>1, <1>2, <1>3, PTL DEF OpenSpec

(* Two instances never hold one segment's lock together, and nobody        *)
(* deletes a key that another relies on, as long as no lock outlives its   *)
(* TTL under its holder.                                                   *)
THEOREM LocksAreExclusive ==
    ASSUME LockMayExpire = FALSE
    PROVE  OpenSpec => []LocksExclusive
<1>1. Init => Reserved
  BY InitReserved
<1>2. Reserved /\ [OpenNext]_vars => Reserved'
  BY StepKeepsReserved
<1>3. Reserved => LocksExclusive
  BY DEF Reserved
<1>4. QED
  BY <1>1, <1>2, <1>3, PTL DEF OpenSpec

(* What an instance has checked under its locks still holds when it counts *)
(* its booking in, under the same condition.                               *)
THEOREM ChecksStayValid ==
    ASSUME LockMayExpire = FALSE
    PROVE  OpenSpec => []RoomIsKept
<1>1. Init => Reserved
  BY InitReserved
<1>2. Reserved /\ [OpenNext]_vars => Reserved'
  BY StepKeepsReserved
<1>3. Reserved => RoomIsKept
  BY DEF Reserved
<1>4. QED
  BY <1>1, <1>2, <1>3, PTL DEF OpenSpec

-----------------------------------------------------------------------------
(* Every step moves at most one counter, by one place, within its bounds.  *)
LEMMA StepIsCounterStep ==
    ASSUME Reserved, [OpenNext]_vars
    PROVE  [Counters!Next]_current
<1> USE DEF Reserved, TypeOK, redisVars
<1>1. CASE UNCHANGED vars
  BY <1>1 DEF vars
<1>2. ASSUME NEW i \in Instance, WorkOn(i) \/ FailAt(i)
      PROVE  [Counters!Next]_current
  <2>1. ASSUME NEW s \in held[i], HasRoom(s), CountIn(s) PROVE Counters!Next
    BY <2>1 DEF Counters!Next, Counters!Take, HasRoom, CountIn
  <2>2. QED
    BY <1>2, <2>1, CountsUnderLock
<1>3. ASSUME NEW s \in Segment, ReleaseSegment(s) PROVE [Counters!Next]_current
  <2>1. CASE current[s] > 0
    BY <1>3, <2>1 DEF ReleaseSegment, CountOut, Counters!Next, Counters!GiveBack
  <2>2. CASE ~ current[s] > 0
    BY <1>3, <2>2 DEF ReleaseSegment, CountOut
  <2>3. QED
    BY <2>1, <2>2
<1>4. ASSUME \/ \E i \in Instance : Consume(i) \/ CommitOffsets(i) \/ Produce(i)
             \/ \E s \in Segment : ExpireLock(s)
             \/ TakeRelease \/ CommitReleases \/ RestartReleases
             \/ Environment
      PROVE  UNCHANGED current
  BY <1>4 DEF Consume, Deliver, CommitOffsets, ExpireLock, Produce, Transmit, TakeRelease,
     CommitReleases, RestartReleases, Environment, SendRelease, SetStatus
<1>5. QED
  BY <1>1, <1>2, <1>3, <1>4 DEF OpenNext, Next, ReleaseStep

(* The service implements SegmentCounters: seen from outside, each counter *)
(* moves one place at a time between zero and the segment's capacity.      *)
THEOREM ImplementsCounters ==
    ASSUME LockMayExpire = FALSE
    PROVE  OpenSpec => CountersSpec
<1>1. Init => Reserved
  BY InitReserved
<1>2. Reserved /\ [OpenNext]_vars => Reserved'
  BY StepKeepsReserved
<1>3. Init => Counters!Init
  BY DEF Init, Counters!Init
<1>4. Reserved /\ [OpenNext]_vars => [Counters!Next]_current
  BY StepIsCounterStep
<1>5. QED
  BY <1>1, <1>2, <1>3, <1>4, PTL DEF OpenSpec, CountersSpec, Counters!Spec

-----------------------------------------------------------------------------
(* What makes ApprovedIsRecorded inductive: a direct booking that is about *)
(* to be published as approved has its record.                             *)
AboutToApprove ==
    \A i \in Instance :
        (pc[i] = "publish" /\ verdict[i] = "APPROVED" /\ BookingAt(i) \notin SubBooking)
            => records[BookingAt(i)] # <<>>

Recorded == TypeOK /\ AboutToApprove /\ ApprovedIsRecorded

(* A sequence that something was appended to is not empty.                 *)
LEMMA AppendNotEmpty ==
    ASSUME NEW S, NEW q \in Seq(S), NEW e \in S
    PROVE  Append(q, e) # <<>>
<1>1. Len(Append(q, e)) = Len(q) + 1 /\ Len(q) \in Nat
  OBVIOUS
<1>2. Len(<<>>) = 0
  OBVIOUS
<1>3. QED
  BY <1>1, <1>2

(* Records are added and their status changes, but none goes away.         *)
LEMMA RecordsOnlyGrow ==
    ASSUME TypeOK, [OpenNext]_vars, NEW b \in Booking, records[b] # <<>>
    PROVE  records'[b] # <<>>
<1> USE DEF TypeOK, redisVars, requestVars, workerVars, outcomeVars, releaseVars
<1>1. ASSUME NEW c \in Booking, NEW v, AddRecord(c, v) PROVE records'[b] # <<>>
  <2>1. CASE c = b
    <3>1. /\ records[b] \in Seq(Status)
          /\ StatusFor(v) \in Status
          /\ records'[b] = Append(records[b], StatusFor(v))
      BY <1>1, <2>1 DEF AddRecord, StatusFor, Status
    <3>2. QED
      BY <3>1, AppendNotEmpty
  <2>2. CASE c # b
    BY <1>1, <2>2 DEF AddRecord
  <2>3. QED
    BY <2>1, <2>2
<1>2. ASSUME NEW c \in Booking, NEW st, SetStatus(c, st) PROVE records'[b] # <<>>
  BY <1>2 DEF SetStatus
<1>3. ASSUME NEW i \in Instance, InsertRecord(i) \/ InsertError(i) \/ InsertRepeated(i)
      PROVE  records'[b] # <<>>
  <2>1. BookingAt(i) \in Booking
    BY <1>3 DEF InsertRecord, InsertError, InsertRepeated, BookingAt
  <2>2. AddRecord(BookingAt(i), verdict[i]) \/ UNCHANGED records
    BY <1>3 DEF InsertRecord, InsertError, InsertRepeated
  <2>3. QED
    BY <1>1, <2>1, <2>2
<1>4. ASSUME NEW i \in Instance, WorkOn(i), ~InsertRecord(i)
      PROVE  UNCHANGED records
  BY <1>4 DEF WorkOn, DedupSkip, DedupNew, StartValidation, VehicleFree, StartCounting,
     VehicleTaken, Refuse, Unlocked, Publish, Send, OutcomeAt, Flushed, LockSegment,
     LockContention, SegmentHasRoom, SegmentFull, IncrSegment, Unlock
<1>5. ASSUME NEW i \in Instance, FailAt(i), ~InsertError(i), ~InsertRepeated(i)
      PROVE  UNCHANGED records
  BY <1>5 DEF FailAt, Crash, DedupUnavailable, StartValidation, VehicleUnknown,
     StartCounting, VehicleError, Refuse, RedisError, UnlockError, TransmitError
<1>6. ASSUME \/ \E i \in Instance : Consume(i) \/ CommitOffsets(i) \/ Produce(i)
             \/ \E s \in Segment : ExpireLock(s)
             \/ ReleaseStep \/ RestartReleases
             \/ \E c \in Booking : SendRelease(c)
             \/ UNCHANGED vars
      PROVE  UNCHANGED records
  BY <1>6 DEF Consume, Deliver, CommitOffsets, ExpireLock, Produce, Transmit, ReleaseStep,
     TakeRelease, CommitReleases, ReleaseSegment, RestartReleases, SendRelease, vars
<1>7. QED
  BY <1>2, <1>3, <1>4, <1>5, <1>6 DEF OpenNext, Next, Environment

(* An instance publishes APPROVED for a direct booking only after its      *)
(* insert, and its record does not go away in between.                     *)
LEMMA WorkerKeepsAboutToApprove ==
    ASSUME Recorded, NEW i \in Instance, WorkOn(i) \/ FailAt(i)
    PROVE  AboutToApprove'
<1> USE DEF Recorded, TypeOK, AboutToApprove, Goto, workerVars
<1> SUFFICES ASSUME NEW j \in Instance, pc'[j] = "publish", verdict'[j] = "APPROVED",
                    BookingAt(j)' \notin SubBooking
             PROVE  records'[BookingAt(j)'] # <<>>
  OBVIOUS
<1>1. CASE j # i
  <2>1. pc[j] = "publish" /\ msg'[j] = msg[j]
    BY <1>1, OthersUntouched DEF Touches
  <2>2. verdict[j] = "APPROVED"
    BY <1>1 DEF WorkOn, FailAt, DedupSkip, Finish, DedupNew, StartValidation, VehicleFree,
       StartCounting, VehicleTaken, Refuse, Unlocked, InsertRecord, Publish, Send,
       OutcomeAt, Flushed, LockSegment, LockContention, SegmentHasRoom, SegmentFull,
       IncrSegment, Unlock, Crash, DedupUnavailable, VehicleUnknown, VehicleError,
       InsertError, InsertRepeated, RedisError, UnlockError, TransmitError
  <2>3. BookingAt(j)' = BookingAt(j) /\ BookingAt(j) \in Booking
    BY <2>1 DEF BookingAt
  <2>4. records[BookingAt(j)] # <<>>
    BY <2>1, <2>2, <2>3
  <2>5. QED
    BY <2>3, <2>4, RecordsOnlyGrow DEF OpenNext, Next
<1>2. CASE j = i
  <2>1. CASE InsertRecord(i)
    <3>1. BookingAt(i)' = BookingAt(i) /\ BookingAt(i) \in Booking
      BY <2>1 DEF InsertRecord, BookingAt
    <3>2. /\ records[BookingAt(i)] \in Seq(Status)
          /\ StatusFor(verdict[i]) \in Status
          /\ records'[BookingAt(i)] = Append(records[BookingAt(i)], StatusFor(verdict[i]))
      BY <2>1, <3>1 DEF InsertRecord, AddRecord, StatusFor, Status
    <3>3. QED
      BY <1>2, <3>1, <3>2, AppendNotEmpty
  <2>2. CASE Unlocked(i)
    BY <1>2, <2>2 DEF Unlocked, BookingAt
  <2>3. CASE WorkOn(i) /\ ~InsertRecord(i) /\ ~Unlocked(i)
    BY <1>2, <2>3 DEF WorkOn, DedupSkip, Finish, DedupNew, StartValidation, VehicleFree,
       StartCounting, VehicleTaken, Refuse, Publish, Send, OutcomeAt, Flushed, LockSegment,
       LockContention, SegmentHasRoom, SegmentFull, IncrSegment, Unlock
  <2>4. CASE FailAt(i)
    <3>1. CASE \E o \in Outcome : TransmitError(i, o)
      BY <1>2, <3>1 DEF TransmitError, BookingAt
    <3>2. CASE ~\E o \in Outcome : TransmitError(i, o)
      BY <1>2, <2>4, <3>2 DEF FailAt, Crash, DedupUnavailable, StartValidation, VehicleUnknown,
       StartCounting, VehicleError, Refuse, InsertError, InsertRepeated,
       RedisError, UnlockError
    <3>3. QED
      BY <3>1, <3>2
  <2>5. QED
    BY <2>1, <2>2, <2>3, <2>4
<1>3. QED
  BY <1>1, <1>2

(* Every step keeps approvals recorded.                                    *)
LEMMA StepKeepsRecorded ==
    ASSUME Recorded, [OpenNext]_vars
    PROVE  Recorded'
<1> USE DEF redisVars, requestVars, workerVars, outcomeVars, releaseVars
<1>1. TypeOK'
  BY StepKeepsTypes DEF Recorded
<1>2. AboutToApprove'
  <2>1. CASE \E i \in Instance : WorkOn(i) \/ FailAt(i)
    BY <2>1, WorkerKeepsAboutToApprove
  <2>2. ASSUME NEW i \in Instance, NEW m \in Message, Deliver(i, m)
        PROVE  AboutToApprove'
    BY <2>2 DEF Recorded, TypeOK, AboutToApprove, Deliver, Goto, BookingAt
  <2>3. CASE UNCHANGED workerVars
    <3>1. \A i \in Instance : BookingAt(i)' = BookingAt(i)
      BY <2>3 DEF BookingAt
    <3>2. ASSUME NEW i \in Instance, pc[i] = "publish" PROVE BookingAt(i) \in Booking
      BY <3>2 DEF Recorded, TypeOK, BookingAt
    <3>3. QED
      BY <2>3, <3>1, <3>2, RecordsOnlyGrow DEF Recorded, AboutToApprove
  <2>4. QED
    BY <2>1, <2>2, <2>3 DEF outcomeVars, OpenNext, Next, Consume, CommitOffsets, ExpireLock,
       Produce, Transmit, ReleaseStep, TakeRelease, CommitReleases, ReleaseSegment,
       RestartReleases, Environment, SendRelease, SetStatus, vars
<1>3. ApprovedIsRecorded'
  <2>1. ASSUME NEW i \in Instance, Publish(i) PROVE ApprovedIsRecorded'
    BY <2>1 DEF Publish, Send, OutcomeAt, Recorded, AboutToApprove,
       ApprovedIsRecorded
  <2>2. CASE UNCHANGED sent
    BY <2>2, RecordsOnlyGrow DEF Recorded, ApprovedIsRecorded
  <2>3. ASSUME NEW i \in Instance, WorkOn(i) \/ FailAt(i), ~Publish(i)
        PROVE  UNCHANGED sent
    BY <2>3 DEF outcomeVars, Flushed, WorkOn, FailAt, DedupSkip, DedupNew, StartValidation,
       VehicleFree, StartCounting, VehicleTaken, Refuse, Unlocked, InsertRecord,
       LockSegment, LockContention, SegmentHasRoom, SegmentFull, IncrSegment, Unlock,
       Crash, DedupUnavailable, VehicleUnknown, VehicleError, InsertError,
       InsertRepeated, RedisError, UnlockError, TransmitError
  <2>4. QED
    BY <2>1, <2>2, <2>3 DEF outcomeVars, OpenNext, Next, Consume, Deliver, CommitOffsets,
       ExpireLock, Produce, Transmit, ReleaseStep, TakeRelease, CommitReleases,
       ReleaseSegment, RestartReleases, Environment, SendRelease, SetStatus, vars
<1>4. QED
  BY <1>1, <1>2, <1>3 DEF Recorded

(* No driver is ever told APPROVED for a direct booking that has no record:*)
(* the insert comes before the publication, on every path.                 *)
THEOREM ApprovalsAreRecorded == OpenSpec => []ApprovedIsRecorded
<1>1. Init => Recorded
  BY InitTypes DEF Init, Recorded, AboutToApprove, ApprovedIsRecorded
<1>2. Recorded /\ [OpenNext]_vars => Recorded'
  BY StepKeepsRecorded
<1>3. Recorded => ApprovedIsRecorded
  BY DEF Recorded
<1>4. QED
  BY <1>1, <1>2, <1>3, PTL DEF OpenSpec

(* What a producer transmits was handed to it: whatever is shown of the    *)
(* outcomes sent holds of those on the topic.                              *)
TransmittedWasSent == outcomes \subseteq sent /\ \A i \in Instance : buffer[i] \subseteq sent

(* Every step keeps that.                                                  *)
LEMMA StepKeepsSent ==
    ASSUME TypeOK, TransmittedWasSent, [OpenNext]_vars
    PROVE  TransmittedWasSent'
<1> USE DEF TypeOK, TransmittedWasSent
<1>1. ASSUME NEW i \in Instance, Publish(i) PROVE TransmittedWasSent'
  BY <1>1 DEF Publish, Send
<1>2. ASSUME NEW i \in Instance, Crash(i) PROVE TransmittedWasSent'
  BY <1>2 DEF Crash
<1>3. ASSUME NEW i \in Instance, NEW o \in Outcome, Transmit(i, o) \/ TransmitError(i, o)
      PROVE  TransmittedWasSent'
  BY <1>3 DEF Transmit, TransmitError
<1>4. CASE UNCHANGED outcomeVars
  BY <1>4 DEF outcomeVars
<1>5. ASSUME NEW i \in Instance, WorkOn(i), ~Publish(i)
      PROVE  UNCHANGED outcomeVars
  BY <1>5 DEF WorkOn, DedupSkip, DedupNew, StartValidation, VehicleFree, StartCounting,
     VehicleTaken, Refuse, Unlocked, InsertRecord, Flushed, LockSegment, LockContention,
     SegmentHasRoom, SegmentFull, IncrSegment, Unlock
<1>6. ASSUME NEW i \in Instance, FailAt(i)
      PROVE  UNCHANGED outcomeVars \/ Crash(i) \/ \E o \in Outcome : TransmitError(i, o)
  BY <1>6 DEF FailAt, DedupUnavailable, StartValidation, VehicleUnknown, StartCounting,
     VehicleError, Refuse, InsertError, InsertRepeated, RedisError, UnlockError
<1>7. ASSUME \/ \E i \in Instance : Consume(i) \/ CommitOffsets(i)
             \/ \E s \in Segment : ExpireLock(s)
             \/ ReleaseStep \/ RestartReleases \/ Environment
             \/ UNCHANGED vars
      PROVE  UNCHANGED outcomeVars
  BY <1>7 DEF Consume, Deliver, CommitOffsets, ExpireLock, ReleaseStep, TakeRelease,
     CommitReleases, ReleaseSegment, RestartReleases, Environment, SendRelease, SetStatus, vars
<1>8. QED
  BY <1>1, <1>2, <1>3, <1>4, <1>5, <1>6, <1>7 DEF OpenNext, Next, Produce

(* Hence no APPROVED of a direct booking without a record is on the topic. *)
THEOREM ApprovalsOnTopicAreRecorded ==
    OpenSpec => [](\A b \in Booking \ SubBooking :
                     [booking |-> b, outcome |-> "APPROVED"] \in outcomes => records[b] # <<>>)
<1> DEFINE OnTopic == \A b \in Booking \ SubBooking :
                 [booking |-> b, outcome |-> "APPROVED"] \in outcomes => records[b] # <<>>
<1>1. Init => Recorded /\ TransmittedWasSent
  BY InitTypes DEF Init, Recorded, AboutToApprove, ApprovedIsRecorded, TransmittedWasSent
<1>2. Recorded /\ TransmittedWasSent /\ [OpenNext]_vars => (Recorded /\ TransmittedWasSent)'
  BY StepKeepsRecorded, StepKeepsSent DEF Recorded
<1>3. Recorded /\ TransmittedWasSent => OnTopic
  BY DEF Recorded, ApprovedIsRecorded, TransmittedWasSent
<1>4. QED
  BY <1>1, <1>2, <1>3, PTL DEF OpenSpec

-----------------------------------------------------------------------------
(* The verdicts of the others are not touched either.                      *)
LEMMA OtherVerdicts ==
    ASSUME TypeOK, NEW i \in Instance, WorkOn(i) \/ FailAt(i),
           NEW j \in Instance, j # i
    PROVE  verdict'[j] = verdict[j]
BY DEF TypeOK, workerVars, WorkOn, FailAt, DedupSkip, Finish, DedupNew, StartValidation,
   VehicleFree, StartCounting, VehicleTaken, Refuse, Unlocked, InsertRecord, Publish, Send,
   OutcomeAt, Flushed, LockSegment, LockContention, SegmentHasRoom, SegmentFull,
   IncrSegment, Unlock, Crash, DedupUnavailable, VehicleUnknown, VehicleError, InsertError,
   InsertRepeated, RedisError, UnlockError, TransmitError

(* Records are written by an insert, sent by a publication.            *)
LEMMA WhatIsStored ==
    ASSUME NEW i \in Instance, WorkOn(i) \/ FailAt(i)
    PROVE  /\ \/ UNCHANGED records
              \/ InsertRecord(i) \/ InsertError(i) \/ InsertRepeated(i)
           /\ UNCHANGED sent \/ Publish(i)
BY DEF redisVars, outcomeVars, WorkOn, FailAt, DedupSkip, DedupNew, StartValidation,
   VehicleFree, StartCounting, VehicleTaken, Refuse, Unlocked, InsertRecord, Publish, Send,
   OutcomeAt, Flushed, LockSegment, LockContention, SegmentHasRoom, SegmentFull,
   IncrSegment, Unlock, Crash, DedupUnavailable, VehicleUnknown, VehicleError, InsertError,
   InsertRepeated, RedisError, UnlockError, TransmitError

-----------------------------------------------------------------------------
(* Why ApprovedIsCounted holds.  Between its INCR and its insert an        *)
(* approval is counted and not yet recorded: the instances at work between *)
(* the two keep a counter strictly above the records.                      *)
Counting(s) ==
    {i \in Instance :
        /\ pc[i] # "poll"
        /\ s \in SegmentsAt(i)
        /\ \/ pc[i] = "incr" /\ s \notin todo[i]
           \/ pc[i] \in {"unlock", "insert"} /\ verdict[i] = "APPROVED"}

CountedAt(s) ==
    /\ IsFiniteSet(ApprovedOn(s))
    /\ IsFiniteSet(Counting(s))
    /\ Cardinality(ApprovedOn(s)) + Cardinality(Counting(s)) <= current[s]

NothingReleased == releaseLog = <<>> /\ releaseTodo = {}

Counted == TypeOK /\ NothingReleased /\ \A s \in Segment : CountedAt(s)

(* An approval that nobody counts any more takes nothing from a counter.   *)
LEMMA CountedStays ==
    ASSUME NEW s \in Segment, CountedAt(s), ApprovedOn(s)' = ApprovedOn(s),
           Counting(s)' \subseteq Counting(s), current[s] \in Nat,
           current'[s] \in Nat, current[s] <= current'[s]
    PROVE  CountedAt(s)'
<1>1. /\ IsFiniteSet(Counting(s)')
      /\ Cardinality(Counting(s)') <= Cardinality(Counting(s))
  BY FS_Subset DEF CountedAt
<1>2. /\ Cardinality(Counting(s)') \in Nat
      /\ Cardinality(Counting(s)) \in Nat
      /\ Cardinality(ApprovedOn(s)) \in Nat
  BY <1>1, FS_CardinalityType DEF CountedAt
<1>3. QED
  BY <1>1, <1>2 DEF CountedAt

(* An approved record is one of a booking that uses the segment.           *)
LEMMA ApprovedRecords ==
    ASSUME NEW s, NEW x
    PROVE  x \in ApprovedOn(s) <=>
             \E b \in Booking : /\ s \in SegmentsOf[b]
                                /\ \E n \in DOMAIN records[b] : /\ records[b][n] = "approved"
                                                                /\ x = <<b, n>>
<1> DEFINE Of(b) == {<<b, n>> : n \in {m \in DOMAIN records[b] : records[b][m] = "approved"}}
<1>1. ApprovedOn(s) = UNION {Of(b) : b \in {c \in Booking : s \in SegmentsOf[c]}}
  BY DEF ApprovedOn
<1>2. \A b : x \in Of(b) <=> \E n \in DOMAIN records[b] : /\ records[b][n] = "approved"
                                                          /\ x = <<b, n>>
  OBVIOUS
<1> HIDE DEF Of
<1>3. QED
  BY <1>1, <1>2

(* As long as records stay, so do the approved ones.                       *)
LEMMA ApprovedUnchanged ==
    ASSUME UNCHANGED records, NEW s
    PROVE  ApprovedOn(s)' = ApprovedOn(s)
BY DEF ApprovedOn

(* What an insert adds: nothing for a rejection and nothing for a segment  *)
(* that the booking does not use, otherwise one approved record.           *)
LEMMA InsertAdds ==
    ASSUME TypeOK, NEW b \in Booking, NEW v, AddRecord(b, v), NEW s \in Segment
    PROVE  IF v = "APPROVED" /\ s \in SegmentsOf[b]
             THEN ApprovedOn(s)' = ApprovedOn(s) \cup {<<b, Len(records[b]) + 1>>}
             ELSE ApprovedOn(s)' = ApprovedOn(s)
<1> DEFINE l == Len(records[b]) + 1
           Has(rec, x) == \E c \in Booking : 
               /\ s \in SegmentsOf[c]
               /\ \E n \in DOMAIN rec[c] : rec[c][n] = "approved" /\ x = <<c, n>>
<1>1. /\ records[b] \in Seq(Status) /\ StatusFor(v) \in Status
      /\ records' = [records EXCEPT ![b] = Append(records[b], StatusFor(v))]
      /\ records \in [Booking -> Seq(Status)]
  BY DEF TypeOK, AddRecord, StatusFor, Status
<1>2. /\ DOMAIN Append(records[b], StatusFor(v)) = DOMAIN records[b] \cup {l}
      /\ l \notin DOMAIN records[b]
      /\ Append(records[b], StatusFor(v))[l] = StatusFor(v)
      /\ \A n \in DOMAIN records[b] : Append(records[b], StatusFor(v))[n] = records[b][n]
  BY <1>1
<1>3. \A c \in Booking \ {b} : records'[c] = records[c]
  BY <1>1
<1>4. /\ DOMAIN records'[b] = DOMAIN records[b] \cup {l}
      /\ records'[b][l] = StatusFor(v)
      /\ \A n \in DOMAIN records[b] : records'[b][n] = records[b][n]
  BY <1>1, <1>2
<1>5. StatusFor(v) = "approved" <=> v = "APPROVED"
  BY DEF StatusFor
<1>6. ASSUME NEW x
      PROVE  Has(records', x) <=> \/ Has(records, x)
                                  \/ v = "APPROVED" /\ s \in SegmentsOf[b] /\ x = <<b, l>>
  <2> HIDE DEF l
  <2>1. ASSUME Has(records', x)
        PROVE  \/ Has(records, x)
               \/ v = "APPROVED" /\ s \in SegmentsOf[b] /\ x = <<b, l>>
    <3>1. PICK c \in Booking : /\ s \in SegmentsOf[c]
                               /\ \E n \in DOMAIN records'[c] :
                                    records'[c][n] = "approved" /\ x = <<c, n>>
      BY <2>1
    <3>2. PICK n \in DOMAIN records'[c] : records'[c][n] = "approved" /\ x = <<c, n>>
      BY <3>1
    <3>3. CASE c = b /\ n = l
      BY <3>1, <3>2, <3>3, <1>4, <1>5
    <3>4. CASE c = b /\ n # l
      BY <3>1, <3>2, <3>4, <1>4
    <3>5. CASE c # b
      BY <3>1, <3>2, <3>5, <1>3
    <3>6. QED
      BY <3>3, <3>4, <3>5
  <2>2. ASSUME Has(records, x) PROVE Has(records', x)
    <3>1. PICK c \in Booking : /\ s \in SegmentsOf[c]
                               /\ \E n \in DOMAIN records[c] :
                                    records[c][n] = "approved" /\ x = <<c, n>>
      BY <2>2
    <3>2. \A n \in DOMAIN records[c] :
            n \in DOMAIN records'[c] /\ records'[c][n] = records[c][n]
      BY <1>3, <1>4
    <3>3. QED
      BY <3>1, <3>2
  <2>3. ASSUME v = "APPROVED", s \in SegmentsOf[b], x = <<b, l>>
        PROVE  Has(records', x)
    BY <2>3, <1>4, <1>5
  <2>4. QED
    BY <2>1, <2>2, <2>3
<1>7. ASSUME NEW x PROVE (x \in ApprovedOn(s))' <=> Has(records', x)
  BY DEF ApprovedOn
<1>8. ASSUME NEW x PROVE x \in ApprovedOn(s) <=> Has(records, x)
  BY ApprovedRecords
<1> HIDE DEF Has, l
<1>9. ASSUME NEW x
      PROVE  x \in ApprovedOn(s)' <=> \/ x \in ApprovedOn(s)
                                      \/ v = "APPROVED" /\ s \in SegmentsOf[b] /\ x = <<b, l>>
  BY <1>6, <1>7, <1>8
<1>10. CASE v = "APPROVED" /\ s \in SegmentsOf[b]
  <2>1. \A x : x \in ApprovedOn(s)' <=> x \in ApprovedOn(s) \cup {<<b, l>>}
    BY <1>9, <1>10
  <2>2. ApprovedOn(s)' = ApprovedOn(s) \cup {<<b, l>>}
    BY <2>1
  <2>3. QED
    BY <1>10, <2>2 DEF l
<1>11. CASE ~(v = "APPROVED" /\ s \in SegmentsOf[b])
  <2>1. \A x : x \in ApprovedOn(s)' <=> x \in ApprovedOn(s)
    BY <1>9, <1>11
  <2>2. ApprovedOn(s)' = ApprovedOn(s)
    BY <2>1
  <2>3. QED
    BY <1>11, <2>2
<1>12. QED
  BY <1>10, <1>11

(* Nobody but the instance itself enters or leaves Counting for it, and    *)
(* an instance enters by an INCR of the segment only.                      *)
LEMMA WhoIsCounting ==
    ASSUME TypeOK, NEW i \in Instance, WorkOn(i) \/ FailAt(i), NEW s \in Segment,
           i \in Counting(s)'
    PROVE  \/ i \in Counting(s)
           \/ IncrSegment(i, s)
<1> USE DEF TypeOK, Goto, workerVars
<1>1. pc'[i] # "poll" => SegmentsAt(i)' = SegmentsAt(i)
  BY DEF WorkOn, FailAt, DedupSkip, Finish, DedupNew, StartValidation, VehicleFree,
   StartCounting, VehicleTaken, Refuse, Unlocked, InsertRecord, Publish, Send, OutcomeAt,
   Flushed, LockSegment, LockContention, SegmentHasRoom, SegmentFull, IncrSegment, Unlock,
   Crash, DedupUnavailable, VehicleUnknown, VehicleError, InsertError, InsertRepeated,
   RedisError, UnlockError, TransmitError, SegmentsAt, BookingAt
<1>2. /\ pc'[i] # "poll" /\ s \in SegmentsAt(i)
      /\ \/ pc'[i] = "incr" /\ s \notin todo'[i]
         \/ pc'[i] \in {"unlock", "insert"} /\ verdict'[i] = "APPROVED"
  BY <1>1 DEF Counting
<1>3. CASE \/ DedupSkip(i) \/ DedupNew(i) \/ DedupUnavailable(i) \/ VehicleTaken(i)
           \/ VehicleError(i) \/ Publish(i) \/ Crash(i) \/ InsertRecord(i) \/ InsertError(i)
           \/ Flushed(i)
  BY <1>2, <1>3 DEF DedupSkip, Finish, DedupNew, DedupUnavailable, StartValidation,
     VehicleTaken, VehicleError, Refuse, Publish, Send, OutcomeAt, Flushed, Crash,
     InsertRecord, InsertError
<1>4. CASE VehicleFree(i) \/ VehicleUnknown(i)
  BY <1>2, <1>4 DEF VehicleFree, VehicleUnknown, StartCounting
<1>5. CASE Unlocked(i) \/ InsertRepeated(i) \/ \E o \in Outcome : TransmitError(i, o)
  BY <1>2, <1>5 DEF Unlocked, InsertRepeated, TransmitError, Counting
<1>6. ASSUME NEW t \in Segment, LockSegment(i, t) PROVE FALSE
  BY <1>2, <1>6 DEF LockSegment
<1>7. ASSUME NEW t \in Segment,
             LockContention(i, t) \/ SegmentFull(i, t) \/ RedisError(i, t)
      PROVE  FALSE
  BY <1>2, <1>7 DEF LockContention, SegmentFull, RedisError, Refuse
<1>8. ASSUME NEW t \in Segment, SegmentHasRoom(i, t) PROVE FALSE
  BY <1>2, <1>8 DEF SegmentHasRoom
<1>9. ASSUME NEW t \in Segment, Unlock(i, t) \/ UnlockError(i, t)
      PROVE  i \in Counting(s)
  BY <1>2, <1>9 DEF Unlock, UnlockError, Counting
<1>10. ASSUME NEW t \in Segment, IncrSegment(i, t), t # s
       PROVE  i \in Counting(s)
  BY <1>2, <1>10 DEF IncrSegment, Counting
<1>11. QED
  BY <1>3, <1>4, <1>5, <1>6, <1>7, <1>8, <1>9, <1>10 DEF WorkOn, FailAt

(* The others count for what they counted before.                          *)
LEMMA CountingMoves ==
    ASSUME TypeOK, NEW i \in Instance, WorkOn(i) \/ FailAt(i), NEW s \in Segment
    PROVE  /\ Counting(s)' \subseteq Counting(s) \cup {i}
           /\ ~IncrSegment(i, s) => Counting(s)' \subseteq Counting(s)
<1>1. ASSUME NEW j \in Instance, j # i, j \in Counting(s)' PROVE j \in Counting(s)
  <2>1. pc'[j] = pc[j] /\ msg'[j] = msg[j] /\ todo'[j] = todo[j]
    BY <1>1, OthersUntouched DEF Touches
  <2>2. verdict'[j] = verdict[j]
    BY <1>1, OtherVerdicts
  <2>3. QED
    BY <1>1, <2>1, <2>2 DEF Counting, SegmentsAt, BookingAt
<1>2. Counting(s)' \subseteq Instance
  BY DEF Counting
<1>3. QED
  BY <1>1, <1>2, WhoIsCounting

(* Workers lower no counter.                                               *)
LEMMA WorkersCountUp ==
    ASSUME TypeOK, NEW i \in Instance, WorkOn(i) \/ FailAt(i), NEW s \in Segment
    PROVE  /\ current'[s] \in Nat /\ current[s] \in Nat /\ current[s] <= current'[s]
           /\ IncrSegment(i, s) => current'[s] = current[s] + 1
<1> USE DEF TypeOK, redisVars
<1>1. ASSUME NEW t \in Segment, IncrSegment(i, t) \/ RedisError(i, t)
      PROVE  UNCHANGED current \/ CountIn(t)
  BY <1>1 DEF IncrSegment, RedisError
<1>2. \/ UNCHANGED current
      \/ \E t \in Segment : CountIn(t)
  BY <1>1 DEF WorkOn, FailAt, DedupSkip, DedupNew, StartValidation, VehicleFree,
     StartCounting, VehicleTaken, Refuse, Unlocked, InsertRecord, Publish, Send, OutcomeAt,
     Flushed, LockSegment, LockContention, SegmentHasRoom, SegmentFull, Unlock, Crash,
     DedupUnavailable, VehicleUnknown, VehicleError, InsertError, InsertRepeated,
     UnlockError, TransmitError
<1>3. \/ UNCHANGED current
      \/ \E t \in Segment : current' = [current EXCEPT ![t] = @ + 1]
  BY <1>2 DEF CountIn
<1>4. IncrSegment(i, s) => current' = [current EXCEPT ![s] = @ + 1]
  BY DEF IncrSegment, CountIn
<1>5. /\ current'[s] \in Nat /\ current[s] \in Nat
      /\ current[s] <= current'[s]
  BY <1>3
<1>6. IncrSegment(i, s) => current'[s] = current[s] + 1
  BY <1>4
<1>7. QED
  BY <1>5, <1>6

(* A worker that does not meet a failing database keeps the counters at    *)
(* least as high as the records.                                           *)
LEMMA WorkerKeepsCounted ==
    ASSUME Counted, "db_write" \notin FaultKinds,
           NEW i \in Instance, WorkOn(i) \/ FailAt(i), NEW s \in Segment
    PROVE  CountedAt(s)'
<1> USE DEF Counted
<1>1. CountedAt(s) /\ TypeOK
  OBVIOUS
<1>2. UNCHANGED records \/ InsertRecord(i)
  BY WhatIsStored DEF InsertError, InsertRepeated, Fault
<1>3. CASE UNCHANGED records /\ ~IncrSegment(i, s)
  BY <1>1, <1>3, CountedStays, CountingMoves, WorkersCountUp, ApprovedUnchanged
<1>4. CASE UNCHANGED records /\ IncrSegment(i, s)
  <2>1. i \notin Counting(s)
    BY <1>4 DEF Counting, IncrSegment, IsFirst
  <2>2. /\ IsFiniteSet(Counting(s) \cup {i})
        /\ Cardinality(Counting(s) \cup {i}) = Cardinality(Counting(s)) + 1
    BY <1>1, <2>1, FS_AddElement DEF CountedAt
  <2>3. /\ IsFiniteSet(Counting(s)')
        /\ Cardinality(Counting(s)') <= Cardinality(Counting(s)) + 1
    BY <1>1, <2>2, CountingMoves, FS_Subset
  <2>4. ApprovedOn(s)' = ApprovedOn(s)
    BY <1>4, ApprovedUnchanged
  <2>5. /\ Cardinality(Counting(s)') \in Nat
        /\ Cardinality(Counting(s)) \in Nat
        /\ Cardinality(ApprovedOn(s)) \in Nat
    BY <1>1, <2>3, FS_CardinalityType DEF CountedAt
  <2>6. current'[s] = current[s] + 1 /\ current[s] \in Nat
    BY <1>1, <1>4, WorkersCountUp
  <2>7. QED
    BY <1>1, <2>3, <2>4, <2>5, <2>6 DEF CountedAt
<1>5. CASE InsertRecord(i)
  <2>1. BookingAt(i) \in Booking /\ pc[i] = "insert" /\ pc'[i] = "publish"
    BY <1>1, <1>5 DEF InsertRecord, BookingAt, TypeOK, Goto
  <2>2. AddRecord(BookingAt(i), verdict[i])
    BY <1>5 DEF InsertRecord
  <2>3. ~IncrSegment(i, s)
    BY <2>1 DEF IncrSegment
  <2>4. CASE verdict[i] = "APPROVED" /\ s \in SegmentsAt(i)
    <3>1. i \in Counting(s) /\ i \notin Counting(s)'
      BY <2>1, <2>4 DEF Counting
    <3>2. Counting(s)' \subseteq Counting(s) \ {i}
      BY <1>1, <2>3, <3>1, CountingMoves
    <3>3. /\ IsFiniteSet(Counting(s) \ {i})
          /\ Cardinality(Counting(s) \ {i}) = Cardinality(Counting(s)) - 1
      BY <1>1, <3>1, FS_RemoveElement DEF CountedAt
    <3>4. /\ IsFiniteSet(Counting(s)')
          /\ Cardinality(Counting(s)') <= Cardinality(Counting(s)) - 1
      BY <3>2, <3>3, FS_Subset
    <3>5. PICK x : ApprovedOn(s)' = ApprovedOn(s) \cup {x}
      BY <1>1, <2>1, <2>2, <2>4, InsertAdds DEF SegmentsAt
    <3>6. /\ IsFiniteSet(ApprovedOn(s)')
          /\ Cardinality(ApprovedOn(s)') <= Cardinality(ApprovedOn(s)) + 1
      <4>1. /\ IsFiniteSet(ApprovedOn(s) \cup {x})
            /\ \/ Cardinality(ApprovedOn(s) \cup {x}) = Cardinality(ApprovedOn(s))
               \/ Cardinality(ApprovedOn(s) \cup {x}) = Cardinality(ApprovedOn(s)) + 1
        BY <1>1, FS_AddElement DEF CountedAt
      <4>2. Cardinality(ApprovedOn(s)) \in Nat
        BY <1>1, FS_CardinalityType DEF CountedAt
      <4>3. QED
        BY <3>5, <4>1, <4>2
    <3>7. /\ Cardinality(Counting(s)') \in Nat
          /\ Cardinality(Counting(s)) \in Nat
          /\ Cardinality(ApprovedOn(s)) \in Nat
          /\ Cardinality(ApprovedOn(s)') \in Nat
      BY <1>1, <3>4, <3>6, FS_CardinalityType DEF CountedAt
    <3>8. current'[s] \in Nat /\ current[s] \in Nat /\ current[s] <= current'[s]
      BY <1>1, WorkersCountUp
    <3>9. QED
      BY <1>1, <3>4, <3>6, <3>7, <3>8 DEF CountedAt
  <2>5. CASE ~(verdict[i] = "APPROVED" /\ s \in SegmentsAt(i))
    <3>1. ApprovedOn(s)' = ApprovedOn(s)
      BY <1>1, <2>1, <2>2, <2>5, InsertAdds DEF SegmentsAt
    <3>2. QED
      BY <1>1, <2>3, <3>1, CountedStays, CountingMoves, WorkersCountUp
  <2>6. QED
    BY <2>4, <2>5
<1>6. QED
  BY <1>2, <1>3, <1>4, <1>5

(* Without releases, nothing else moves counters or records.               *)
LEMMA RestKeepsCounted ==
    ASSUME Counted,
           \/ \E i \in Instance : Consume(i) \/ CommitOffsets(i) \/ Produce(i)
           \/ \E s \in Segment : ExpireLock(s)
           \/ ReleaseStep
           \/ RestartReleases
           \/ UNCHANGED vars,
           NEW s \in Segment
    PROVE  CountedAt(s)'
<1> USE DEF Counted, TypeOK, vars, requestVars, workerVars, redisVars, outcomeVars,
   releaseVars
<1>1. ~TakeRelease /\ \A t \in Segment : ~ReleaseSegment(t)
  BY DEF TakeRelease, ReleaseSegment, NothingReleased
<1>2. UNCHANGED <<current, records>>
  BY <1>1 DEF Consume, Deliver, CommitOffsets, ExpireLock, Produce, Transmit, ReleaseStep,
     CommitReleases, RestartReleases
<1>3. Counting(s)' \subseteq Counting(s)
  <2>1. ASSUME NEW i \in Instance, NEW m \in Message, Deliver(i, m)
        PROVE  Counting(s)' \subseteq Counting(s)
    BY <2>1 DEF Deliver, Goto, Counting, SegmentsAt, BookingAt
  <2>2. CASE UNCHANGED workerVars
    BY <2>2 DEF Counting, SegmentsAt, BookingAt
  <2>3. QED
    BY <1>1, <2>1, <2>2 DEF Consume, CommitOffsets, ExpireLock, Produce, Transmit,
       ReleaseStep, CommitReleases, RestartReleases
<1>4. CountedAt(s) /\ current[s] \in Nat
  OBVIOUS
<1>5. ApprovedOn(s)' = ApprovedOn(s)
  BY <1>2, ApprovedUnchanged
<1> HIDE DEF Counted, TypeOK, vars, requestVars, workerVars, redisVars, outcomeVars,
releaseVars
<1>6. current'[s] \in Nat /\ current[s] <= current'[s]
  BY <1>2, <1>4
<1>7. QED
  BY <1>3, <1>4, <1>5, <1>6, CountedStays

(* Every step of the service by itself keeps the counts.                   *)
LEMMA StepKeepsCounted ==
    ASSUME Counted, "db_write" \notin FaultKinds, [Next]_vars
    PROVE  Counted'
<1>1. TypeOK'
  BY StepKeepsTypes DEF Counted, OpenNext
<1>2. NothingReleased'
  <2> USE DEF Counted, NothingReleased, releaseVars
  <2>1. ASSUME NEW i \in Instance, WorkOn(i) \/ FailAt(i) PROVE UNCHANGED releaseVars
    BY <2>1 DEF WorkOn, FailAt, DedupSkip, DedupNew, StartValidation, VehicleFree,
       StartCounting, VehicleTaken, Refuse, Unlocked, InsertRecord, Publish, Send,
       OutcomeAt, Flushed, LockSegment, LockContention, SegmentHasRoom, SegmentFull,
       IncrSegment, Unlock, Crash, DedupUnavailable, VehicleUnknown, VehicleError,
       InsertError, InsertRepeated, RedisError, UnlockError, TransmitError
  <2>2. ~TakeRelease
    BY DEF TakeRelease, TypeOK
  <2>3. QED
    BY <2>1, <2>2 DEF Next, Consume, Deliver, CommitOffsets, ExpireLock, Produce, Transmit,
       ReleaseStep, CommitReleases, ReleaseSegment, RestartReleases, vars
<1>3. \A s \in Segment : CountedAt(s)'
  BY WorkerKeepsCounted, RestKeepsCounted DEF Next
<1>4. QED
  BY <1>1, <1>2, <1>3 DEF Counted

(* Whatever crashes, is delivered again, expires or goes unanswered by     *)
(* Redis: as long as inserts succeed, a counter is never below the number  *)
(* of approved records on its segment, even when locks outlive their TTL.  *)
THEOREM ApprovalsAreCounted ==
    ASSUME "db_write" \notin FaultKinds
    PROVE  Spec => []ApprovedIsCounted
<1>1. Init => Counted
  <2> SUFFICES ASSUME Init PROVE Counted
    OBVIOUS
  <2>1. \A s \in Segment : Counting(s) = {}
    BY DEF Init, Counting
  <2>2. \A s \in Segment : ApprovedOn(s) = {}
    BY ApprovedRecords DEF Init
  <2>3. ASSUME NEW s \in Segment PROVE CountedAt(s)
    <3>1. current[s] = 0
      BY DEF Init
    <3>2. IsFiniteSet({}) /\ Cardinality({}) = 0
      BY FS_EmptySet
    <3>3. ApprovedOn(s) = {} /\ Counting(s) = {}
      BY <2>1, <2>2
    <3>4. QED
      BY <3>1, <3>2, <3>3 DEF CountedAt
  <2>4. QED
    BY <2>3, InitTypes DEF Init, Counted, NothingReleased
<1>2. Counted /\ [Next]_vars => Counted'
  BY StepKeepsCounted
<1>3. Counted => ApprovedIsCounted
  <2> SUFFICES ASSUME Counted, NEW s \in Segment
               PROVE  Cardinality(ApprovedOn(s)) <= current[s]
    BY DEF ApprovedIsCounted
  <2>1. /\ Cardinality(ApprovedOn(s)) \in Nat
        /\ Cardinality(Counting(s)) \in Nat
        /\ current[s] \in Nat
    BY FS_CardinalityType DEF Counted, CountedAt, TypeOK
  <2>2. QED
    BY <2>1 DEF Counted, CountedAt
<1>4. QED
  BY <1>1, <1>2, <1>3, PTL DEF Spec

-----------------------------------------------------------------------------
(* Why VerdictStands and OneVerdict hold.  A message is in one place at a  *)
(* time, so no two instances work on one booking; and whoever works on a   *)
(* direct booking beyond the dedup does so before any outcome of it, or    *)
(* before any record, unless the record's status was overwritten.          *)
Custody ==
    /\ \A i \in Instance : msg[i] \in Message =>
          /\ msg[i] \notin pending
          /\ \A j \in Instance : /\ msg[i] \notin processed[j]
                                 /\ i # j => msg[i] # msg[j]
    /\ \A i \in Instance : processed[i] \cap pending = {}
    /\ \A i, j \in Instance : i # j => processed[i] \cap processed[j] = {}

Direct(b) == b \notin SubBooking /\ SegmentsOf[b] # {}

Unroutable(b) == b \notin SubBooking /\ SegmentsOf[b] = {}

AnswerSent(b) == \E o \in sent : o.booking = b

DecidesOnce(i) ==
    /\ verdict[i] # "UNWRITTEN" /\ pc[i] # "flush"
    /\ pc[i] # "poll" =>
        /\ Unroutable(BookingAt(i)) =>
              /\ pc[i] \in {"dedup", "publish"}
              /\ pc[i] = "publish" => verdict[i] # "APPROVED"
        /\ Direct(BookingAt(i)) =>
              /\ pc[i] \in {"unlock", "insert"} => verdict[i] # "ERROR"
              /\ pc[i] = "publish" => records[BookingAt(i)] # <<>>
              /\ ~Overwritten(BookingAt(i)) =>
                    /\ pc[i] # "dedup" => ~AnswerSent(BookingAt(i))
                    /\ pc[i] \notin {"dedup", "publish"} => records[BookingAt(i)] = <<>>

AnsweredIsRecorded == \A b \in Booking : Direct(b) /\ AnswerSent(b) => records[b] # <<>>

NoRouteNoApproval ==
    \A o \in sent : Unroutable(o.booking) => o.outcome = "REJECTED"

DecidedOnce ==
    /\ TypeOK
    /\ Custody
    /\ \A i \in Instance : DecidesOnce(i)
    /\ AnsweredIsRecorded
    /\ NoRouteNoApproval
    /\ VerdictStands

(* Each booking was asked for by one message: the producers name no        *)
(* partition key, so two requests of one booking may be in two hands.      *)
OneMessageEach == \A m, n \in Message : BookingOf[m] = BookingOf[n] => m = n

(* Instances and consumer threads may crash and outcomes may be lost on    *)
(* their way; Redis and MongoDB answer.                                    *)
CrashesOnly == FaultKinds \subseteq {"crash", "send", "release_consumer"}

(* What a step of an instance does with messages: it keeps its message, or *)
(* files it as processed, or crashes and hands everything back.            *)
LEMMA MessagesMove ==
    ASSUME TypeOK, NEW i \in Instance, WorkOn(i) \/ FailAt(i)
    PROVE  \/ UNCHANGED <<pending, processed, msg>>
           \/ /\ pc[i] # "poll"
              /\ pending' = pending
              /\ processed' = [processed EXCEPT ![i] = @ \cup {msg[i]}]
              /\ msg' = [msg EXCEPT ![i] = NoMessage]
           \/ /\ pending' = (pending \cup processed[i] \cup {msg[i]}) \ {NoMessage}
              /\ processed' = [processed EXCEPT ![i] = {}]
              /\ msg' = [msg EXCEPT ![i] = NoMessage]
<1>1. CASE DedupSkip(i) \/ Publish(i) \/ Flushed(i)
  BY <1>1 DEF DedupSkip, Publish, Flushed, Finish, requestVars
<1>2. CASE Crash(i)
  BY <1>2 DEF Crash
<1>3. CASE ~DedupSkip(i) /\ ~Publish(i) /\ ~Flushed(i) /\ ~Crash(i)
  BY <1>3 DEF requestVars, workerVars, WorkOn, FailAt, DedupNew, StartValidation,
     VehicleFree, StartCounting, VehicleTaken, Refuse, Unlocked, InsertRecord, LockSegment,
     LockContention, SegmentHasRoom, SegmentFull, IncrSegment, Unlock, DedupUnavailable,
     VehicleUnknown, VehicleError, InsertError, InsertRepeated, RedisError, UnlockError,
     TransmitError
<1>4. QED
  BY <1>1, <1>2, <1>3

(* Hence a message stays in one place.                                     *)
LEMMA CustodyKept ==
    ASSUME TypeOK, Custody, [OpenNext]_vars
    PROVE  Custody'
<1> USE DEF TypeOK, Custody
<1>1. ASSUME NEW i \in Instance, WorkOn(i) \/ FailAt(i) PROVE Custody'
  <2>1. CASE UNCHANGED <<pending, processed, msg>>
    BY <2>1
  <2>2. CASE /\ pc[i] # "poll"
             /\ pending' = pending
             /\ processed' = [processed EXCEPT ![i] = @ \cup {msg[i]}]
             /\ msg' = [msg EXCEPT ![i] = NoMessage]
    BY <2>2
  <2>3. CASE /\ pending' = (pending \cup processed[i] \cup {msg[i]}) \ {NoMessage}
             /\ processed' = [processed EXCEPT ![i] = {}]
             /\ msg' = [msg EXCEPT ![i] = NoMessage]
    BY <2>3
  <2>4. QED
    BY <1>1, <2>1, <2>2, <2>3, MessagesMove
<1>2. ASSUME NEW i \in Instance, NEW m \in Message, Deliver(i, m) PROVE Custody'
  BY <1>2 DEF Deliver
<1>3. ASSUME NEW i \in Instance, CommitOffsets(i) PROVE Custody'
  BY <1>3 DEF CommitOffsets, workerVars
<1>4. CASE UNCHANGED <<pending, processed, msg>>
  BY <1>4
<1>5. QED
  BY <1>1, <1>2, <1>3, <1>4 DEF OpenNext, Environment, SendRelease, SetStatus, Next,
     Consume, ExpireLock, Produce, Transmit, ReleaseStep, TakeRelease, CommitReleases,
     ReleaseSegment, RestartReleases, vars, requestVars, workerVars

(* Two instances at work have two bookings.                                *)
LEMMA BookingsApart ==
    ASSUME TypeOK, Custody, OneMessageEach, NEW i \in Instance, NEW j \in Instance,
           i # j, pc[i] # "poll", pc[j] # "poll"
    PROVE  BookingAt(i) # BookingAt(j)
BY DEF TypeOK, Custody, OneMessageEach, BookingAt

(* The faults left are crashes and lost outcomes.                          *)
LEMMA OnlyCrashes ==
    ASSUME CrashesOnly, NEW i \in Instance, FailAt(i)
    PROVE  Crash(i) \/ \E o \in Outcome : TransmitError(i, o)
BY DEF CrashesOnly, FailAt, DedupUnavailable, VehicleUnknown, VehicleError, InsertError,
   InsertRepeated, RedisError, UnlockError, Fault

(* The oldest record of a booking has one of the statuses that the dedup   *)
(* knows, or one that a handler has written.                               *)
LEMMA DedupKnows ==
    ASSUME TypeOK, NEW b \in Booking, records[b] # <<>>
    PROVE  AlreadyProcessed(b) \/ Overwritten(b)
<1>1. records[b] \in Seq(Status)
  BY DEF TypeOK
<1>2. Head(records[b]) \in Status
  BY <1>1
<1>3. QED
  BY <1>2 DEF Status, AlreadyProcessed, Overwritten

(* An instance only adds records behind the oldest one: what it finds      *)
(* overwritten stays so, and it overwrites nothing itself.                 *)
LEMMA WorkersKeepHeads ==
    ASSUME TypeOK, NEW i \in Instance, WorkOn(i) \/ FailAt(i), NEW b \in Booking
    PROVE  Overwritten(b)' <=> Overwritten(b)
<1>1. CASE UNCHANGED records
  BY <1>1 DEF Overwritten
<1>2. ASSUME AddRecord(BookingAt(i), verdict[i]), BookingAt(i) \in Booking
      PROVE  Overwritten(b)' <=> Overwritten(b)
  <2> DEFINE st == StatusFor(verdict[i])
  <2>1. st \in Status /\ st \notin {"cancelled", "flagged"}
    BY DEF StatusFor, Status
  <2>2. records[b] \in Seq(Status)
    BY DEF TypeOK
  <2>3. records'[b] = records[b] \/ records'[b] = Append(records[b], st)
    BY <1>2 DEF AddRecord, TypeOK
  <2> HIDE DEF st
  <2>4. records[b] = <<>> => Head(Append(records[b], st)) = st
    BY <2>1, <2>2
  <2>5. records[b] # <<>> => Head(Append(records[b], st)) = Head(records[b])
    BY <2>1, <2>2
  <2>6. Append(records[b], st) # <<>>
    BY <2>1, <2>2, AppendNotEmpty
  <2>7. QED
    BY <2>1, <2>3, <2>4, <2>5, <2>6 DEF Overwritten
<1>3. ASSUME InsertRecord(i) \/ InsertError(i) \/ InsertRepeated(i)
      PROVE  /\ BookingAt(i) \in Booking
             /\ AddRecord(BookingAt(i), verdict[i]) \/ UNCHANGED records
  BY <1>3 DEF TypeOK, InsertRecord, InsertError, InsertRepeated, BookingAt
<1>4. QED
  BY <1>1, <1>2, <1>3, WhatIsStored

(* One instance decides without disturbing another.                        *)
LEMMA OthersDecide ==
    ASSUME DecidedOnce, OneMessageEach, CrashesOnly,
           NEW i \in Instance, WorkOn(i) \/ FailAt(i), NEW j \in Instance, j # i
    PROVE  DecidesOnce(j)'
<1> SUFFICES ASSUME pc'[j] # "poll" PROVE DecidesOnce(j)'
  BY OthersUntouched, OtherVerdicts DEF DecidesOnce, DecidedOnce, Touches
<1> DEFINE b == BookingAt(j)
<1>1. /\ pc'[j] = pc[j] /\ msg'[j] = msg[j] /\ verdict'[j] = verdict[j]
      /\ BookingAt(j)' = b /\ b \in Booking
  <2>1. pc'[j] = pc[j] /\ msg'[j] = msg[j]
    BY OthersUntouched DEF Touches, DecidedOnce
  <2>2. verdict'[j] = verdict[j]
    BY OtherVerdicts DEF DecidedOnce
  <2>3. BookingAt(j)' = b /\ b \in Booking
    BY <2>1 DEF BookingAt, DecidedOnce, TypeOK
  <2>4. QED
    BY <2>1, <2>2, <2>3
<1>2. records'[b] = records[b]
  <2>1. ASSUME InsertRecord(i) PROVE records'[b] = records[b]
    <3>1. BookingAt(i) # b
      BY <1>1, <2>1, BookingsApart DEF DecidedOnce, InsertRecord
    <3>2. QED
      BY <1>1, <2>1, <3>1 DEF InsertRecord, AddRecord, DecidedOnce, TypeOK
  <2>2. QED
    BY <2>1, WhatIsStored DEF InsertError, InsertRepeated, CrashesOnly, Fault
<1>3. (AnswerSent(b))' => AnswerSent(b)
  <2>1. ASSUME Publish(i), NEW o \in sent', o.booking = b PROVE AnswerSent(b)
    <3>1. BookingAt(i) # b
      BY <1>1, <2>1, BookingsApart DEF DecidedOnce, Publish, Send, OutcomeAt, Flushed
    <3>2. QED
      BY <2>1, <3>1 DEF Publish, Send, OutcomeAt, Flushed, AnswerSent
  <2>2. QED
    BY <1>1, <2>1, WhatIsStored DEF AnswerSent
<1>4. DecidesOnce(j)
  BY DEF DecidedOnce
<1> HIDE DEF b
<1>5. QED
  BY <1>1, <1>2, <1>3, <1>4 DEF DecidesOnce, Overwritten, b

(* The instance that moves decides its direct booking at most once.        *)
LEMMA WorkerDecides ==
    ASSUME DecidedOnce, CrashesOnly, NEW i \in Instance, WorkOn(i) \/ FailAt(i)
    PROVE  DecidesOnce(i)'
<1> USE DEF Goto, workerVars, redisVars, outcomeVars
<1> DEFINE b == BookingAt(i)
<1>1. TypeOK /\ DecidesOnce(i) /\ AnsweredIsRecorded
  BY DEF DecidedOnce
<1>2. CASE DedupSkip(i) \/ Publish(i) \/ Flushed(i) \/ Crash(i)
  BY <1>1, <1>2 DEF DedupSkip, Publish, Send, OutcomeAt, Flushed, Crash, Finish,
     DecidesOnce, TypeOK
<1>3. ASSUME msg' = msg, pc[i] # "poll" PROVE BookingAt(i)' = b /\ b \in Booking
  BY <1>1, <1>3 DEF BookingAt, TypeOK
<1>4. CASE DedupNew(i)
  <2>1. BookingAt(i)' = b /\ b \in Booking /\ UNCHANGED <<records, sent>>
    BY <1>3, <1>4 DEF DedupNew, StartValidation
  <2>2. \/ pc'[i] = "lock" /\ SegmentsOf[b] # {}
        \/ pc'[i] = "publish" /\ verdict'[i] = "ERROR" /\ SegmentsOf[b] = {}
    BY <1>1, <1>4 DEF DedupNew, StartValidation, SegmentsAt, TypeOK
  <2>3. verdict'[i] # "UNWRITTEN"
    BY <1>1, <1>4 DEF DedupNew, StartValidation, DecidesOnce, TypeOK
  <2>4. Direct(b) /\ ~Overwritten(b) => records[b] = <<>> /\ ~AnswerSent(b)
    BY <1>1, <1>4, <2>1, DedupKnows DEF DedupNew, AnsweredIsRecorded
  <2>5. QED
    BY <2>1, <2>2, <2>3, <2>4 DEF DecidesOnce, Direct, Unroutable, AnswerSent, Overwritten
<1>5. CASE \/ VehicleFree(i) \/ VehicleTaken(i)
           \/ \E s \in Segment : \/ LockSegment(i, s) \/ LockContention(i, s)
                                 \/ SegmentHasRoom(i, s) \/ SegmentFull(i, s)
                                 \/ IncrSegment(i, s) \/ Unlock(i, s)
  <2>1. /\ BookingAt(i)' = b /\ b \in Booking /\ UNCHANGED <<records, sent>>
        /\ pc[i] \in {"lock", "check", "vehicle", "incr", "unlock"}
        /\ pc'[i] \in {"lock", "check", "vehicle", "incr", "unlock"}
    BY <1>1, <1>3, <1>5 DEF VehicleFree, StartCounting, VehicleTaken, Refuse, LockSegment,
       LockContention, SegmentHasRoom, SegmentFull, IncrSegment, Unlock, TypeOK
  <2>2. pc'[i] = "unlock" => \/ verdict'[i] \in {"APPROVED", "REJECTED"}
                             \/ pc[i] = "unlock" /\ verdict'[i] = verdict[i]
    BY <1>1, <1>5 DEF VehicleFree, StartCounting, VehicleTaken, Refuse, LockSegment,
       LockContention, SegmentHasRoom, SegmentFull, IncrSegment, Unlock, TypeOK
  <2>3. verdict'[i] # "UNWRITTEN"
    BY <1>1, <1>5 DEF VehicleFree, StartCounting, VehicleTaken, Refuse, LockSegment,
       LockContention, SegmentHasRoom, SegmentFull, IncrSegment, Unlock, TypeOK, DecidesOnce
  <2>4. QED
    BY <1>1, <2>1, <2>2, <2>3 DEF DecidesOnce, AnswerSent, Overwritten
<1>6. CASE Unlocked(i)
  <2>1. /\ BookingAt(i)' = b /\ UNCHANGED <<records, sent, verdict>> /\ pc[i] = "unlock"
        /\ pc'[i] = IF verdict[i] = "ERROR" \/ b \in SubBooking THEN "publish" ELSE "insert"
    BY <1>1, <1>3, <1>6 DEF Unlocked, TypeOK
  <2>2. QED
    BY <1>1, <2>1 DEF DecidesOnce, Direct, Unroutable, AnswerSent, Overwritten
<1>7. CASE InsertRecord(i)
  <2>1. /\ BookingAt(i)' = b /\ UNCHANGED <<sent, verdict>> /\ b \in Booking
        /\ pc[i] = "insert" /\ pc'[i] = "publish"
    BY <1>1, <1>3, <1>7 DEF InsertRecord, TypeOK
  <2>2. /\ records[b] \in Seq(Status) /\ StatusFor(verdict[i]) \in Status
        /\ records'[b] = Append(records[b], StatusFor(verdict[i]))
    BY <1>1, <1>7, <2>1 DEF InsertRecord, AddRecord, StatusFor, Status, TypeOK
  <2>3. records'[b] # <<>>
    BY <2>2, AppendNotEmpty
  <2>4. Overwritten(b)' <=> Overwritten(b)
    BY <1>1, <2>1, WorkersKeepHeads
  <2>5. BookingAt(i)' = b /\ AnswerSent(b)' = AnswerSent(b)
    BY <2>1 DEF AnswerSent
  <2>6. Overwritten(BookingAt(i))' <=> Overwritten(b)
    BY <2>4, <2>5 DEF Overwritten
  <2>7. QED
    BY <1>1, <2>1, <2>3, <2>5, <2>6 DEF DecidesOnce, Direct, Unroutable, AnswerSent
<1>8. ASSUME NEW o \in Outcome, TransmitError(i, o) PROVE DecidesOnce(i)'
  <2>1. UNCHANGED <<pc, msg, verdict, records, sent>>
    BY <1>8 DEF TransmitError
  <2>2. QED
    BY <1>1, <2>1 DEF DecidesOnce, BookingAt, AnswerSent, Overwritten
<1>9. QED
  BY <1>2, <1>4, <1>5, <1>6, <1>7, <1>8, OnlyCrashes DEF WorkOn

(* Every outcome of a direct booking was recorded before.                  *)
LEMMA WorkerKeepsAnsweredRecorded ==
    ASSUME DecidedOnce, NEW i \in Instance, WorkOn(i) \/ FailAt(i)
    PROVE  AnsweredIsRecorded'
<1> SUFFICES ASSUME NEW b \in Booking, Direct(b), AnswerSent(b)'
             PROVE  records'[b] # <<>>
  BY DEF AnsweredIsRecorded, Direct
<1>1. /\ TypeOK /\ DecidesOnce(i)
      /\ AnswerSent(b) => records[b] # <<>>
  BY DEF DecidedOnce, AnsweredIsRecorded
<1>2. AnswerSent(b) \/ (Publish(i) /\ BookingAt(i) = b)
  <2>1. CASE UNCHANGED sent
    BY <2>1 DEF AnswerSent
  <2>2. CASE Publish(i)
    BY <2>2 DEF Publish, Send, OutcomeAt, Flushed, AnswerSent
  <2>3. QED
    BY <2>1, <2>2, WhatIsStored
<1>3. records[b] # <<>>
  BY <1>1, <1>2 DEF DecidesOnce, Publish, Send, OutcomeAt, Flushed
<1>4. QED
  <2>1. [OpenNext]_vars
    BY DEF OpenNext, Next
  <2>2. QED
    BY <1>1, <1>3, <2>1, RecordsOnlyGrow

(* What is published agrees with what was published before.                *)
LEMMA WorkerKeepsVerdictStands ==
    ASSUME DecidedOnce, NEW i \in Instance, WorkOn(i) \/ FailAt(i)
    PROVE  NoRouteNoApproval' /\ VerdictStands'
<1>1. TypeOK /\ DecidesOnce(i) /\ NoRouteNoApproval /\ VerdictStands
  BY DEF DecidedOnce
<1>2. ASSUME NEW b \in Booking PROVE Overwritten(b)' <=> Overwritten(b)
  BY <1>1, WorkersKeepHeads
<1>3. \A o \in sent : o \in [booking : Booking, outcome : {"APPROVED", "REJECTED"}]
  BY <1>1 DEF TypeOK, Outcome
<1>4. CASE UNCHANGED sent
  BY <1>1, <1>2, <1>3, <1>4 DEF NoRouteNoApproval, VerdictStands, Unroutable
<1>5. CASE Publish(i)
  <2> DEFINE b == BookingAt(i)
             new == OutcomeAt(i)
  <2>1. sent' = sent \cup {new} /\ pc[i] = "publish" /\ b \in Booking
    BY <1>1, <1>5 DEF Publish, Send, OutcomeAt, Flushed, TypeOK, BookingAt
  <2>2. Unroutable(b) => new.outcome = "REJECTED"
    BY <1>1, <2>1 DEF DecidesOnce, OutcomeAt
  <2>3. ASSUME NEW o \in sent, o.booking = b, b \notin SubBooking, ~Overwritten(b)
        PROVE  o = new
    <3>1. ~Direct(b)
      BY <1>1, <2>1, <2>3 DEF DecidesOnce, AnswerSent
    <3>2. Unroutable(b)
      BY <2>3, <3>1 DEF Direct, Unroutable
    <3>3. o.outcome = "REJECTED"
      BY <1>1, <2>3, <3>2 DEF NoRouteNoApproval
    <3>4. QED
      BY <1>3, <2>2, <2>3, <3>2, <3>3 DEF OutcomeAt
  <2> HIDE DEF new
  <2>4. new.booking = b
    BY DEF new, OutcomeAt
  <2>5. NoRouteNoApproval'
    BY <1>1, <2>1, <2>2, <2>4 DEF NoRouteNoApproval, Unroutable
  <2>6. VerdictStands'
    <3> SUFFICES ASSUME NEW o \in sent', NEW q \in sent', o.booking = q.booking,
                        o.booking \notin SubBooking, ~Overwritten(o.booking)'
                 PROVE  o = q
      BY DEF VerdictStands
    <3>1. o.booking \in Booking /\ ~Overwritten(o.booking)
      BY <1>2, <1>3, <2>1, <2>4
    <3>2. CASE o \in sent /\ q \in sent
      BY <1>1, <3>1, <3>2 DEF VerdictStands
    <3>3. CASE o = new \/ q = new
      BY <2>1, <2>3, <2>4, <3>1, <3>3
    <3>4. QED
      BY <2>1, <3>2, <3>3
  <2>7. QED
    BY <2>5, <2>6
<1>6. QED
  BY <1>4, <1>5, WhatIsStored

(* What the neighbours do to a record marks it as overwritten.             *)
LEMMA NeighboursKeepDecided ==
    ASSUME DecidedOnce, Environment
    PROVE  /\ \A i \in Instance : DecidesOnce(i)'
           /\ AnsweredIsRecorded' /\ NoRouteNoApproval' /\ VerdictStands'
<1>1. UNCHANGED <<requestVars, workerVars, sent>>
  BY DEF Environment, SendRelease, SetStatus, outcomeVars
<1>2. ASSUME NEW b \in Booking
      PROVE  /\ records'[b] # <<>> <=> records[b] # <<>>
             /\ records'[b] = records[b] \/ Overwritten(b)'
  <2>1. CASE UNCHANGED records
    BY <2>1
  <2>2. ASSUME NEW c \in Booking, NEW st \in {"cancelled", "flagged"}, SetStatus(c, st)
        PROVE  /\ records'[b] # <<>> <=> records[b] # <<>>
               /\ records'[b] = records[b] \/ Overwritten(b)'
    <3>1. CASE c # b
      BY <2>2, <3>1 DEF SetStatus, DecidedOnce, TypeOK
    <3>2. CASE c = b
      <4>1. /\ records[b] \in Seq(Status) /\ records[b] # <<>> /\ st \in Status
            /\ records'[b] = [records[b] EXCEPT ![1] = st]
        BY <2>2, <3>2 DEF SetStatus, DecidedOnce, TypeOK, Status
      <4>2. records'[b] # <<>> /\ Head(records'[b]) = st
        BY <4>1
      <4>3. QED
        BY <4>1, <4>2 DEF Overwritten
    <3>3. QED
      BY <3>1, <3>2
  <2>3. QED
    BY <2>1, <2>2 DEF Environment, SendRelease
<1>3. ASSUME NEW b \in Booking PROVE Overwritten(b) => Overwritten(b)'
  BY <1>2 DEF Overwritten
<1>4. ASSUME NEW i \in Instance PROVE DecidesOnce(i)'
  <2> SUFFICES ASSUME pc[i] # "poll" PROVE DecidesOnce(i)'
    BY <1>1 DEF DecidesOnce, DecidedOnce, workerVars
  <2>1. /\ BookingAt(i) \in Booking /\ BookingAt(i)' = BookingAt(i) /\ DecidesOnce(i)
        /\ UNCHANGED <<pc, verdict>>
    BY <1>1 DEF DecidedOnce, TypeOK, BookingAt, workerVars
  <2>2. Overwritten(BookingAt(i))' \/ records'[BookingAt(i)] = records[BookingAt(i)]
    BY <1>2, <2>1 DEF Overwritten
  <2>3. QED
    BY <1>1, <1>2, <1>3, <2>1, <2>2 DEF DecidesOnce, AnswerSent, Overwritten
<1>5. \A o \in sent : o.booking \in Booking
  BY DEF DecidedOnce, TypeOK, Outcome
<1>6. QED
  BY <1>1, <1>2, <1>3, <1>4, <1>5
     DEF DecidedOnce, AnsweredIsRecorded, NoRouteNoApproval, VerdictStands, AnswerSent,
        Direct, Unroutable

(* Every step, of the service or of its neighbours, leaves bookings        *)
(* decided once.                                                           *)
LEMMA StepKeepsDecidedOnce ==
    ASSUME DecidedOnce, OneMessageEach, CrashesOnly, [OpenNext]_vars
    PROVE  DecidedOnce'
<1>1. TypeOK'
  BY StepKeepsTypes DEF DecidedOnce
<1>2. Custody'
  BY CustodyKept DEF DecidedOnce
<1>3. CASE \E i \in Instance : WorkOn(i) \/ FailAt(i)
  <2>1. PICK i \in Instance : WorkOn(i) \/ FailAt(i)
    BY <1>3
  <2>2. \A j \in Instance : DecidesOnce(j)'
    BY <2>1, WorkerDecides, OthersDecide
  <2>3. AnsweredIsRecorded' /\ NoRouteNoApproval' /\ VerdictStands'
    BY <2>1, WorkerKeepsAnsweredRecorded, WorkerKeepsVerdictStands
  <2>4. QED
    BY <1>1, <1>2, <2>2, <2>3 DEF DecidedOnce
<1>4. CASE Environment
  BY <1>1, <1>2, <1>4, NeighboursKeepDecided DEF DecidedOnce
<1>5. CASE [Next]_vars /\ ~\E i \in Instance : WorkOn(i) \/ FailAt(i)
  <2>1. UNCHANGED <<records, sent>>
    BY <1>5 DEF outcomeVars, Next, Consume, Deliver, CommitOffsets, ExpireLock, Produce,
       Transmit, ReleaseStep, TakeRelease, CommitReleases, ReleaseSegment, RestartReleases,
       vars
  <2>2. ASSUME NEW i \in Instance PROVE DecidesOnce(i)'
    <3>1. DecidesOnce(i)
      BY DEF DecidedOnce
    <3>2. ASSUME NEW j \in Instance, NEW m \in Message, Deliver(j, m)
          PROVE  DecidesOnce(i)'
      <4>1. CASE i = j
        BY <3>2, <4>1 DEF Deliver, Goto, DecidesOnce, DecidedOnce, TypeOK
      <4>2. CASE i # j
        <5>1. /\ pc'[i] = pc[i] /\ msg'[i] = msg[i] /\ verdict'[i] = verdict[i]
              /\ UNCHANGED <<records, sent>>
          BY <3>2, <4>2 DEF outcomeVars, Deliver, Goto, DecidedOnce, TypeOK
        <5>2. QED
          BY <3>1, <5>1 DEF DecidesOnce, BookingAt, AnswerSent, Overwritten
      <4>3. QED
        BY <4>1, <4>2
    <3>3. CASE UNCHANGED workerVars
      BY <2>1, <3>1, <3>3 DEF DecidesOnce, BookingAt, AnswerSent, Overwritten, workerVars
    <3>4. QED
      BY <1>5, <3>2, <3>3 DEF Next, Consume, CommitOffsets, ExpireLock, Produce, Transmit,
         ReleaseStep, TakeRelease, CommitReleases, ReleaseSegment, RestartReleases, vars
  <2>3. AnsweredIsRecorded' /\ NoRouteNoApproval' /\ VerdictStands'
    BY <2>1 DEF DecidedOnce, AnsweredIsRecorded, NoRouteNoApproval, VerdictStands,
       Overwritten, AnswerSent, Direct, Unroutable
  <2>4. QED
    BY <1>1, <1>2, <2>2, <2>3 DEF DecidedOnce
<1>6. QED
  BY <1>3, <1>4, <1>5 DEF OpenNext

(* The initial states have no record and no outcome.                       *)
LEMMA InitDecidedOnce == Init => DecidedOnce
  BY InitTypes DEF Init, DecidedOnce, Custody, DecidesOnce, AnsweredIsRecorded, AnswerSent,
     NoRouteNoApproval, VerdictStands

(* However often instances crash and their messages are delivered again,   *)
(* even when locks expire under them, and whatever journey-management and  *)
(* the authority service do to records: a direct booking that was asked    *)
(* for once has one verdict, unless its own status was overwritten.        *)
THEOREM VerdictsStand ==
    ASSUME OneMessageEach, CrashesOnly
    PROVE  OpenSpec => []VerdictStands
<1>1. DecidedOnce /\ [OpenNext]_vars => DecidedOnce'
  BY StepKeepsDecidedOnce
<1>2. DecidedOnce => VerdictStands
  BY DEF DecidedOnce
<1>3. QED
  BY InitDecidedOnce, <1>1, <1>2, PTL DEF OpenSpec

(* The service by itself overwrites no status: there every direct booking  *)
(* that was asked for once has one verdict.                                *)
THEOREM DirectBookingsAreDecidedOnce ==
    ASSUME OneMessageEach, CrashesOnly
    PROVE  Spec => []OneVerdict
<1> DEFINE Kept == DecidedOnce /\ \A b \in Booking : ~Overwritten(b)
<1>1. Init => Kept
  BY InitDecidedOnce DEF Init, Overwritten
<1>2. Kept /\ [Next]_vars => Kept'
  <2> SUFFICES ASSUME Kept, [Next]_vars PROVE Kept'
    OBVIOUS
  <2>1. DecidedOnce'
    BY StepKeepsDecidedOnce DEF OpenNext
  <2>2. ASSUME NEW b \in Booking PROVE ~Overwritten(b)'
    <3>1. CASE \E i \in Instance : WorkOn(i) \/ FailAt(i)
      BY <3>1, WorkersKeepHeads DEF DecidedOnce
    <3>2. CASE ~\E i \in Instance : WorkOn(i) \/ FailAt(i)
      <4>1. UNCHANGED records
        BY <3>2 DEF Next, Consume, Deliver, CommitOffsets, ExpireLock, Produce, Transmit,
           ReleaseStep, TakeRelease, CommitReleases, ReleaseSegment, RestartReleases, vars
      <4>2. QED
        BY <4>1 DEF Overwritten
    <3>3. QED
      BY <3>1, <3>2
  <2>3. QED
    BY <2>1, <2>2
<1>3. Kept => OneVerdict
  <2>1. DecidedOnce => \A o \in sent : o.booking \in Booking
    BY DEF DecidedOnce, TypeOK, Outcome
  <2>2. QED
    BY <2>1 DEF DecidedOnce, VerdictStands, OneVerdict
<1> HIDE DEF Kept
<1>4. QED
  BY <1>1, <1>2, <1>3, PTL DEF Spec

-----------------------------------------------------------------------------

(* DELETE requests name bookings.                                          *)
USE RequestAssumption

(* What a handler does to the region's stores, the region's open           *)
(* specification lets its environment do.                                  *)
LEMMA CancelStepIsOpenStep ==
    ASSUME [CancelNext]_cancelVars
    PROVE  [OpenNext]_vars
<1>1. ASSUME NEW r \in Request, Handle(r) PROVE [OpenNext]_vars
  <2>1. TargetOf[r] \in Booking
    OBVIOUS
  <2>2. CASE FindBooking(r)
    BY <2>2 DEF FindBooking
  <2>3. CASE CancelRecord(r)
    BY <2>1, <2>3 DEF CancelRecord, MarkCancelled, OpenNext, Environment
  <2>4. CASE PublishRelease(r)
    BY <2>1, <2>4 DEF PublishRelease, OpenNext, Environment
  <2>5. QED
    BY <1>1, <2>2, <2>3, <2>4 DEF Handle
<1>2. ASSUME NEW b \in Flaggable, FlagBooking(b) PROVE [OpenNext]_vars
  BY <1>2 DEF FlagBooking, OpenNext, Environment
<1>3. ASSUME NEW r \in Request, CancelRecordFails(r) \/ PublishReleaseFails(r)
      PROVE  UNCHANGED vars
  BY <1>3 DEF CancelRecordFails, PublishReleaseFails
<1>4. CASE Next
  BY <1>4 DEF OpenNext
<1>5. CASE UNCHANGED cancelVars
  BY <1>5 DEF cancelVars
<1>6. QED
  BY <1>1, <1>2, <1>3, <1>4, <1>5 DEF CancelNext

(* The composition implements Validation's open specification.             *)
THEOREM HandlersKeepContract == CancelSpec => ServiceContract
<1>1. CancelInit => Init
  BY DEF CancelInit
<1>2. [CancelNext]_cancelVars => [OpenNext]_vars
  BY CancelStepIsOpenStep
<1>3. QED
  BY <1>1, <1>2, PTL DEF CancelSpec, ServiceContract, OpenSpec

(* Cancelling and flagging only spoil the verdict of the booking that they *)
(* are about.                                                              *)
THEOREM CancellationLeavesVerdicts ==
    ASSUME OneMessageEach, CrashesOnly
    PROVE  CancelSpec => []VerdictStands
<1>1. OpenSpec => []VerdictStands
  BY VerdictsStand
<1>2. CancelSpec => OpenSpec
  BY HandlersKeepContract DEF ServiceContract
<1>3. QED
  BY <1>1, <1>2

(* Cancelling and flagging, raced or repeated at will, never pushes a      *)
(* counter over its capacity.  (It may leave it too low: cancel_journey    *)
(* releases a rejected booking as well.)                                   *)
THEOREM CancellationNeverOverbooks ==
    ASSUME LockMayExpire = FALSE
    PROVE  CancelSpec => []NoOverbooking
<1>1. OpenSpec => []NoOverbooking
  BY NeverOverbooked
<1>2. CancelSpec => OpenSpec
  BY HandlersKeepContract DEF ServiceContract
<1>3. QED
  BY <1>1, <1>2
=============================================================================
