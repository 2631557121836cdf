---------------------------- MODULE RebuildProofs ---------------------------
(***************************************************************************)
(* Proofs about Rebuild, for every set of watchdogs, bookings and segments *)
(* and any number of faults of every kind, up to MaxFaults in all.         *)
(***************************************************************************)
EXTENDS Rebuild, TLAPS, FiniteSetTheorems

(* The constants are as Rebuild assumes them.                              *)
USE RebuildAssumption

----------------------------------------------------------------------------
(* Types *)

(* Sets of bookings are finite.                                            *)
LEMMA BookingsAreCounted ==
    ASSUME NEW S, S \subseteq Booking
    PROVE  IsFiniteSet(S) /\ Cardinality(S) \in Nat
  BY FS_Subset, FS_CardinalityType

(* Of a finite set, fewer members are no more.                             *)
LEMMA FewerAreNoMore ==
    ASSUME NEW S, NEW T, IsFiniteSet(T), S \subseteq T
    PROVE  /\ IsFiniteSet(S)
           /\ Cardinality(S) \in Nat
           /\ Cardinality(T) \in Nat
           /\ Cardinality(S) <= Cardinality(T)
<1>1. IsFiniteSet(S) /\ Cardinality(S) <= Cardinality(T)
  BY FS_Subset
<1>2. QED
  BY <1>1, FS_CardinalityType

(* One more member is at most one more.                                    *)
LEMMA OneMoreMember ==
    ASSUME NEW S, IsFiniteSet(S), NEW e
    PROVE  /\ IsFiniteSet(S \cup {e})
           /\ e \notin S => Cardinality(S \cup {e}) = Cardinality(S) + 1
           /\ Cardinality(S \cup {e}) <= Cardinality(S) + 1
<1>1. Cardinality(S) \in Nat
  BY FS_CardinalityType
<1>2. /\ IsFiniteSet(S \cup {e})
      /\ Cardinality(S \cup {e}) = IF e \in S THEN Cardinality(S) ELSE Cardinality(S) + 1
  BY FS_AddElement
<1>3. QED
  BY <1>1, <1>2

(* A fault is one of the kinds, numbered within the bound.                 *)
LEMMA FaultTypes ==
    ASSUME NEW kind, Fault(kind), faults \subseteq AllFaults \X (1 .. MaxFaults)
    PROVE  faults' \subseteq AllFaults \X (1 .. MaxFaults)
<1>1. kind \in AllFaults
  BY DEF Fault
<1>2. PICK n \in 1 .. MaxFaults : faults' = faults \cup {<<kind, n>>}
  BY DEF Fault
<1>3. QED
  BY <1>1, <1>2

(* The initial state has its types: the counters are sizes of finite sets. *)
LEMMA InitTypes == Init => RebuildTypeOK
<1> SUFFICES ASSUME Init PROVE RebuildTypeOK
  OBVIOUS
<1>1. \A s \in Segment : Cardinality({b \in Booked : s \in SegmentsOf[b]}) \in Nat
  <2> TAKE s \in Segment
  <2>1. {b \in Booked : s \in SegmentsOf[b]} \subseteq Booking
    OBVIOUS
  <2>2. QED
    BY <2>1, BookingsAreCounted
<1>2. current \in [Segment -> Nat]
  BY <1>1 DEF Init
<1>3. QED
  BY <1>2 DEF Init, RebuildTypeOK

(* What the approved documents are, by the status of each booking and the  *)
(* number of documents behind the oldest.                                  *)
LEMMA DocumentsAre ==
    ASSUME NEW r, NEW n \in [Booking -> Nat], NEW d
    PROVE  LET D == UNION {{b} \X (IF r[b] = "approved" THEN 0 .. n[b] ELSE 1 .. n[b]) :
                             b \in Booking}
           IN  d \in D <=> /\ d \in Booking \X Nat
                           /\ IF d[2] = 0 THEN r[d[1]] = "approved" ELSE d[2] <= n[d[1]]
<1> DEFINE I(b) == IF r[b] = "approved" THEN 0 .. n[b] ELSE 1 .. n[b]
           D == UNION {{b} \X I(b) : b \in Booking}
<1>1. \A b \in Booking : n[b] \in Nat
  OBVIOUS
<1>2. \A b \in Booking : \A i :
        i \in I(b) <=> i \in Nat /\ IF i = 0 THEN r[b] = "approved" ELSE i <= n[b]
  BY <1>1
<1>3. d \in D <=> \E b \in Booking : d \in {b} \X I(b)
  OBVIOUS
<1> HIDE DEF I, D
<1>4. ASSUME NEW b \in Booking, d \in {b} \X I(b)
      PROVE  /\ d \in Booking \X Nat
             /\ IF d[2] = 0 THEN r[d[1]] = "approved" ELSE d[2] <= n[d[1]]
  <2>1. d = <<d[1], d[2]>> /\ d[1] = b /\ d[2] \in I(b)
    BY <1>4
  <2>2. d[2] \in Nat /\ IF d[2] = 0 THEN r[b] = "approved" ELSE d[2] <= n[b]
    BY <1>2, <2>1
  <2>3. QED
    BY <2>1, <2>2
<1>5. ASSUME d \in Booking \X Nat,
             IF d[2] = 0 THEN r[d[1]] = "approved" ELSE d[2] <= n[d[1]]
      PROVE  \E b \in Booking : d \in {b} \X I(b)
  <2>1. d = <<d[1], d[2]>> /\ d[1] \in Booking /\ d[2] \in Nat
    BY <1>5
  <2>2. d[2] \in I(d[1])
    BY <1>2, <1>5, <2>1
  <2>3. d \in {d[1]} \X I(d[1])
    BY <2>1, <2>2
  <2>4. QED
    BY <2>1, <2>3
<1>6. QED
  BY <1>3, <1>4, <1>5 DEF D, I

(* A document is approved, by its number.                                  *)
Valid(d) == IF d[2] = 0 THEN record[d[1]] = "approved" ELSE d[2] <= spare[d[1]]

(* The approved documents are the valid ones.                              *)
LEMMA DocumentsTyped ==
    ASSUME RebuildTypeOK
    PROVE  /\ Documents \subseteq Booking \X Nat
           /\ \A d : d \in Documents <=> d \in Booking \X Nat /\ Valid(d)
<1>1. spare \in [Booking -> Nat]
  BY DEF RebuildTypeOK
<1>2. \A d : d \in Documents <=> d \in Booking \X Nat /\ Valid(d)
  BY <1>1, DocumentsAre DEF Documents, DocumentsOf, Active, Valid
<1>3. QED
  BY <1>2

(* The same after a step.                                                  *)
LEMMA DocumentsNext ==
    ASSUME RebuildTypeOK'
    PROVE  \A d : d \in Documents' <=> d \in Booking \X Nat /\ Valid(d)'
<1>1. spare' \in [Booking -> Nat]
  BY DEF RebuildTypeOK
<1>2. QED
  BY <1>1, DocumentsAre DEF Documents, DocumentsOf, Active, Valid

(* There are finitely many.                                                *)
LEMMA DocumentsAreCounted ==
    ASSUME RebuildTypeOK
    PROVE  IsFiniteSet(Documents)
<1>1. spare \in [Booking -> Nat]
  BY DEF RebuildTypeOK
<1> DEFINE f == [b \in Booking |-> DocumentsOf(b)]
           T == {DocumentsOf(b) : b \in Booking}
<1>2. f \in Surjection(Booking, T)
  <2>1. f \in [Booking -> T]
    OBVIOUS
  <2>2. \A t \in T : \E b \in Booking : f[b] = t
    OBVIOUS
  <2> HIDE DEF f, T
  <2>3. QED
    BY <2>1, <2>2 DEF Surjection
<1>3. IsFiniteSet(T)
  <2> HIDE DEF f, T
  <2>1. QED
    BY <1>2, FS_Surjection
<1>4. ASSUME NEW b \in Booking PROVE IsFiniteSet(DocumentsOf(b))
  <2>1. spare[b] \in Nat
    BY <1>1
  <2>2. IsFiniteSet(0 .. spare[b]) /\ IsFiniteSet(1 .. spare[b])
    BY <2>1, FS_Interval
  <2>3. IsFiniteSet({b})
    BY FS_Singleton
  <2>4. QED
    BY <2>2, <2>3, FS_Product DEF DocumentsOf
<1>5. \A t \in T : IsFiniteSet(t)
  BY <1>4
<1>6. IsFiniteSet(UNION T)
  <2> HIDE DEF T
  <2>1. QED
    BY <1>3, <1>5, FS_UNION
<1>7. QED
  BY <1>6 DEF Documents

(* Bookings keep the types.                                                *)
LEMMA BookingStepTypes ==
    ASSUME RebuildTypeOK, NEW b \in Booking, BookingStep(b)
    PROVE  RebuildTypeOK'
<1> USE DEF RebuildTypeOK, watchdogVars, redisVars, SendRelease
<1>1. CASE Check(b)
  BY <1>1 DEF Check
<1>2. CASE Refuse(b)
  BY <1>2 DEF Refuse
<1>3. CASE Record(b)
  BY <1>3 DEF Record, Insert, Busy
<1>10. CASE RepeatInsert(b)
  <2>1. faults' \subseteq AllFaults \X (1 .. MaxFaults)
    BY <1>10, FaultTypes DEF RepeatInsert
  <2>2. QED
    BY <1>10, <2>1 DEF RepeatInsert, Insert, Busy
<1>4. CASE Abort(b)
  BY <1>4 DEF Abort
<1>5. CASE Cancel(b)
  BY <1>5 DEF Cancel, Busy
<1>6. CASE Flag(b)
  BY <1>6 DEF Flag, Busy
<1>7. ASSUME NEW s \in Segment, CountIn(b, s) PROVE RebuildTypeOK'
  <2>1. current' \in [Segment -> Nat]
    BY <1>7 DEF CountIn
  <2>2. mood' \in [Watchdog -> {"quiet", "busy", "upset"}]
    BY <1>7 DEF CountIn, Busy
  <2>3. stage' \in [Booking -> {"new", "counting", "counted", "done"}] /\ locks' \subseteq Segment
    BY <1>7 DEF CountIn
  <2>4. left' \in [Booking -> SUBSET Segment]
    BY <1>7 DEF CountIn
  <2>5. QED
    BY <1>7, <2>1, <2>2, <2>3, <2>4 DEF CountIn
<1>8. ASSUME NEW s \in Segment, CountOut(b, s) PROVE RebuildTypeOK'
  <2>1. current' \in [Segment -> Nat]
    BY <1>8 DEF CountOut, SafeDecr
  <2>2. mood' \in [Watchdog -> {"quiet", "busy", "upset"}]
    BY <1>8 DEF CountOut, Upset
  <2>3. QED
    BY <1>8, <2>1, <2>2 DEF CountOut
<1>9. QED
  BY <1>1, <1>2, <1>3, <1>4, <1>5, <1>6, <1>7, <1>8, <1>10 DEF BookingStep

(* A watchdog keeps the types.                                             *)
LEMMA WatchTypes ==
    ASSUME RebuildTypeOK, NEW w \in Watchdog, Watch(w)
    PROVE  RebuildTypeOK'
<1> USE DEF RebuildTypeOK, bookingVars, redisVars, Goto
<1>1. CASE FindProbeMissing(w)
  BY <1>1 DEF FindProbeMissing
<1>2. CASE TakeRebuildLock(w)
  BY <1>2, DocumentsTyped DEF TakeRebuildLock
<1>3. CASE SkipRebuild(w)
  BY <1>3 DEF SkipRebuild
<1>4. CASE Connect(w)
  BY <1>4 DEF Connect
<1>5. CASE ConnectShards(w)
  <2>1. pc' = [pc EXCEPT ![w] = "scan"]
    BY <1>5 DEF ConnectShards
  <2>2. shards' \in [Watchdog -> SUBSET {0, 1}]
    BY <1>5 DEF ConnectShards
  <2>3. mood' \in [Watchdog -> {"quiet", "busy", "upset"}]
    BY <1>5 DEF ConnectShards
  <2>4. faults' \subseteq AllFaults \X (1 .. MaxFaults)
    BY <1>5, FaultTypes DEF ConnectShards
  <2>5. QED
    BY <1>5, <2>1, <2>2, <2>3, <2>4 DEF ConnectShards
<1>6. CASE ShardCounted(w)
  BY <1>6 DEF ShardCounted
<1>7. CASE RestoreProbe(w)
  BY <1>7 DEF RestoreProbe, Forget
<1>8. CASE StartWatchdog(w)
  BY <1>8 DEF StartWatchdog
<1>9. ASSUME NEW s \in Segment, ZeroSegment(w, s) PROVE RebuildTypeOK'
  BY <1>9 DEF ZeroSegment, ResetCounter
<1>10. ASSUME NEW s \in Segment, SeedSegment(w, s) PROVE RebuildTypeOK'
  BY <1>10 DEF SeedSegment
<1>11. ASSUME NEW n \in {0, 1}, ScanShard(w, n) PROVE RebuildTypeOK'
  <2>1. Scan(n) \subseteq (Booking \X Nat) \X Segment
    BY DocumentsTyped DEF Scan
  <2>2. QED
    BY <1>11, <2>1 DEF ScanShard
<1>12. ASSUME NEW e \in tally[w], CountRecord(w, e) PROVE RebuildTypeOK'
  <2>1. e[2] \in Segment
    OBVIOUS
  <2>2. current' \in [Segment -> Nat]
    BY <1>12, <2>1 DEF CountRecord
  <2>3. QED
    BY <1>12, <2>2 DEF CountRecord
<1>13. QED
  BY <1>1, <1>2, <1>3, <1>4, <1>5, <1>6, <1>7, <1>8, <1>9, <1>10, <1>11, <1>12 DEF Watch

(* So do faults and the expiry of the lock.                                *)
LEMMA FaultStepTypes ==
    ASSUME RebuildTypeOK,
           \/ \E w \in Watchdog : ConnectFails(w) \/ RebuildFails(w) \/ Restart(w)
           \/ ExpireRebuildLock
           \/ OutliveLock
           \/ Wipe
           \/ DeleteProbe
    PROVE  RebuildTypeOK'
<1> USE DEF RebuildTypeOK, bookingVars, redisVars, watchdogVars, Goto, Forget
<1>1. ASSUME NEW w \in Watchdog, ConnectFails(w) PROVE RebuildTypeOK'
  BY <1>1, FaultTypes DEF ConnectFails
<1>2. ASSUME NEW w \in Watchdog, RebuildFails(w) PROVE RebuildTypeOK'
  BY <1>2, FaultTypes DEF RebuildFails
<1>3. ASSUME NEW w \in Watchdog, Restart(w) PROVE RebuildTypeOK'
  BY <1>3, FaultTypes DEF Restart
<1>4. CASE ExpireRebuildLock
  BY <1>4 DEF ExpireRebuildLock
<1>8. CASE OutliveLock
  <2>1. mood' \in [Watchdog -> {"quiet", "busy", "upset"}]
    BY <1>8 DEF OutliveLock, Upset
  <2>2. faults' \subseteq AllFaults \X (1 .. MaxFaults)
    BY <1>8, FaultTypes DEF OutliveLock
  <2>3. QED
    BY <1>8, <2>1, <2>2 DEF OutliveLock
<1>5. CASE Wipe
  <2>1. mood' \in [Watchdog -> {"quiet", "busy", "upset"}]
    BY <1>5 DEF Wipe, Upset
  <2>2. faults' \subseteq AllFaults \X (1 .. MaxFaults)
    BY <1>5, FaultTypes DEF Wipe
  <2>3. QED
    BY <1>5, <2>1, <2>2 DEF Wipe
<1>6. CASE DeleteProbe
  BY <1>6, FaultTypes DEF DeleteProbe
<1>7. QED
  BY <1>1, <1>2, <1>3, <1>4, <1>5, <1>6, <1>8

(* Every step keeps the types.                                             *)
LEMMA StepTypes == RebuildTypeOK /\ [Next]_vars => RebuildTypeOK'
<1> SUFFICES ASSUME RebuildTypeOK, [Next]_vars PROVE RebuildTypeOK'
  OBVIOUS
<1>1. CASE Next
  BY <1>1, BookingStepTypes, WatchTypes, FaultStepTypes DEF Next
<1>2. CASE UNCHANGED vars
  BY <1>2 DEF vars, redisVars, bookingVars, watchdogVars, RebuildTypeOK
<1>3. QED
  BY <1>1, <1>2

(* Type correctness of the rebuild: the counters, that bookings count in,  *)
(* releases count out, a wipe loses and a rebuild zeroes and recounts at   *)
(* once, stay natural numbers.                                             *)
THEOREM RebuildTypes == Spec => []RebuildTypeOK
<1>1. Init => RebuildTypeOK
  BY InitTypes
<1>2. RebuildTypeOK /\ [Next]_vars => RebuildTypeOK'
  BY StepTypes
<1>3. QED
  BY <1>1, <1>2, PTL DEF Spec

----------------------------------------------------------------------------
(* What a rebuild has counted *)

(* The rebuild of a watchdog has not been crossed by a wipe, a release, an *)
(* unreachable shard or the end of its lock.                               *)
Live(w) == Rebuilding(w) /\ mood[w] # "upset"

Counting(w) == pc[w] \in {"scan", "count", "finish"}

(* Approved documents on a segment that a rebuild has counted again: those *)
(* of the shards it has scanned, less the ones it still has to count.      *)
Recounted(w, s) ==
    {d \in DocumentsOn(s) : <<d, s>> \notin tally[w] /\ \A n \in shards[w] : d[1] \notin OnShard(n)}

(* Such a rebuild holds the lock, alone: an expired or wiped lock ends or  *)
(* upsets it first.                                                        *)
Alone(w) == Live(w) => rebuildLock /\ \A v \in Watchdog \ {w} : ~Rebuilding(v)

(* Nothing is left to scan or count outside the loop that does it.         *)
Orderly(w) ==
    /\ tally[w] # {} => pc[w] = "count"
    /\ shards[w] # {} => pc[w] \in {"scan", "count"}

(* What was approved before a rebuild is counted as far as the rebuild is. *)
BaseKept(w) ==
    Live(w) /\ Counting(w) =>
        \A s \in Segment : Cardinality(base[w] \cap Recounted(w, s)) <= current[s]

(* If no booking moved since, the counters are what the rebuild has        *)
(* counted, and what it still has to count is approved and scanned.        *)
Exact(w) ==
    Rebuilding(w) /\ mood[w] = "quiet" =>
        /\ pc[w] = "zero" => \A s \in Segment \ todo[w] : current[s] = 0
        /\ Counting(w) => \A s \in Segment : current[s] = Cardinality(Recounted(w, s))
        /\ \A e \in tally[w] : /\ e[1] \in DocumentsOn(e[2])
                               /\ \A n \in shards[w] : e[1][1] \notin OnShard(n)

(* A document is stored.                                                   *)
Stored(d) == IF d[2] = 0 THEN record[d[1]] # "none" ELSE d[2] <= spare[d[1]]

(* Nothing is stored of a booking that is not counted in, and what was     *)
(* approved when a rebuild began is stored.                                *)
RecordsAreLast ==
    /\ \A b \in Booking : stage[b] \in {"new", "counting"} => record[b] = "none"
    /\ \A w \in Watchdog : \A d \in base[w] : Stored(d)

RebuildInv ==
    /\ RebuildTypeOK
    /\ RecordsAreLast
    /\ \A w \in Watchdog : Alone(w) /\ Orderly(w) /\ BaseKept(w) /\ Exact(w)

(* What a rebuild has counted are documents, finitely many.                *)
LEMMA RecountedAreCounted ==
    ASSUME RebuildTypeOK, NEW w, NEW s
    PROVE  /\ Recounted(w, s) \subseteq Documents
           /\ IsFiniteSet(Recounted(w, s))
<1>1. Recounted(w, s) \subseteq Documents
  BY DEF Recounted, DocumentsOn
<1>2. QED
  BY <1>1, DocumentsAreCounted, FS_Subset

(* Nothing has been counted yet when both shards are to be scanned.        *)
LEMMA NothingRecounted ==
    ASSUME RebuildTypeOK', NEW w, NEW s, shards'[w] = {0, 1}
    PROVE  Recounted(w, s)' = {}
<1>1. \A d \in Documents' : d[1] \in Booking
  BY DocumentsNext
<1>2. QED
  BY <1>1 DEF Recounted, DocumentsOn, OnShard

(* Everything has been counted when nothing is left to scan or count.      *)
LEMMA AllRecounted ==
    ASSUME NEW w, NEW s, shards[w] = {}, tally[w] = {}
    PROVE  Recounted(w, s) = DocumentsOn(s)
  BY DEF Recounted

(* The documents are those of the records.                                 *)
LEMMA SameDocuments ==
    ASSUME record' = record, spare' = spare
    PROVE  Documents' = Documents /\ \A s : DocumentsOn(s)' = DocumentsOn(s)
<1>1. \A b \in Booking : DocumentsOf(b)' = DocumentsOf(b)
  BY DEF DocumentsOf, Active
<1>2. Documents' = Documents
  BY <1>1 DEF Documents
<1>3. QED
  BY <1>2 DEF DocumentsOn

(* A watchdog whose own state stays, like the records and the counters,    *)
(* keeps what it has.                                                      *)
LEMMA BystanderKeeps ==
    ASSUME NEW w \in Watchdog, Orderly(w), BaseKept(w), Exact(w),
           record' = record, spare' = spare, current' = current,
           pc'[w] = pc[w], todo'[w] = todo[w],
           shards'[w] = shards[w], tally'[w] = tally[w], base'[w] = base[w],
           mood'[w] = mood[w]
    PROVE  Orderly(w)' /\ BaseKept(w)' /\ Exact(w)'
<1>2. \A s : DocumentsOn(s)' = DocumentsOn(s)
  BY SameDocuments
<1>1. \A s \in Segment : Recounted(w, s)' = Recounted(w, s)
  BY <1>2 DEF Recounted, OnShard
<1>3. Orderly(w)'
  BY DEF Orderly
<1>4. BaseKept(w)'
  BY <1>1 DEF BaseKept, Live, Rebuilding, Counting
<1>5. Exact(w)'
  <2> SUFFICES ASSUME (Rebuilding(w) /\ mood[w] = "quiet")'
               PROVE  /\ (pc[w] = "zero" => \A s \in Segment \ todo[w] : current[s] = 0)'
                      /\ (Counting(w) =>
                            \A s \in Segment : current[s] = Cardinality(Recounted(w, s)))'
                      /\ (\A e \in tally[w] : /\ e[1] \in DocumentsOn(e[2])
                                              /\ \A n \in shards[w] : e[1][1] \notin OnShard(n))'
    BY DEF Exact
  <2>1. Rebuilding(w) /\ mood[w] = "quiet"
    BY DEF Rebuilding
  <2>2. (pc[w] = "zero" => \A s \in Segment \ todo[w] : current[s] = 0)'
    BY <2>1 DEF Exact
  <2>3. (Counting(w) => \A s \in Segment : current[s] = Cardinality(Recounted(w, s)))'
    BY <2>1, <1>1 DEF Exact, Counting
  <2>4. (\A e \in tally[w] : /\ e[1] \in DocumentsOn(e[2])
                             /\ \A n \in shards[w] : e[1][1] \notin OnShard(n))'
    BY <1>2, <2>1 DEF Exact, OnShard
  <2>5. QED
    BY <2>2, <2>3, <2>4
<1>6. QED
  BY <1>3, <1>4, <1>5

(* A watchdog that does not rebuild has nothing to keep but its order.     *)
LEMMA IdleKeeps ==
    ASSUME NEW w \in Watchdog, ~Rebuilding(w)'
    PROVE  Alone(w)' /\ BaseKept(w)' /\ Exact(w)'
  BY DEF Alone, BaseKept, Exact, Live, Rebuilding

----------------------------------------------------------------------------
(* Bookings *)

(* A booking's steps leave the watchdogs where they are.                   *)
LEMMA BookingsLeaveWatchdogs ==
    ASSUME NEW b \in Booking, BookingStep(b)
    PROVE  watchdogVars' = watchdogVars /\ rebuildLock' = rebuildLock
  BY DEF BookingStep, Check, Refuse, Record, RepeatInsert, Abort, Cancel, Flag, CountIn,
         CountOut, redisVars, watchdogVars

(* Steps that move no counter and approve nothing keep what is approved.   *)
LEMMA SilentStep ==
    ASSUME RebuildInv, NEW b \in Booking, Check(b) \/ Refuse(b) \/ Abort(b)
    PROVE  /\ \A s : DocumentsOn(s)' = DocumentsOn(s)
           /\ current' = current
           /\ mood' = mood
<1> USE DEF RebuildInv, RebuildTypeOK
<1>1. /\ \A c \in Booking : Active(c)' <=> Active(c)
      /\ spare' = spare /\ current' = current /\ mood' = mood
  <2>1. CASE Check(b)
    BY <2>1 DEF Check, Active
  <2>2. CASE Refuse(b)
    BY <2>2 DEF Refuse, Active, RecordsAreLast, redisVars
  <2>3. CASE Abort(b)
    BY <2>3 DEF Abort, Active, RecordsAreLast, redisVars
  <2>4. QED
    BY <2>1, <2>2, <2>3
<1>2. \A c \in Booking : DocumentsOf(c)' = DocumentsOf(c)
  BY <1>1 DEF DocumentsOf
<1>3. Documents' = Documents
  BY <1>2 DEF Documents
<1>4. QED
  BY <1>1, <1>3 DEF DocumentsOn

(* No step of a booking takes a document away, or changes the status that  *)
(* one not approved has by something else than approval of what was not    *)
(* stored.                                                                 *)
LEMMA BookingStores ==
    ASSUME RebuildInv, NEW b \in Booking, BookingStep(b)
    PROVE  /\ \A c \in Booking : /\ record[c] # "none" => record'[c] # "none"
                                 /\ stage'[c] \in {"new", "counting"} => record'[c] = "none"
                                 /\ record'[c] = "approved" => record[c] \in {"approved", "none"}
           /\ \A c \in Booking : spare[c] <= spare'[c]
<1> USE DEF RebuildInv, RebuildTypeOK, RecordsAreLast
<1>1. CASE Check(b) \/ Refuse(b)
  BY <1>1 DEF Check, Refuse
<1>2. CASE Record(b) \/ RepeatInsert(b)
  <2>1. /\ stage' = stage \/ stage' = [stage EXCEPT ![b] = "done"]
        /\ stage[b] \notin {"new", "counting"}
    BY <1>2 DEF Record, RepeatInsert
  <2>2. CASE record[b] = "none"
    <3>1. record' = [record EXCEPT ![b] = "approved"] /\ spare' = spare
      BY <1>2, <2>2 DEF Record, RepeatInsert, Insert
    <3>2. QED
      BY <2>1, <2>2, <3>1
  <2>3. CASE record[b] # "none"
    <3>1. record' = record /\ spare' = [spare EXCEPT ![b] = spare[b] + 1]
      BY <1>2, <2>3 DEF Record, RepeatInsert, Insert
    <3>2. QED
      BY <2>1, <3>1
  <2>4. QED
    BY <2>2, <2>3
<1>3. CASE Abort(b) \/ Cancel(b) \/ Flag(b)
  BY <1>3 DEF Abort, Cancel, Flag, Active
<1>4. ASSUME NEW s \in Segment, CountIn(b, s)
      PROVE  record' = record /\ spare' = spare
             /\ \A c \in Booking : stage'[c] \in {"new", "counting"} =>
                                     stage[c] \in {"new", "counting"}
  BY <1>4 DEF CountIn
<1>5. ASSUME NEW s \in Segment, CountOut(b, s)
      PROVE  record' = record /\ spare' = spare /\ stage' = stage
  BY <1>5 DEF CountOut
<1>6. QED
  BY <1>1, <1>2, <1>3, <1>4, <1>5 DEF BookingStep

(* Steps that move a booking end every quiet rebuild, approve nothing that *)
(* was approved before a rebuild began, and take no place away.            *)
LEMMA BusyStep ==
    ASSUME RebuildInv, NEW b \in Booking,
           \/ Record(b) \/ RepeatInsert(b) \/ Cancel(b) \/ Flag(b)
           \/ \E s \in Segment : CountIn(b, s)
    PROVE  /\ Busy
           /\ \A w \in Watchdog : \A d \in base[w] : d \in Documents' => d \in Documents
           /\ \A s \in Segment : current[s] <= current'[s]
<1> USE DEF RebuildInv
<1>1. Busy /\ \A s \in Segment : current[s] <= current'[s]
  <2> USE DEF RebuildTypeOK
  <2>1. CASE Record(b) \/ RepeatInsert(b) \/ Cancel(b) \/ Flag(b)
    BY <2>1 DEF Record, RepeatInsert, Cancel, Flag, redisVars
  <2>2. CASE \E s \in Segment : CountIn(b, s)
    BY <2>2 DEF CountIn
  <2>3. QED
    BY <2>1, <2>2
<1>2. BookingStep(b)
  BY DEF BookingStep
<1>3. ASSUME NEW w \in Watchdog, NEW d \in base[w], d \in Documents' PROVE d \in Documents
  <2>1. Stored(d) /\ d \in Booking \X Nat
    BY DEF RecordsAreLast, RebuildTypeOK
  <2>2. Valid(d)'
    BY <1>2, <1>3, BookingStepTypes, DocumentsNext
  <2>3. CASE d[2] = 0
    <3>1. record[d[1]] = "approved"
      BY <1>2, <2>1, <2>2, <2>3, BookingStores DEF Stored, Valid
    <3>2. QED
      BY <2>1, <2>3, <3>1, DocumentsTyped DEF Valid
  <2>4. CASE d[2] # 0
    BY <2>1, <2>4, DocumentsTyped DEF Stored, Valid
  <2>5. QED
    BY <2>3, <2>4
<1>4. QED
  BY <1>1, <1>3

(* A release counted out, like a wipe, upsets every rebuild.               *)
LEMMA UpsetStep ==
    ASSUME RebuildInv, Upset, pc' = pc, NEW w \in Watchdog
    PROVE  ~Live(w)'
  BY DEF Upset, Live, Rebuilding

(* Bookings keep the order of records and bases.                           *)
LEMMA BookingKeepsRecords ==
    ASSUME RebuildInv, NEW b \in Booking, BookingStep(b)
    PROVE  RecordsAreLast'
<1>1. base' = base
  BY BookingsLeaveWatchdogs DEF watchdogVars
<1>2. ASSUME NEW w \in Watchdog, NEW d \in base[w] PROVE Stored(d)'
  <2>1. Stored(d) /\ d \in Booking \X Nat
    BY DEF RebuildInv, RecordsAreLast, RebuildTypeOK
  <2>2. d[1] \in Booking /\ d[2] \in Nat
    BY <2>1
  <2>3. spare[d[1]] \in Nat /\ spare'[d[1]] \in Nat
    BY <2>2, BookingStepTypes DEF RebuildInv, RebuildTypeOK
  <2>4. QED
    BY <2>1, <2>2, <2>3, BookingStores DEF Stored
<1>3. \A c \in Booking : stage'[c] \in {"new", "counting"} => record'[c] = "none"
  BY BookingStores
<1>4. QED
  BY <1>1, <1>2, <1>3 DEF RecordsAreLast

(* Bookings keep what a rebuild has counted.                               *)
LEMMA BookingKeepsRebuilds ==
    ASSUME RebuildInv, NEW b \in Booking, BookingStep(b), NEW w \in Watchdog
    PROVE  Alone(w)' /\ Orderly(w)' /\ BaseKept(w)' /\ Exact(w)'
<1>1. /\ pc' = pc /\ todo' = todo /\ shards' = shards /\ tally' = tally /\ base' = base
      /\ rebuildLock' = rebuildLock
  BY BookingsLeaveWatchdogs DEF watchdogVars
<1>2. Alone(w) /\ Orderly(w) /\ BaseKept(w) /\ Exact(w)
  BY DEF RebuildInv
<1>3. Orderly(w)'
  BY <1>1, <1>2 DEF Orderly
<1>4. CASE Check(b) \/ Refuse(b) \/ Abort(b)
  <2>1. current' = current /\ mood' = mood
    BY <1>4, SilentStep
  <2>2. \A s : DocumentsOn(s)' = DocumentsOn(s)
    BY <1>4, SilentStep
  <2>3. \A s \in Segment : Recounted(w, s)' = Recounted(w, s)
    BY <1>1, <2>2 DEF Recounted
  <2>4. Alone(w)'
    BY <1>1, <1>2, <2>1 DEF Alone, Live, Rebuilding
  <2>5. BaseKept(w)'
    BY <1>1, <1>2, <2>1, <2>3 DEF BaseKept, Live, Rebuilding, Counting
  <2>6. Exact(w)'
    <3>1. CASE Rebuilding(w) /\ mood[w] = "quiet"
      <4>1. (pc[w] = "zero" => \A s \in Segment \ todo[w] : current[s] = 0)'
        BY <1>1, <1>2, <2>1, <3>1 DEF Exact
      <4>2. (Counting(w) => \A s \in Segment : current[s] = Cardinality(Recounted(w, s)))'
        BY <1>1, <1>2, <2>1, <2>3, <3>1 DEF Exact, Counting
      <4>3. (\A e \in tally[w] : /\ e[1] \in DocumentsOn(e[2])
                                 /\ \A n \in shards[w] : e[1][1] \notin OnShard(n))'
        BY <1>1, <1>2, <2>2, <3>1 DEF Exact, OnShard
      <4>4. QED
        BY <4>1, <4>2, <4>3 DEF Exact
    <3>2. CASE ~(Rebuilding(w) /\ mood[w] = "quiet")
      BY <1>1, <2>1, <3>2 DEF Exact, Rebuilding
    <3>3. QED
      BY <3>1, <3>2
  <2>7. QED
    BY <1>3, <2>4, <2>5, <2>6
<1>5. CASE \/ Record(b) \/ RepeatInsert(b) \/ Cancel(b) \/ Flag(b)
           \/ \E s \in Segment : CountIn(b, s)
  <2>1. Busy
    BY <1>5, BusyStep
  <2>2. \A v \in Watchdog : Live(v)' <=> Live(v)
    BY <1>1, <2>1 DEF Busy, Live, Rebuilding, RebuildInv, RebuildTypeOK
  <2>3. Alone(w)'
    BY <1>1, <1>2, <2>2 DEF Alone, Rebuilding
  <2>4. BaseKept(w)'
    <3> SUFFICES ASSUME Live(w)', Counting(w)', NEW s \in Segment
                 PROVE  (Cardinality(base[w] \cap Recounted(w, s)) <= current[s])'
      BY DEF BaseKept
    <3>1. Live(w) /\ Counting(w)
      BY <1>1, <2>2 DEF Counting
    <3>2. Cardinality(base[w] \cap Recounted(w, s)) <= current[s]
      BY <1>2, <3>1 DEF BaseKept
    <3>3. (base[w] \cap Recounted(w, s))' \subseteq base[w] \cap Recounted(w, s)
      <4>1. \A d \in base[w] : d \in Documents' => d \in Documents
        BY <1>5, BusyStep
      <4>2. QED
        BY <1>1, <4>1 DEF Recounted, DocumentsOn, OnShard
    <3>4. IsFiniteSet(base[w] \cap Recounted(w, s))
      <4>1. IsFiniteSet(Recounted(w, s))
        BY RecountedAreCounted DEF RebuildInv
      <4>2. QED
        BY <4>1, FewerAreNoMore
    <3>5. /\ Cardinality((base[w] \cap Recounted(w, s))') \in Nat
          /\ Cardinality(base[w] \cap Recounted(w, s)) \in Nat
          /\ Cardinality((base[w] \cap Recounted(w, s))')
               <= Cardinality(base[w] \cap Recounted(w, s))
      BY <3>3, <3>4, FewerAreNoMore
    <3>6. current[s] <= current'[s]
      BY <1>5, BusyStep
    <3>7. current[s] \in Nat /\ current'[s] \in Nat
      BY BookingStepTypes DEF RebuildInv, RebuildTypeOK
    <3>8. QED
      BY <3>2, <3>5, <3>6, <3>7
  <2>5. Exact(w)'
    BY <1>1, <2>1 DEF Exact, Busy, Rebuilding
  <2>6. QED
    BY <1>3, <2>3, <2>4, <2>5
<1>6. CASE \E s \in Segment : CountOut(b, s)
  <2>1. Upset
    BY <1>6 DEF CountOut
  <2>2. ~Live(w)'
    BY <1>1, <2>1, UpsetStep
  <2>3. ~(Rebuilding(w) /\ mood[w] = "quiet")'
    BY <2>2 DEF Live
  <2>4. QED
    BY <1>3, <2>2, <2>3 DEF Alone, BaseKept, Exact
<1>7. QED
  BY <1>4, <1>5, <1>6 DEF BookingStep

(* Bookings keep the invariant.                                            *)
LEMMA BookingKeeps ==
    ASSUME RebuildInv, NEW b \in Booking, BookingStep(b)
    PROVE  RebuildInv'
  BY BookingStepTypes, BookingKeepsRecords, BookingKeepsRebuilds DEF RebuildInv

----------------------------------------------------------------------------
(* Watchdogs *)

(* A watchdog's step changes nobody else's place.                          *)
LEMMA WatchLeavesOthers ==
    ASSUME RebuildTypeOK, NEW w \in Watchdog, NEW v \in Watchdog, v # w,
           Watch(w) \/ ConnectFails(w) \/ RebuildFails(w) \/ Restart(w)
    PROVE  /\ pc'[v] = pc[v] /\ todo'[v] = todo[v] /\ shards'[v] = shards[v]
           /\ tally'[v] = tally[v] /\ base'[v] = base[v] /\ mood'[v] = mood[v]
<1> USE DEF RebuildTypeOK, Goto, Forget
<1>1. CASE ConnectFails(w) \/ RebuildFails(w) \/ Restart(w)
  BY <1>1 DEF ConnectFails, RebuildFails, Restart
<1>2. CASE FindProbeMissing(w) \/ TakeRebuildLock(w) \/ SkipRebuild(w) \/ Connect(w)
  BY <1>2 DEF FindProbeMissing, TakeRebuildLock, SkipRebuild, Connect
<1>3. CASE ConnectShards(w)
  BY <1>3 DEF ConnectShards
<1>4. CASE ShardCounted(w) \/ RestoreProbe(w) \/ StartWatchdog(w)
  BY <1>4 DEF ShardCounted, RestoreProbe, StartWatchdog
<1>5. CASE \E s \in Segment : ZeroSegment(w, s) \/ SeedSegment(w, s)
  BY <1>5 DEF ZeroSegment, SeedSegment
<1>6. CASE \E n \in {0, 1} : ScanShard(w, n)
  BY <1>6 DEF ScanShard
<1>7. CASE \E e \in tally[w] : CountRecord(w, e)
  BY <1>7 DEF CountRecord
<1>8. QED
  BY <1>1, <1>2, <1>3, <1>4, <1>5, <1>6, <1>7 DEF Watch

(* It moves no booking.                                                    *)
LEMMA WatchLeavesBookings ==
    ASSUME NEW w \in Watchdog, Watch(w) \/ ConnectFails(w) \/ RebuildFails(w) \/ Restart(w)
    PROVE  record' = record /\ stage' = stage /\ spare' = spare
  BY DEF Watch, ConnectFails, RebuildFails, Restart, FindProbeMissing, TakeRebuildLock,
         SkipRebuild, Connect, ConnectShards, ShardCounted, RestoreProbe, StartWatchdog,
         ZeroSegment, SeedSegment, ScanShard, CountRecord, bookingVars

(* It moves a counter only while it rebuilds.                              *)
LEMMA OnlyRebuildsCount ==
    ASSUME NEW w \in Watchdog,
           Watch(w) \/ ConnectFails(w) \/ RebuildFails(w) \/ Restart(w)
    PROVE  current' = current \/ Rebuilding(w)
  BY DEF Watch, ConnectFails, RebuildFails, Restart, FindProbeMissing, TakeRebuildLock,
         SkipRebuild, Connect, ConnectShards, ShardCounted, RestoreProbe, StartWatchdog,
         ZeroSegment, SeedSegment, ScanShard, CountRecord, redisVars, Rebuilding

(* It begins to rebuild only by taking the lock, which it never gives up.  *)
LEMMA RebuildsBegin ==
    ASSUME RebuildTypeOK, NEW w \in Watchdog,
           Watch(w) \/ ConnectFails(w) \/ RebuildFails(w) \/ Restart(w)
    PROVE  /\ rebuildLock => rebuildLock'
           /\ Rebuilding(w)' => Rebuilding(w) \/ TakeRebuildLock(w)
<1> USE DEF RebuildTypeOK, Goto, Rebuilding, redisVars
<1>1. CASE ConnectFails(w) \/ RebuildFails(w) \/ Restart(w)
  BY <1>1 DEF ConnectFails, RebuildFails, Restart
<1>2. CASE FindProbeMissing(w) \/ SkipRebuild(w) \/ Connect(w)
  BY <1>2 DEF FindProbeMissing, SkipRebuild, Connect
<1>3. CASE TakeRebuildLock(w)
  BY <1>3 DEF TakeRebuildLock
<1>4. CASE ConnectShards(w)
  BY <1>4 DEF ConnectShards
<1>5. CASE ShardCounted(w) \/ RestoreProbe(w) \/ StartWatchdog(w)
  BY <1>5 DEF ShardCounted, RestoreProbe, StartWatchdog
<1>6. CASE \E s \in Segment : ZeroSegment(w, s) \/ SeedSegment(w, s)
  BY <1>6 DEF ZeroSegment, SeedSegment
<1>7. CASE \E n \in {0, 1} : ScanShard(w, n)
  BY <1>7 DEF ScanShard
<1>8. CASE \E e \in tally[w] : CountRecord(w, e)
  BY <1>8 DEF CountRecord
<1>9. QED
  BY <1>1, <1>2, <1>3, <1>4, <1>5, <1>6, <1>7, <1>8 DEF Watch

(* A base is a set of approved documents, or empty.                        *)
LEMMA WatchKeepsRecords ==
    ASSUME RebuildInv, NEW w \in Watchdog,
           Watch(w) \/ ConnectFails(w) \/ RebuildFails(w) \/ Restart(w)
    PROVE  RecordsAreLast'
<1> USE DEF RebuildInv
<1>1. record' = record /\ stage' = stage /\ spare' = spare
  BY WatchLeavesBookings
<1>2. \/ base' = base
      \/ base' = [base EXCEPT ![w] = {}]
      \/ base' = [base EXCEPT ![w] = Documents]
  BY DEF Watch, ConnectFails, RebuildFails, Restart, FindProbeMissing, TakeRebuildLock,
         SkipRebuild, Connect, ConnectShards, ShardCounted, RestoreProbe, StartWatchdog,
         ZeroSegment, SeedSegment, ScanShard, CountRecord, Forget
<1>3. ASSUME NEW v \in Watchdog, NEW d \in base'[v] PROVE Stored(d)
  <2>1. d \in base[v] \/ d \in Documents
    BY <1>2, <1>3 DEF RebuildTypeOK
  <2>2. d \in Documents => Stored(d)
    BY DocumentsTyped DEF Stored, Valid
  <2>3. QED
    BY <2>1, <2>2 DEF RecordsAreLast
<1>4. QED
  BY <1>1, <1>3 DEF RecordsAreLast, Stored

(* A watchdog's step keeps what the others have.                           *)
LEMMA WatchKeepsOthers ==
    ASSUME RebuildInv, NEW w \in Watchdog, NEW v \in Watchdog, v # w,
           Watch(w) \/ ConnectFails(w) \/ RebuildFails(w) \/ Restart(w)
    PROVE  Alone(v)' /\ Orderly(v)' /\ BaseKept(v)' /\ Exact(v)'
<1>1. Alone(v) /\ Orderly(v) /\ BaseKept(v) /\ Exact(v) /\ RebuildTypeOK
  BY DEF RebuildInv
<1>2. /\ pc'[v] = pc[v] /\ todo'[v] = todo[v] /\ shards'[v] = shards[v]
      /\ tally'[v] = tally[v] /\ base'[v] = base[v] /\ mood'[v] = mood[v]
  BY <1>1, WatchLeavesOthers
<1>3. record' = record /\ spare' = spare
  BY WatchLeavesBookings
<1>4. Live(v)' <=> Live(v)
  BY <1>2 DEF Live, Rebuilding
<1>5. Orderly(v)'
  BY <1>1, <1>2 DEF Orderly
<1>6. Alone(v)'
  <2> SUFFICES ASSUME Live(v), NEW u \in Watchdog \ {v}
               PROVE  rebuildLock' /\ ~Rebuilding(u)'
    BY <1>4 DEF Alone
  <2>1. rebuildLock /\ ~Rebuilding(u)
    BY <1>1 DEF Alone
  <2>2. rebuildLock'
    BY <1>1, <2>1, RebuildsBegin
  <2>3. CASE u = w
    <3>1. ~TakeRebuildLock(w)
      BY <2>1 DEF TakeRebuildLock, LockAvailable
    <3>2. QED
      BY <1>1, <2>1, <2>2, <2>3, <3>1, RebuildsBegin
  <2>4. CASE u # w
    <3>1. pc'[u] = pc[u]
      BY <1>1, <2>4, WatchLeavesOthers
    <3>2. QED
      BY <2>1, <2>2, <3>1 DEF Rebuilding
  <2>5. QED
    BY <2>3, <2>4
<1>7. BaseKept(v)' /\ Exact(v)'
  <2>1. CASE current' = current
    BY <1>1, <1>2, <1>3, <2>1, BystanderKeeps
  <2>2. CASE Rebuilding(w)
    <3>1. ~Live(v)
      BY <1>1, <2>2 DEF Alone
    <3>2. ~(Rebuilding(v) /\ mood[v] = "quiet")'
      BY <1>4, <3>1 DEF Live
    <3>3. QED
      BY <1>4, <3>1, <3>2 DEF BaseKept, Exact
  <2>3. QED
    BY <2>1, <2>2, OnlyRebuildsCount
<1>8. QED
  BY <1>5, <1>6, <1>7

(* The rebuild that goes on stays alone.                                   *)
LEMMA WatchStaysAlone ==
    ASSUME RebuildInv, NEW w \in Watchdog, Watch(w), Rebuilding(w)
    PROVE  Alone(w)'
<1> SUFFICES ASSUME Live(w)' PROVE rebuildLock' /\ \A v \in Watchdog \ {w} : ~Rebuilding(v)'
  BY DEF Alone
<1>1. RebuildTypeOK /\ Alone(w)
  BY DEF RebuildInv
<1>2. mood[w] = "upset" => mood'[w] = "upset" \/ ~Rebuilding(w)'
  <2> USE <1>1 DEF RebuildTypeOK, Rebuilding, Goto
  <2>1. CASE FindProbeMissing(w) \/ TakeRebuildLock(w) \/ SkipRebuild(w) \/ StartWatchdog(w)
    BY <2>1 DEF FindProbeMissing, TakeRebuildLock, SkipRebuild, StartWatchdog
  <2>2. CASE Connect(w) \/ ShardCounted(w)
    BY <2>2 DEF Connect, ShardCounted
  <2>3. CASE ConnectShards(w)
    BY <2>3 DEF ConnectShards
  <2>4. CASE RestoreProbe(w)
    BY <2>4 DEF RestoreProbe
  <2>5. CASE \E s \in Segment : ZeroSegment(w, s) \/ SeedSegment(w, s)
    BY <2>5 DEF ZeroSegment, SeedSegment
  <2>6. CASE \E n \in {0, 1} : ScanShard(w, n)
    BY <2>6 DEF ScanShard
  <2>7. CASE \E e \in tally[w] : CountRecord(w, e)
    BY <2>7 DEF CountRecord
  <2>8. QED
    BY <2>1, <2>2, <2>3, <2>4, <2>5, <2>6, <2>7 DEF Watch
<1>3. Live(w)
  BY <1>2 DEF Live
<1>4. rebuildLock /\ \A v \in Watchdog \ {w} : ~Rebuilding(v)
  BY <1>1, <1>3 DEF Alone
<1>5. rebuildLock'
  BY <1>1, <1>4, RebuildsBegin
<1>6. ASSUME NEW v \in Watchdog \ {w} PROVE ~Rebuilding(v)'
  <2>1. pc'[v] = pc[v]
    BY <1>1, WatchLeavesOthers
  <2>2. QED
    BY <1>4, <2>1 DEF Rebuilding
<1>7. QED
  BY <1>5, <1>6

(* Before and after a rebuild there is nothing to keep.                    *)
LEMMA IdleSteps ==
    ASSUME RebuildInv, NEW w \in Watchdog,
           \/ FindProbeMissing(w) \/ SkipRebuild(w) \/ StartWatchdog(w) \/ RestoreProbe(w)
           \/ \E s \in Segment : SeedSegment(w, s)
           \/ ConnectFails(w) \/ RebuildFails(w) \/ Restart(w)
    PROVE  Alone(w)' /\ Orderly(w)' /\ BaseKept(w)' /\ Exact(w)'
<1> USE DEF Goto
<1>1. RebuildTypeOK /\ Orderly(w)
  BY DEF RebuildInv
<1>2. ~Rebuilding(w)' /\ Orderly(w)'
  <2> USE <1>1 DEF RebuildTypeOK, Rebuilding, Orderly
  <2>1. CASE FindProbeMissing(w) \/ SkipRebuild(w)
    BY <2>1 DEF FindProbeMissing, SkipRebuild
  <2>2. CASE StartWatchdog(w)
    BY <2>2 DEF StartWatchdog
  <2>3. CASE RestoreProbe(w)
    BY <2>3 DEF RestoreProbe
  <2>4. CASE \E s \in Segment : SeedSegment(w, s)
    BY <2>4 DEF SeedSegment
  <2>5. CASE ConnectFails(w)
    BY <2>5 DEF ConnectFails
  <2>6. CASE RebuildFails(w)
    BY <2>6 DEF RebuildFails
  <2>7. CASE Restart(w)
    BY <2>7 DEF Restart
  <2>8. QED
    BY <2>1, <2>2, <2>3, <2>4, <2>5, <2>6, <2>7
<1>3. QED
  BY <1>2, IdleKeeps

(* The lock is taken: whoever rebuilds still has been upset, and the new   *)
(* rebuild counts as upset with it.                                        *)
LEMMA TakingKeeps ==
    ASSUME RebuildInv, NEW w \in Watchdog, TakeRebuildLock(w)
    PROVE  Alone(w)' /\ Orderly(w)' /\ BaseKept(w)' /\ Exact(w)'
<1>1. RebuildTypeOK /\ Orderly(w) /\ \A v \in Watchdog : Alone(v)
  BY DEF RebuildInv
<1>2. /\ pc[w] = "missing" /\ pc'[w] = "connect" /\ rebuildLock' /\ ~rebuildLock
      /\ shards' = shards /\ tally' = tally
  BY <1>1 DEF TakeRebuildLock, Goto, LockAvailable, RebuildTypeOK
<1>3. mood'[w] = IF \E v \in Watchdog : Rebuilding(v) /\ mood[v] = "upset"
                   THEN "upset" ELSE "quiet"
  BY <1>1 DEF TakeRebuildLock, RebuildTypeOK
<1>4. Alone(w)'
  <2> SUFFICES ASSUME Live(w)', NEW v \in Watchdog \ {w} PROVE ~Rebuilding(v)'
    BY <1>2 DEF Alone
  <2>1. pc'[v] = pc[v]
    BY <1>1 DEF TakeRebuildLock, Goto, RebuildTypeOK
  <2>2. ~(Rebuilding(v) /\ mood[v] = "upset")
    BY <1>3 DEF Live
  <2>3. ~Live(v)
    BY <1>1, <1>2 DEF Alone
  <2>4. QED
    BY <2>1, <2>2, <2>3 DEF Live, Rebuilding
<1>5. tally[w] = {} /\ shards[w] = {}
  BY <1>1, <1>2 DEF Orderly
<1>6. Orderly(w)'
  BY <1>2, <1>5 DEF Orderly
<1>7. BaseKept(w)' /\ Exact(w)'
  BY <1>2, <1>5 DEF BaseKept, Exact, Counting
<1>8. QED
  BY <1>4, <1>6, <1>7

(* The connections are there: every segment is to be zeroed.               *)
LEMMA ConnectingKeeps ==
    ASSUME RebuildInv, NEW w \in Watchdog, Connect(w)
    PROVE  Orderly(w)' /\ BaseKept(w)' /\ Exact(w)'
<1>1. RebuildTypeOK /\ Orderly(w)
  BY DEF RebuildInv
<1>2. /\ pc[w] = "connect" /\ pc'[w] = "zero" /\ todo'[w] = Segment
      /\ shards' = shards /\ tally' = tally
  BY <1>1 DEF Connect, Goto, RebuildTypeOK
<1>3. tally[w] = {} /\ shards[w] = {}
  BY <1>1, <1>2 DEF Orderly
<1>4. Orderly(w)'
  BY <1>2, <1>3 DEF Orderly
<1>5. BaseKept(w)' /\ Exact(w)'
  BY <1>2, <1>3 DEF BaseKept, Exact, Counting
<1>6. QED
  BY <1>4, <1>5

(* A segment is zeroed.                                                    *)
LEMMA ZeroingKeeps ==
    ASSUME RebuildInv, NEW w \in Watchdog, NEW s \in Segment, ZeroSegment(w, s)
    PROVE  Orderly(w)' /\ BaseKept(w)' /\ Exact(w)'
<1>1. RebuildTypeOK /\ Orderly(w) /\ Exact(w)
  BY DEF RebuildInv
<1>2. /\ pc[w] = "zero" /\ pc' = pc /\ todo'[w] = todo[w] \ {s} /\ mood' = mood
      /\ shards' = shards /\ tally' = tally /\ current' = [current EXCEPT ![s] = 0]
  BY <1>1 DEF ZeroSegment, ResetCounter, RebuildTypeOK
<1>3. tally[w] = {} /\ shards[w] = {}
  BY <1>1, <1>2 DEF Orderly
<1>4. Orderly(w)' /\ BaseKept(w)'
  BY <1>2, <1>3 DEF Orderly, BaseKept, Counting
<1>5. Exact(w)'
  <2> SUFFICES ASSUME Rebuilding(w)', mood'[w] = "quiet", NEW t \in Segment \ todo'[w]
               PROVE  current'[t] = 0
    BY <1>2, <1>3 DEF Exact, Counting
  <2>1. t # s => current[t] = 0
    BY <1>1, <1>2 DEF Exact, Rebuilding
  <2>2. QED
    BY <1>1, <1>2, <2>1 DEF RebuildTypeOK
<1>6. QED
  BY <1>4, <1>5

(* Every counter is zero, and nothing has been counted, when the scans     *)
(* begin; a shard that cannot be reached upsets the rebuild.               *)
LEMMA ShardsKeep ==
    ASSUME RebuildInv, NEW w \in Watchdog, ConnectShards(w)
    PROVE  Orderly(w)' /\ BaseKept(w)' /\ Exact(w)'
<1>1. RebuildTypeOK /\ Orderly(w) /\ Exact(w)
  BY DEF RebuildInv
<1>2. /\ pc[w] = "zero" /\ pc'[w] = "scan" /\ todo[w] = {}
      /\ tally' = tally /\ current' = current /\ base' = base
  BY <1>1 DEF ConnectShards, Goto, RebuildTypeOK, redisVars
<1>3. tally[w] = {} /\ shards[w] = {}
  BY <1>1, <1>2 DEF Orderly
<1>4. Orderly(w)'
  BY <1>2, <1>3 DEF Orderly
<1>5. CASE shards' = [shards EXCEPT ![w] = {0, 1}] /\ UNCHANGED <<mood, faults>>
  <2>1. shards'[w] = {0, 1} /\ mood' = mood
    BY <1>1, <1>5 DEF RebuildTypeOK
  <2>2. \A s : Recounted(w, s)' = {}
    <3>1. Watch(w)
      BY DEF Watch
    <3>2. RebuildTypeOK'
      BY <1>1, <3>1, WatchTypes
    <3>3. QED
      BY <2>1, <3>2, NothingRecounted
  <2>3. Cardinality({}) = 0
    BY FS_EmptySet
  <2>4. BaseKept(w)'
    <3>1. \A s \in Segment : (base[w] \cap Recounted(w, s))' = {}
      BY <2>2
    <3>2. \A s \in Segment : 0 <= current'[s]
      BY <1>1, <1>2 DEF RebuildTypeOK
    <3>3. QED
      BY <2>3, <3>1, <3>2 DEF BaseKept
  <2>5. Exact(w)'
    <3> SUFFICES ASSUME Rebuilding(w)', mood'[w] = "quiet", NEW s \in Segment
                 PROVE  (current[s] = Cardinality(Recounted(w, s)))'
      BY <1>2, <1>3 DEF Exact
    <3>1. current[s] = 0
      BY <1>1, <1>2, <2>1 DEF Exact, Rebuilding
    <3>2. QED
      BY <1>2, <2>2, <2>3, <3>1
  <2>6. QED
    BY <1>4, <2>4, <2>5
<1>6. CASE mood' = [mood EXCEPT ![w] = "upset"]
  BY <1>1, <1>4, <1>6 DEF BaseKept, Exact, Live, RebuildTypeOK
<1>7. QED
  BY <1>5, <1>6 DEF ConnectShards

(* A scan finds the approved bookings of its shard, which are to be        *)
(* counted: nothing more has been.                                         *)
LEMMA ScanningKeeps ==
    ASSUME RebuildInv, NEW w \in Watchdog, NEW n \in {0, 1}, ScanShard(w, n)
    PROVE  Orderly(w)' /\ BaseKept(w)' /\ Exact(w)'
<1>1. RebuildTypeOK /\ Orderly(w) /\ BaseKept(w) /\ Exact(w)
  BY DEF RebuildInv
<1>2. /\ pc[w] = "scan" /\ pc'[w] = "count" /\ n \in shards[w]
      /\ tally'[w] = Scan(n) /\ shards'[w] = shards[w] \ {n}
      /\ current' = current /\ base' = base /\ mood' = mood /\ record' = record
      /\ spare' = spare
  BY <1>1 DEF ScanShard, Goto, RebuildTypeOK, redisVars, bookingVars
<1>3. tally[w] = {}
  BY <1>1, <1>2 DEF Orderly
<1>4. \A s : DocumentsOn(s)' = DocumentsOn(s)
  BY <1>2, SameDocuments
<1>5. ASSUME NEW s \in Segment PROVE Recounted(w, s)' = Recounted(w, s)
  <2>1. ASSUME NEW d \in DocumentsOn(s)
        PROVE  <<d, s>> \in Scan(n) <=> d[1] \in OnShard(n)
    <3>1. d \in Documents
      BY DEF DocumentsOn
    <3>2. QED
      BY <3>1 DEF Scan
  <2>2. Recounted(w, s)' =
          {d \in DocumentsOn(s) : /\ <<d, s>> \notin Scan(n)
                                  /\ \A m \in shards[w] \ {n} : d[1] \notin OnShard(m)}
    BY <1>2, <1>4 DEF Recounted, OnShard
  <2>3. Recounted(w, s) = {d \in DocumentsOn(s) : \A m \in shards[w] : d[1] \notin OnShard(m)}
    BY <1>3 DEF Recounted
  <2>4. QED
    BY <1>2, <2>1, <2>2, <2>3
<1>6. Orderly(w)'
  BY <1>2 DEF Orderly
<1>7. BaseKept(w)'
  BY <1>1, <1>2, <1>5 DEF BaseKept, Live, Rebuilding, Counting
<1>8. Exact(w)'
  <2> SUFFICES ASSUME Rebuilding(w)', mood'[w] = "quiet"
               PROVE  /\ \A s \in Segment : (current[s] = Cardinality(Recounted(w, s)))'
                      /\ (\A e \in tally[w] : /\ e[1] \in DocumentsOn(e[2])
                                              /\ \A m \in shards[w] : e[1][1] \notin OnShard(m))'
    BY <1>2 DEF Exact
  <2>1. \A s \in Segment : (current[s] = Cardinality(Recounted(w, s)))'
    BY <1>1, <1>2, <1>5 DEF Exact, Rebuilding, Counting
  <2>2. ASSUME NEW e \in Scan(n)
        PROVE  e[1] \in DocumentsOn(e[2])' /\ \A m \in shards[w] \ {n} : e[1][1] \notin OnShard(m)
    <3>1. e[1][1] \in OnShard(n) /\ e[1] \in DocumentsOn(e[2])
      BY DEF Scan
    <3>2. \A m \in {0, 1} \ {n} : e[1][1] \notin OnShard(m)
      BY <3>1 DEF OnShard
    <3>3. QED
      BY <1>1, <1>4, <3>1, <3>2 DEF RebuildTypeOK
  <2>3. QED
    BY <1>2, <2>1, <2>2 DEF OnShard
<1>9. QED
  BY <1>6, <1>7, <1>8

(* One booking is counted on one segment.                                  *)
LEMMA CountingKeeps ==
    ASSUME RebuildInv, NEW w \in Watchdog, NEW e \in tally[w], CountRecord(w, e)
    PROVE  Orderly(w)' /\ BaseKept(w)' /\ Exact(w)'
<1>1. RebuildTypeOK /\ Orderly(w) /\ BaseKept(w) /\ Exact(w)
  BY DEF RebuildInv
<1>2. /\ pc[w] = "count" /\ pc' = pc /\ e \in tally[w] /\ tally'[w] = tally[w] \ {e}
      /\ shards' = shards /\ base' = base /\ mood' = mood /\ record' = record
      /\ spare' = spare
      /\ current' = [current EXCEPT ![e[2]] = current[e[2]] + 1]
  BY <1>1 DEF CountRecord, RebuildTypeOK, bookingVars
<1>3. Counting(w) /\ Rebuilding(w)
  BY <1>2 DEF Counting, Rebuilding
<1>4. e = <<e[1], e[2]>> /\ e[2] \in Segment
  BY <1>1 DEF RebuildTypeOK
<1>5. \A s : DocumentsOn(s)' = DocumentsOn(s)
  BY <1>2, SameDocuments
<1>6. ASSUME NEW s \in Segment
      PROVE  /\ s # e[2] => Recounted(w, s)' = Recounted(w, s) /\ current'[s] = current[s]
             /\ s = e[2] => /\ Recounted(w, s)' \subseteq Recounted(w, s) \cup {e[1]}
                            /\ current'[s] = current[s] + 1
  <2>1. Recounted(w, s)' =
          {d \in DocumentsOn(s) : /\ <<d, s>> \notin tally[w] \ {e}
                                  /\ \A n \in shards[w] : d[1] \notin OnShard(n)}
    BY <1>2, <1>5 DEF Recounted, OnShard
  <2>2. s # e[2] => Recounted(w, s)' = Recounted(w, s)
    BY <1>4, <2>1 DEF Recounted
  <2>3. s = e[2] => Recounted(w, s)' \subseteq Recounted(w, s) \cup {e[1]}
    BY <1>4, <2>1 DEF Recounted
  <2>4. /\ s # e[2] => current'[s] = current[s]
        /\ s = e[2] => current'[s] = current[s] + 1
    BY <1>1, <1>2, <1>4 DEF RebuildTypeOK
  <2>5. QED
    BY <2>2, <2>3, <2>4
<1>7. Orderly(w)'
  BY <1>1, <1>2 DEF Orderly
<1>8. BaseKept(w)'
  <2> SUFFICES ASSUME Live(w)', NEW s \in Segment
               PROVE  Cardinality(base[w] \cap Recounted(w, s)') <= current'[s]
    BY <1>2 DEF BaseKept
  <2>1. Cardinality(base[w] \cap Recounted(w, s)) <= current[s]
    BY <1>1, <1>2, <1>3 DEF BaseKept, Live
  <2>2. CASE s # e[2]
    BY <1>6, <2>1, <2>2
  <2>3. CASE s = e[2]
    <3> DEFINE K == base[w] \cap Recounted(w, s)
               N == base[w] \cap Recounted(w, s)'
    <3>1. IsFiniteSet(K) /\ Cardinality(K) \in Nat
      <4>1. IsFiniteSet(Recounted(w, s))
        BY <1>1, RecountedAreCounted
      <4>2. QED
        BY <4>1, FewerAreNoMore
    <3>2. N \subseteq K \cup {e[1]}
      BY <1>6, <2>3
    <3>3. IsFiniteSet(K \cup {e[1]})
      BY <3>1, OneMoreMember
    <3>4. Cardinality(K \cup {e[1]}) <= Cardinality(K) + 1
      BY <3>1, OneMoreMember
    <3>5. /\ Cardinality(N) \in Nat
          /\ Cardinality(K \cup {e[1]}) \in Nat
          /\ Cardinality(N) <= Cardinality(K \cup {e[1]})
      BY <3>2, <3>3, FewerAreNoMore
    <3>6. current'[s] = current[s] + 1 /\ current[s] \in Nat
      BY <1>1, <1>6, <2>3 DEF RebuildTypeOK
    <3>7. Cardinality(K) <= current[s]
      BY <2>1
    <3> HIDE DEF K, N
    <3>8. Cardinality(N) <= current'[s]
      BY <3>1, <3>4, <3>5, <3>6, <3>7
    <3>9. QED
      BY <3>8 DEF N
  <2>4. QED
    BY <2>2, <2>3
<1>9. Exact(w)'
  <2> SUFFICES ASSUME mood[w] = "quiet"
               PROVE  /\ \A s \in Segment : current'[s] = Cardinality(Recounted(w, s)')
                      /\ (\A f \in tally[w] : /\ f[1] \in DocumentsOn(f[2])
                                              /\ \A n \in shards[w] : f[1][1] \notin OnShard(n))'
    BY <1>2 DEF Exact
  <2>1. \A f \in tally[w] : /\ f[1] \in DocumentsOn(f[2])
                            /\ \A n \in shards[w] : f[1][1] \notin OnShard(n)
    BY <1>1, <1>3 DEF Exact
  <2>2. (\A f \in tally[w] : /\ f[1] \in DocumentsOn(f[2])
                             /\ \A n \in shards[w] : f[1][1] \notin OnShard(n))'
    BY <1>2, <1>5, <2>1 DEF OnShard
  <2>3. ASSUME NEW s \in Segment PROVE current'[s] = Cardinality(Recounted(w, s)')
    <3>1. current[s] = Cardinality(Recounted(w, s))
      BY <1>1, <1>3 DEF Exact
    <3>2. CASE s # e[2]
      BY <1>6, <3>1, <3>2
    <3>3. CASE s = e[2]
      <4> DEFINE K == Recounted(w, s)
      <4>1. e[1] \notin K
        BY <1>2, <1>4, <3>3 DEF Recounted
      <4>2. e[1] \in Recounted(w, s)'
        BY <1>2, <1>4, <1>5, <2>1, <3>3 DEF Recounted, OnShard
      <4>3. K \subseteq Recounted(w, s)'
        BY <1>2, <1>5 DEF Recounted, OnShard
      <4>4. Recounted(w, s)' = K \cup {e[1]}
        BY <1>6, <3>3, <4>2, <4>3
      <4>5. IsFiniteSet(K)
        BY <1>1, RecountedAreCounted
      <4>6. Cardinality(K \cup {e[1]}) = Cardinality(K) + 1
        BY <4>1, <4>5, OneMoreMember
      <4>7. current'[s] = current[s] + 1
        BY <1>6, <3>3
      <4>8. QED
        BY <3>1, <4>4, <4>6, <4>7
    <3>4. QED
      BY <3>2, <3>3
  <2>4. QED
    BY <2>2, <2>3
<1>10. QED
  BY <1>7, <1>8, <1>9

(* The bookings of a shard are counted: the next one is scanned, or all    *)
(* have been.                                                              *)
LEMMA ShardCountedKeeps ==
    ASSUME RebuildInv, NEW w \in Watchdog, ShardCounted(w)
    PROVE  Orderly(w)' /\ BaseKept(w)' /\ Exact(w)'
<1>1. RebuildTypeOK /\ Orderly(w) /\ BaseKept(w) /\ Exact(w)
  BY DEF RebuildInv
<1>2. /\ pc[w] = "count" /\ tally[w] = {}
      /\ pc'[w] = IF shards[w] = {} THEN "finish" ELSE "scan"
      /\ tally' = tally /\ shards' = shards /\ current' = current /\ base' = base
      /\ mood' = mood /\ record' = record /\ spare' = spare
  BY <1>1 DEF ShardCounted, Goto, RebuildTypeOK, redisVars, bookingVars
<1>3. \A s : Recounted(w, s)' = Recounted(w, s)
  BY <1>2, SameDocuments DEF Recounted, OnShard
<1>4. Counting(w) /\ Rebuilding(w)
  BY <1>2 DEF Counting, Rebuilding
<1>5. Orderly(w)'
  BY <1>2 DEF Orderly
<1>6. BaseKept(w)'
  BY <1>1, <1>2, <1>3, <1>4 DEF BaseKept, Live
<1>7. Exact(w)'
  BY <1>1, <1>2, <1>3, <1>4 DEF Exact
<1>8. QED
  BY <1>5, <1>6, <1>7

(* A watchdog's step keeps what it has counted itself.                     *)
LEMMA WatchKeepsItsOwn ==
    ASSUME RebuildInv, NEW w \in Watchdog,
           Watch(w) \/ ConnectFails(w) \/ RebuildFails(w) \/ Restart(w)
    PROVE  Alone(w)' /\ Orderly(w)' /\ BaseKept(w)' /\ Exact(w)'
<1>1. CASE \/ FindProbeMissing(w) \/ SkipRebuild(w) \/ StartWatchdog(w) \/ RestoreProbe(w)
           \/ \E s \in Segment : SeedSegment(w, s)
           \/ ConnectFails(w) \/ RebuildFails(w) \/ Restart(w)
  BY <1>1, IdleSteps
<1>2. CASE TakeRebuildLock(w)
  BY <1>2, TakingKeeps
<1>3. CASE \/ Connect(w) \/ ConnectShards(w) \/ ShardCounted(w)
           \/ \E s \in Segment : ZeroSegment(w, s)
           \/ \E n \in {0, 1} : ScanShard(w, n)
           \/ \E e \in tally[w] : CountRecord(w, e)
  <2>1. Watch(w) /\ Rebuilding(w)
    BY <1>3 DEF Watch, Rebuilding, Connect, ConnectShards, ShardCounted, ZeroSegment,
                ScanShard, CountRecord
  <2>2. Alone(w)'
    BY <2>1, WatchStaysAlone
  <2>3. QED
    BY <1>3, <2>2, ConnectingKeeps, ShardsKeep, ShardCountedKeeps, ZeroingKeeps,
       ScanningKeeps, CountingKeeps
<1>4. QED
  BY <1>1, <1>2, <1>3 DEF Watch

(* Watchdogs keep the invariant.                                           *)
LEMMA WatchKeeps ==
    ASSUME RebuildInv, NEW w \in Watchdog,
           Watch(w) \/ ConnectFails(w) \/ RebuildFails(w) \/ Restart(w)
    PROVE  RebuildInv'
<1>1. RebuildTypeOK'
  BY WatchTypes, FaultStepTypes DEF RebuildInv
<1>2. RecordsAreLast'
  BY WatchKeepsRecords
<1>3. \A v \in Watchdog : Alone(v)' /\ Orderly(v)' /\ BaseKept(v)' /\ Exact(v)'
  BY WatchKeepsItsOwn, WatchKeepsOthers
<1>4. QED
  BY <1>1, <1>2, <1>3 DEF RebuildInv

----------------------------------------------------------------------------
(* Redis *)

(* The lock expires, or a wipe takes it with the counters: in the middle   *)
(* of a rebuild both upset it.                                             *)
LEMMA RedisKeeps ==
    ASSUME RebuildInv, ExpireRebuildLock \/ OutliveLock \/ Wipe \/ DeleteProbe
    PROVE  RebuildInv'
<1>1. RebuildTypeOK'
  BY FaultStepTypes DEF RebuildInv
<1>2. /\ record' = record /\ stage' = stage /\ spare' = spare /\ pc' = pc /\ todo' = todo
      /\ shards' = shards /\ tally' = tally /\ base' = base
  BY DEF ExpireRebuildLock, OutliveLock, Wipe, DeleteProbe, bookingVars, watchdogVars
<1>3. RecordsAreLast'
  BY <1>2 DEF RecordsAreLast, RebuildInv, Stored
<1>4. ASSUME NEW w \in Watchdog PROVE Alone(w)' /\ Orderly(w)' /\ BaseKept(w)' /\ Exact(w)'
  <2>1. Alone(w) /\ Orderly(w) /\ BaseKept(w) /\ Exact(w)
    BY DEF RebuildInv
  <2>2. CASE ExpireRebuildLock
    <3>1. ~Rebuilding(w)'
      BY <1>2, <2>2 DEF ExpireRebuildLock, Rebuilding
    <3>2. Orderly(w)'
      BY <1>2, <2>1 DEF Orderly
    <3>3. QED
      BY <3>1, <3>2, IdleKeeps
  <2>3. CASE Wipe \/ OutliveLock
    <3>1. ~Live(w)'
      BY <1>2, <2>3, UpsetStep DEF Wipe, OutliveLock
    <3>2. Orderly(w)'
      BY <1>2, <2>1 DEF Orderly
    <3>3. ~(Rebuilding(w) /\ mood[w] = "quiet")'
      BY <3>1 DEF Live
    <3>4. QED
      BY <3>1, <3>2, <3>3 DEF Alone, BaseKept, Exact
  <2>4. CASE DeleteProbe
    <3>1. current' = current /\ mood' = mood /\ rebuildLock' = rebuildLock
      BY <2>4 DEF DeleteProbe
    <3>2. Alone(w)'
      BY <1>2, <2>1, <3>1 DEF Alone, Live, Rebuilding
    <3>3. QED
      BY <1>2, <2>1, <3>1, <3>2, BystanderKeeps
  <2>5. QED
    BY <2>2, <2>3, <2>4
<1>5. QED
  BY <1>1, <1>3, <1>4 DEF RebuildInv

----------------------------------------------------------------------------
(* The results *)

(* Nothing is being rebuilt at first.                                      *)
LEMMA InitKeeps == Init => RebuildInv
<1> SUFFICES ASSUME Init PROVE RebuildInv
  OBVIOUS
<1>1. RebuildTypeOK
  BY InitTypes
<1>2. RecordsAreLast
  BY DEF Init, RecordsAreLast
<1>3. ASSUME NEW w \in Watchdog PROVE Alone(w) /\ Orderly(w) /\ BaseKept(w) /\ Exact(w)
  <2>1. pc[w] = "sleep" /\ tally[w] = {} /\ shards[w] = {}
    BY DEF Init
  <2>2. QED
    BY <2>1 DEF Alone, Orderly, BaseKept, Exact, Live, Rebuilding
<1>4. QED
  BY <1>1, <1>2, <1>3 DEF RebuildInv

(* Stuttering keeps the invariant.                                         *)
LEMMA StutterKeeps == RebuildInv /\ UNCHANGED vars => RebuildInv'
<1> SUFFICES ASSUME RebuildInv, UNCHANGED vars PROVE RebuildInv'
  OBVIOUS
<1>1. /\ record' = record /\ stage' = stage /\ spare' = spare /\ pc' = pc /\ todo' = todo
      /\ shards' = shards /\ tally' = tally /\ base' = base /\ current' = current
      /\ mood' = mood /\ rebuildLock' = rebuildLock
  BY DEF vars, redisVars, bookingVars, watchdogVars
<1>2. RebuildTypeOK'
  BY StepTypes DEF RebuildInv
<1>3. RecordsAreLast'
  BY <1>1 DEF RecordsAreLast, RebuildInv, Stored
<1>4. ASSUME NEW w \in Watchdog PROVE Alone(w)' /\ Orderly(w)' /\ BaseKept(w)' /\ Exact(w)'
  <2>1. Alone(w) /\ Orderly(w) /\ BaseKept(w) /\ Exact(w)
    BY DEF RebuildInv
  <2>2. Alone(w)'
    BY <1>1, <2>1 DEF Alone, Live, Rebuilding
  <2>3. QED
    BY <1>1, <2>1, <2>2, BystanderKeeps
<1>5. QED
  BY <1>2, <1>3, <1>4 DEF RebuildInv

(* Every step keeps the invariant.                                         *)
LEMMA StepKeeps == RebuildInv /\ [Next]_vars => RebuildInv'
<1> SUFFICES ASSUME RebuildInv, [Next]_vars PROVE RebuildInv'
  OBVIOUS
<1>1. CASE Next
  BY <1>1, BookingKeeps, WatchKeeps, RedisKeeps DEF Next
<1>2. CASE UNCHANGED vars
  BY <1>2, StutterKeeps
<1>3. QED
  BY <1>1, <1>2

(* What a rebuild has counted when it completes is all that is approved.   *)
LEMMA CompletedCountsAll ==
    ASSUME RebuildInv, NEW w \in Watchdog, Completes(w), NEW s \in Segment
    PROVE  Recounted(w, s) = DocumentsOn(s) /\ Rebuilding(w) /\ Counting(w)
<1>1. pc[w] = "finish" /\ Orderly(w)
  BY DEF Completes, RebuildInv
<1>2. tally[w] = {} /\ shards[w] = {}
  BY <1>1 DEF Orderly
<1>3. QED
  BY <1>1, <1>2, AllRecounted DEF Rebuilding, Counting

(* A rebuild that nothing upset while its lock lasted loses no booking:    *)
(* what was approved when it began and still is has its place counted when *)
(* it completes, whatever bookings were counted in, recorded, flagged or   *)
(* cancelled meanwhile.                                                    *)
THEOREM RecordedBookingsSurvive == Spec => RecordedSurvive
<1>1. Init => RebuildInv
  BY InitKeeps
<1>2. RebuildInv /\ [Next]_vars => RebuildInv'
  BY StepKeeps
<1>3. RebuildInv /\ [Next]_vars =>
        [\A w \in Watchdog : Completes(w) /\ mood[w] # "upset" =>
           \A s \in Segment : Cardinality(base[w] \cap DocumentsOn(s)) <= current[s]]_vars
  <2> SUFFICES ASSUME RebuildInv, NEW w \in Watchdog, Completes(w), mood[w] # "upset",
                      NEW s \in Segment
               PROVE  Cardinality(base[w] \cap DocumentsOn(s)) <= current[s]
    OBVIOUS
  <2>1. Recounted(w, s) = DocumentsOn(s) /\ Live(w) /\ Counting(w)
    BY CompletedCountsAll DEF Live
  <2>2. QED
    BY <2>1 DEF RebuildInv, BaseKept
<1>4. QED
  BY <1>1, <1>2, <1>3, PTL DEF Spec, RecordedSurvive

(* If moreover no booking moved while it ran, the counters are exactly the *)
(* approved documents when it completes, one place for each: of any number *)
(* of watchdogs that saw the probe missing, only one recounted while the   *)
(* lock lasted.                                                            *)
THEOREM QuietRebuildsAreExact == Spec => QuietRebuildIsExact
<1>1. Init => RebuildInv
  BY InitKeeps
<1>2. RebuildInv /\ [Next]_vars => RebuildInv'
  BY StepKeeps
<1>3. RebuildInv /\ [Next]_vars =>
        [\A w \in Watchdog : Completes(w) /\ mood[w] = "quiet" =>
           \A s \in Segment : current[s] = Cardinality(DocumentsOn(s))]_vars
  <2> SUFFICES ASSUME RebuildInv, NEW w \in Watchdog, Completes(w), mood[w] = "quiet",
                      NEW s \in Segment
               PROVE  current[s] = Cardinality(DocumentsOn(s))
    OBVIOUS
  <2>1. Recounted(w, s) = DocumentsOn(s) /\ Rebuilding(w) /\ Counting(w)
    BY CompletedCountsAll
  <2>2. QED
    BY <2>1 DEF RebuildInv, Exact
<1>4. QED
  BY <1>1, <1>2, <1>3, PTL DEF Spec, QuietRebuildIsExact
=============================================================================
