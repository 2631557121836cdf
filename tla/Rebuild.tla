------------------------------- MODULE Rebuild -------------------------------
(***************************************************************************)
(* Redis keeps a region's capacities and counters in memory only.  Each    *)
(* instance of the validation service runs a watchdog that looks for a     *)
(* probe key and, when Redis was wiped, rebuilds both from MongoDB         *)
(* (rebuild_redis.main), while bookings, cancellations and releases go on; *)
(* a starting instance seeds what is missing and sets the probe itself.    *)
(*                                                                         *)
(* The checks of one booking are a step here (Validation takes them        *)
(* apart).  A booking has the status of its oldest document, the one that  *)
(* every update finds; documents behind it, of repeated inserts, stay      *)
(* approved.                                                               *)
(***************************************************************************)
EXTENDS Integers, FiniteSets

CONSTANTS
    Watchdog,       \* instances of the validation service
    Booking,        \* booking ids
    SubBooking,     \* those of sagas: recorded only when the saga commits
    Segment,        \* road segments, the rows of osm_edges
    SegmentsOf,     \* the segments of a booking
    Capacity,       \* what the road type of a segment allows
    Booked,         \* bookings already approved and counted at the start
    SecondShard,    \* bookings that hash to the second MongoDB shard
    FaultKinds,     \* the faults that can occur
    MaxFaults       \* how many of them, in all

AllFaults ==
    {"wipe", "midway", "probe", "redis", "exit", "shard", "restart", "repeat", "lock"}

ASSUME RebuildAssumption ==
    /\ IsFiniteSet(Segment)
    /\ IsFiniteSet(Booking)
    /\ SubBooking \subseteq Booking
    /\ SecondShard \subseteq Booking
    /\ Booked \subseteq Booking
    /\ SegmentsOf \in [Booking -> SUBSET Segment]
    /\ Capacity \in [Segment -> Nat]
    /\ FaultKinds \subseteq AllFaults
    /\ MaxFaults \in Nat

VARIABLES
    capKeys,        \* Redis: segments whose capacity key exists
    current,        \* Redis: current:segment:* counters, 0 when the key is missing
    probe,          \* Redis: watchdog:probe exists
    rebuildLock,    \* Redis: watchdog:rebuild_lock exists
    locks,          \* Redis: segments whose lock key exists
    stage,          \* per booking, where its validation stands
    left,           \* per booking, segments not yet counted in
    record,         \* MongoDB: status of the booking's oldest document
    spare,          \* MongoDB: approved documents of the booking behind that one
    releasing,      \* segments of capacity-releases not yet counted out
    pc,             \* per watchdog, where it stands
    todo,           \* per watchdog, segments still to zero or seed
    shards,         \* per watchdog, shards still to scan
    tally,          \* per watchdog, the scanned segments still to count
    base,           \* history: approved documents when the rebuild began
    mood,           \* history: what has crossed a rebuild since it began
    faults          \* the faults so far, numbered per kind

redisVars    == <<capKeys, current, probe, rebuildLock, locks>>
bookingVars  == <<stage, left, record, spare, releasing>>
watchdogVars == <<pc, todo, shards, tally, base>>
vars == <<redisVars, bookingVars, watchdogVars, mood, faults>>

Active(b)   == record[b] = "approved"
ActiveOn(s) == {b \in Booking : Active(b) /\ s \in SegmentsOf[b]}

(* The approved documents of a booking; number 0 is the oldest.            *)
DocumentsOf(b) == {b} \X (IF Active(b) THEN 0 .. spare[b] ELSE 1 .. spare[b])

Documents      == UNION {DocumentsOf(b) : b \in Booking}
DocumentsOn(s) == {d \in Documents : s \in SegmentsOf[d[1]]}

Rebuilding(w) == pc[w] \in {"connect", "zero", "scan", "count", "finish"}

Fault(kind) ==
    /\ kind \in FaultKinds
    /\ Cardinality(faults) < MaxFaults
    /\ \E n \in 1 .. MaxFaults :
         /\ <<kind, n>> \notin faults
         /\ \A m \in 1 .. n - 1 : <<kind, m>> \in faults
         /\ faults' = faults \cup {<<kind, n>>}

Happened(kind) == <<kind, 1>> \in faults

Goto(w, place) == pc' = [pc EXCEPT ![w] = place]

(* A rebuild is over: the history of this one is forgotten.                *)
Forget(w) ==
    /\ base' = [base EXCEPT ![w] = {}]
    /\ mood' = [mood EXCEPT ![w] = "quiet"]

Upset == mood' = [w \in Watchdog |-> IF Rebuilding(w) THEN "upset" ELSE mood[w]]
Busy  == mood' = [w \in Watchdog |->
                    IF Rebuilding(w) /\ mood[w] = "quiet" THEN "busy" ELSE mood[w]]

(* The service as it runs: seeded, with its probe and some bookings.       *)
Init ==
    /\ capKeys = Segment
    /\ current = [s \in Segment |-> Cardinality({b \in Booked : s \in SegmentsOf[b]})]
    /\ probe = TRUE
    /\ rebuildLock = FALSE
    /\ locks = {}
    /\ stage = [b \in Booking |-> IF b \in Booked THEN "done" ELSE "new"]
    /\ left = [b \in Booking |-> {}]
    /\ record = [b \in Booking |-> IF b \in Booked THEN "approved" ELSE "none"]
    /\ spare = [b \in Booking |-> 0]
    /\ releasing = {}
    /\ pc = [w \in Watchdog |-> "sleep"]
    /\ todo = [w \in Watchdog |-> {}]
    /\ shards = [w \in Watchdog |-> {}]
    /\ tally = [w \in Watchdog |-> {}]
    /\ base = [w \in Watchdog |-> {}]
    /\ mood = [w \in Watchdog |-> "quiet"]
    /\ faults = {}

----------------------------------------------------------------------------
(* Bookings, cancellations and releases *)

(* A missing capacity key reads as 0.                                      *)
HasRoom(s) == s \in capKeys /\ current[s] < Capacity[s]

LocksFree(b) == SegmentsOf[b] \cap locks = {}

Admissible(b) == LocksFree(b) /\ \A s \in SegmentsOf[b] : HasRoom(s)

Check(b) ==
    /\ stage[b] = "new"
    /\ Admissible(b)
    /\ stage' = [stage EXCEPT ![b] = "counting"]
    /\ left' = [left EXCEPT ![b] = SegmentsOf[b]]
    /\ locks' = locks \cup SegmentsOf[b]
    /\ UNCHANGED <<capKeys, current, probe, rebuildLock, record, spare, releasing,
                   watchdogVars, mood, faults>>

Refuse(b) ==
    /\ stage[b] = "new"
    /\ ~Admissible(b)
    /\ stage' = [stage EXCEPT ![b] = "done"]
    /\ record' = [record EXCEPT ![b] = "rejected"]
    /\ UNCHANGED <<redisVars, left, spare, releasing, watchdogVars, mood, faults>>

CountIn(b, s) ==
    /\ stage[b] = "counting"
    /\ s \in left[b]
    /\ current' = [current EXCEPT ![s] = @ + 1]
    /\ left' = [left EXCEPT ![b] = @ \ {s}]
    /\ IF left[b] = {s}
         THEN stage' = [stage EXCEPT ![b] = "counted"] /\ locks' = locks \ SegmentsOf[b]
         ELSE UNCHANGED <<stage, locks>>
    /\ Busy
    /\ UNCHANGED <<capKeys, probe, rebuildLock, record, spare, releasing, watchdogVars,
                   faults>>

(* insert_booking: a document of its own, whatever is there.               *)
Insert(b) ==
    IF record[b] = "none"
      THEN record' = [record EXCEPT ![b] = "approved"] /\ UNCHANGED spare
      ELSE spare' = [spare EXCEPT ![b] = @ + 1] /\ UNCHANGED record

(* By the validation service or by the saga coordinator.                   *)
Record(b) ==
    /\ stage[b] = "counted"
    /\ stage' = [stage EXCEPT ![b] = "done"]
    /\ Insert(b)
    /\ Busy
    /\ UNCHANGED <<redisVars, left, releasing, watchdogVars, faults>>

(* The data-service loses the answer to the insert and repeats it, or the  *)
(* next leader commits the saga again.                                     *)
RepeatInsert(b) ==
    /\ \/ stage[b] = "counted"
       \/ b \in SubBooking /\ record[b] \in {"approved", "cancelled", "flagged"}
    /\ Fault("repeat")
    /\ Insert(b)
    /\ Busy
    /\ UNCHANGED <<redisVars, stage, left, releasing, watchdogVars>>

SendRelease(b) == releasing' = releasing \cup ({b} \X SegmentsOf[b])

(* The saga of a sub-booking, of which nothing is stored yet, aborts.      *)
Abort(b) ==
    /\ b \in SubBooking
    /\ stage[b] = "counted"
    /\ record[b] = "none"
    /\ stage' = [stage EXCEPT ![b] = "done"]
    /\ record' = [record EXCEPT ![b] = "rejected"]
    /\ SendRelease(b)
    /\ UNCHANGED <<redisVars, left, spare, watchdogVars, mood, faults>>

Cancel(b) ==
    /\ record[b] \in {"approved", "flagged"}
    /\ record' = [record EXCEPT ![b] = "cancelled"]
    /\ SendRelease(b)
    /\ Busy
    /\ UNCHANGED <<redisVars, stage, left, spare, watchdogVars, faults>>

Flag(b) ==
    /\ Active(b)
    /\ record' = [record EXCEPT ![b] = "flagged"]
    /\ Busy
    /\ UNCHANGED <<redisVars, stage, left, spare, releasing, watchdogVars, faults>>

SafeDecr(n) == IF n > 0 THEN n - 1 ELSE n

CountOut(b, s) ==
    /\ <<b, s>> \in releasing
    /\ releasing' = releasing \ {<<b, s>>}
    /\ current' = [current EXCEPT ![s] = SafeDecr(@)]
    /\ Upset
    /\ UNCHANGED <<capKeys, probe, rebuildLock, locks, stage, left, record, spare,
                   watchdogVars, faults>>

----------------------------------------------------------------------------
(* _redis_watchdog *)

FindProbeMissing(w) ==
    /\ pc[w] = "sleep"
    /\ ~probe
    /\ Goto(w, "missing")
    /\ UNCHANGED <<redisVars, bookingVars, todo, shards, tally, base, mood, faults>>

(* Mutant: SET without NX.                                                 *)
LockOverwritten == rebuildLock \in BOOLEAN

LockAvailable == ~rebuildLock

TakeRebuildLock(w) ==
    /\ pc[w] = "missing"
    /\ LockAvailable
    /\ rebuildLock' = TRUE
    /\ Goto(w, "connect")
    /\ base' = [base EXCEPT ![w] = Documents]
    /\ mood' = [mood EXCEPT ![w] =
                  IF \E v \in Watchdog : Rebuilding(v) /\ mood[v] = "upset"
                    THEN "upset" ELSE "quiet"]
    /\ UNCHANGED <<capKeys, current, probe, locks, bookingVars, todo, shards, tally, faults>>

SkipRebuild(w) ==
    /\ pc[w] = "missing"
    /\ ~LockAvailable
    /\ Goto(w, "sleep")
    /\ UNCHANGED <<redisVars, bookingVars, todo, shards, tally, base, mood, faults>>

(* Mutant: SET without EX.                                                 *)
NoExpiry == rebuildLock /\ ~rebuildLock /\ UNCHANGED vars

(* The lock's 120 s are over, after the rebuild that took it.              *)
ExpireRebuildLock ==
    /\ rebuildLock
    /\ \A w \in Watchdog : ~Rebuilding(w)
    /\ rebuildLock' = FALSE
    /\ UNCHANGED <<capKeys, current, probe, locks, bookingVars, watchdogVars, mood, faults>>

(* Nothing renews the lock: a rebuild that takes longer goes on without.   *)
OutliveLock ==
    /\ rebuildLock
    /\ \E w \in Watchdog : Rebuilding(w)
    /\ Fault("lock")
    /\ rebuildLock' = FALSE
    /\ Upset
    /\ UNCHANGED <<capKeys, current, probe, locks, bookingVars, watchdogVars>>

(* MongoDB or Redis refuses the connection: sys.exit raises SystemExit,    *)
(* which "except Exception" lets through, and the watchdog thread is over. *)
ConnectFails(w) ==
    /\ pc[w] = "connect"
    /\ Fault("exit")
    /\ Goto(w, "dead")
    /\ Forget(w)
    /\ UNCHANGED <<redisVars, bookingVars, todo, shards, tally>>

Connect(w) ==
    /\ pc[w] = "connect"
    /\ todo' = [todo EXCEPT ![w] = Segment]
    /\ Goto(w, "zero")
    /\ UNCHANGED <<redisVars, bookingVars, shards, tally, base, mood, faults>>

(* Mutant: the counter is set only if it is missing, as in the seeding.    *)
ResetMissing(s) == current' = [current EXCEPT ![s] = @]

ResetCounter(s) == current' = [current EXCEPT ![s] = 0]

(* Step 1, one edge: overwrite its capacity, zero its counter.             *)
ZeroSegment(w, s) ==
    /\ pc[w] = "zero"
    /\ s \in todo[w]
    /\ capKeys' = capKeys \cup {s}
    /\ ResetCounter(s)
    /\ todo' = [todo EXCEPT ![w] = @ \ {s}]
    /\ UNCHANGED <<probe, rebuildLock, locks, bookingVars, pc, shards, tally, base, mood,
                   faults>>

(* Shard 1 is scanned too unless it cannot be reached.                     *)
ConnectShards(w) ==
    /\ pc[w] = "zero"
    /\ todo[w] = {}
    /\ Goto(w, "scan")
    /\ \/ shards' = [shards EXCEPT ![w] = {0, 1}] /\ UNCHANGED <<mood, faults>>
       \/ /\ shards' = [shards EXCEPT ![w] = {0}]
          /\ Fault("shard")
          /\ mood' = [mood EXCEPT ![w] = "upset"]
    /\ UNCHANGED <<redisVars, bookingVars, todo, tally, base>>

OnShard(n) == IF n = 0 THEN Booking \ SecondShard ELSE SecondShard

(* Mutant: the scan stops at the shard of the region's own database.       *)
ScanOwnShard(n) ==
    {e \in Documents \X Segment : n = 0 /\ e[1][1] \in OnShard(0) /\ e[1] \in DocumentsOn(e[2])}

(* Every approved document, the second of a booking like the first.        *)
Scan(n) ==
    {e \in Documents \X Segment : e[1][1] \in OnShard(n) /\ e[1] \in DocumentsOn(e[2])}

(* Step 2: list(find(...)) of the next shard.                              *)
ScanShard(w, n) ==
    /\ pc[w] = "scan"
    /\ n \in shards[w]
    /\ \A m \in shards[w] : n <= m
    /\ tally' = [tally EXCEPT ![w] = Scan(n)]
    /\ shards' = [shards EXCEPT ![w] = @ \ {n}]
    /\ Goto(w, "count")
    /\ UNCHANGED <<redisVars, bookingVars, todo, base, mood, faults>>

CountRecord(w, e) ==
    /\ pc[w] = "count"
    /\ tally' = [tally EXCEPT ![w] = @ \ {e}]
    /\ current' = [current EXCEPT ![e[2]] = @ + 1]
    /\ UNCHANGED <<capKeys, probe, rebuildLock, locks, bookingVars, pc, todo, shards, base,
                   mood, faults>>

ShardCounted(w) ==
    /\ pc[w] = "count"
    /\ tally[w] = {}
    /\ Goto(w, IF shards[w] = {} THEN "finish" ELSE "scan")
    /\ UNCHANGED <<redisVars, bookingVars, todo, shards, tally, base, mood, faults>>

RestoreProbe(w) ==
    /\ pc[w] = "finish"
    /\ probe' = TRUE
    /\ Goto(w, "sleep")
    /\ Forget(w)
    /\ UNCHANGED <<capKeys, current, rebuildLock, locks, bookingVars, todo, shards, tally,
                   faults>>

(* Any other exception: the rebuild is given up where it stands, and the   *)
(* watchdog polls on.                                                      *)
RebuildFails(w) ==
    /\ Rebuilding(w)
    /\ Fault("redis")
    /\ Goto(w, "sleep")
    /\ todo' = [todo EXCEPT ![w] = {}]
    /\ shards' = [shards EXCEPT ![w] = {}]
    /\ tally' = [tally EXCEPT ![w] = {}]
    /\ Forget(w)
    /\ UNCHANGED <<redisVars, bookingVars>>

----------------------------------------------------------------------------
(* Startup: _seed_redis_capacity beside the watchdog's first SET, and the  *)
(* faults of Redis.                                                        *)

Restart(w) ==
    /\ Fault("restart")
    /\ Goto(w, "boot")
    /\ todo' = [todo EXCEPT ![w] = Segment]
    /\ shards' = [shards EXCEPT ![w] = {}]
    /\ tally' = [tally EXCEPT ![w] = {}]
    /\ Forget(w)
    /\ UNCHANGED <<redisVars, bookingVars>>

(* SET NX: a counter that exists keeps its value.                          *)
SeedSegment(w, s) ==
    /\ pc[w] \in {"boot", "booted"}
    /\ s \in todo[w]
    /\ capKeys' = capKeys \cup {s}
    /\ todo' = [todo EXCEPT ![w] = @ \ {s}]
    /\ UNCHANGED <<current, probe, rebuildLock, locks, bookingVars, pc, shards, tally, base,
                   mood, faults>>

StartWatchdog(w) ==
    /\ \/ pc[w] = "boot" /\ probe' = TRUE /\ Goto(w, "booted")
       \/ pc[w] = "booted" /\ todo[w] = {} /\ Goto(w, "sleep") /\ UNCHANGED probe
    /\ UNCHANGED <<capKeys, current, rebuildLock, locks, bookingVars, todo, shards, tally,
                   base, mood, faults>>

(* Redis restarts empty: no snapshot, no append-only file.  A wipe in the  *)
(* middle of a rebuild or of a seeding is told apart.                      *)
Wipe ==
    /\ Fault(IF \E w \in Watchdog : todo[w] # {} \/ Rebuilding(w) THEN "midway" ELSE "wipe")
    /\ capKeys' = {}
    /\ current' = [s \in Segment |-> 0]
    /\ probe' = FALSE
    /\ rebuildLock' = FALSE
    /\ locks' = {}
    /\ Upset
    /\ UNCHANGED <<bookingVars, watchdogVars>>

(* The operator deletes the probe to force a rebuild.                      *)
DeleteProbe ==
    /\ Fault("probe")
    /\ probe' = FALSE
    /\ UNCHANGED <<capKeys, current, rebuildLock, locks, bookingVars, watchdogVars, mood>>

----------------------------------------------------------------------------
BookingStep(b) ==
    \/ Check(b)
    \/ Refuse(b)
    \/ Record(b)
    \/ RepeatInsert(b)
    \/ Abort(b)
    \/ Cancel(b)
    \/ Flag(b)
    \/ \E s \in Segment : CountIn(b, s) \/ CountOut(b, s)

Watch(w) ==
    \/ FindProbeMissing(w)
    \/ TakeRebuildLock(w)
    \/ SkipRebuild(w)
    \/ Connect(w)
    \/ ConnectShards(w)
    \/ ShardCounted(w)
    \/ RestoreProbe(w)
    \/ StartWatchdog(w)
    \/ \E s \in Segment : ZeroSegment(w, s) \/ SeedSegment(w, s)
    \/ \E n \in {0, 1} : ScanShard(w, n)
    \/ \E e \in tally[w] : CountRecord(w, e)

Next ==
    \/ \E b \in Booking : BookingStep(b)
    \/ \E w \in Watchdog : Watch(w) \/ ConnectFails(w) \/ RebuildFails(w) \/ Restart(w)
    \/ ExpireRebuildLock
    \/ OutliveLock
    \/ Wipe
    \/ DeleteProbe

Spec == Init /\ [][Next]_vars

(* A watchdog polls every 30 s until its thread ends, and Redis expires    *)
(* the lock by itself.                                                     *)
Fairness ==
    /\ \A w \in Watchdog : WF_vars(Watch(w))
    /\ WF_vars(ExpireRebuildLock)

FairSpec == Spec /\ Fairness

----------------------------------------------------------------------------
(* Type correctness, whatever restarts, is wiped or fails: a counter stays *)
(* a natural number although the safe decrement, the rebuild's zeroing and *)
(* its recount work on it at once.                                         *)
RebuildTypeOK ==
    /\ capKeys \subseteq Segment
    /\ current \in [Segment -> Nat]
    /\ probe \in BOOLEAN
    /\ rebuildLock \in BOOLEAN
    /\ locks \subseteq Segment
    /\ stage \in [Booking -> {"new", "counting", "counted", "done"}]
    /\ left \in [Booking -> SUBSET Segment]
    /\ record \in [Booking -> {"none", "approved", "rejected", "cancelled", "flagged"}]
    /\ spare \in [Booking -> Nat]
    /\ releasing \subseteq Booking \X Segment
    /\ pc \in [Watchdog -> {"sleep", "missing", "connect", "zero", "scan", "count",
                            "finish", "dead", "boot", "booted"}]
    /\ todo \in [Watchdog -> SUBSET Segment]
    /\ shards \in [Watchdog -> SUBSET {0, 1}]
    /\ tally \in [Watchdog -> SUBSET ((Booking \X Nat) \X Segment)]
    /\ base \in [Watchdog -> SUBSET (Booking \X Nat)]
    /\ mood \in [Watchdog -> {"quiet", "busy", "upset"}]
    /\ faults \subseteq AllFaults \X (1 .. MaxFaults)

Completes(w) == pc[w] = "finish" /\ pc'[w] = "sleep" /\ probe'

(* A rebuild that ran to its end within the 120 s of its lock, without a   *)
(* second wipe, an unreachable shard or a release in between, loses no     *)
(* booking: whatever was approved before it began and still is has its     *)
(* place counted, though other bookings were counted in, recorded and      *)
(* cancelled while it ran.                                                 *)
RecordedSurvive ==
    [][\A w \in Watchdog : Completes(w) /\ mood[w] # "upset" =>
         \A s \in Segment : Cardinality(base[w] \cap DocumentsOn(s)) <= current[s]]_vars

(* When moreover no booking moved meanwhile, the counters are exactly the  *)
(* approved documents of MongoDB, a booking stored twice being counted     *)
(* twice: the instances' watchdogs, that may all have seen the probe       *)
(* missing, never recount together while the lock lasts.                   *)
QuietRebuildIsExact ==
    [][\A w \in Watchdog : Completes(w) /\ mood[w] = "quiet" =>
         \A s \in Segment : current[s] = Cardinality(DocumentsOn(s))]_vars

(* A wiped Redis gets its capacities and its probe back, over rebuilds     *)
(* that fail and a watchdog that dies, as long as a watchdog is left, no   *)
(* instance restarts (a starting one sets the probe without a rebuild) and *)
(* no wipe hits a rebuild (which then sets the probe all the same).        *)
Recovers ==
    ~probe ~> \/ probe /\ capKeys = Segment
              \/ Happened("restart") \/ Happened("midway")
              \/ \A w \in Watchdog : pc[w] = "dead"

(* Approved bookings fit on their segments.  failure-handling.md calls the *)
(* rebuild window conservative: bookings are rejected rather than          *)
(* over-approved.                                                          *)
ApprovedFit == \A s \in Segment : Cardinality(ActiveOn(s)) <= Capacity[s]
=============================================================================
