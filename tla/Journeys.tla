------------------------------ MODULE Journeys ------------------------------
(***************************************************************************)
(* A booking across regions after its saga has decided to commit: the      *)
(* coordinator writes a copy of it to every region involved, and the       *)
(* requests of journey-management look for it in all regional              *)
(* data-services, one after the other: GET /journeys/{id} and DELETE stop  *)
(* at the first copy, GET /journeys asks them all.  DELETE cancels every   *)
(* copy and gives the places of every region back.  A region's authority   *)
(* may flag its copy.                                                      *)
(***************************************************************************)
EXTENDS Integers, Sequences, SequencesExt, FiniteSets

CONSTANTS
    Region,         \* regions with a data-service
    QueryOrder,     \* the order of REGION_DATA_SERVICES
    Itineraries,    \* possible values of regions_involved
    Delete,         \* DELETE requests
    Get,            \* GET requests, for the booking or the driver's list
    None,           \* no copy seen
    FaultKinds,     \* the faults that can occur
    MaxFaults       \* how many of them, in all

AllFaults == {"replay", "repeat", "store", "read", "write", "release", "flag"}

Request == Delete \cup Get

ASSUME JourneysAssumption ==
    /\ QueryOrder \in Seq(Region)
    /\ ToSet(QueryOrder) = Region
    /\ \A i \in Itineraries : i \in Seq(Region) /\ i # <<>> /\ IsInjective(i)
    /\ IsFiniteSet(Delete)
    /\ None \notin {"approved", "cancelled", "flagged"}
    /\ FaultKinds \subseteq AllFaults
    /\ MaxFaults \in Nat

VARIABLES
    regions,        \* regions_involved of the saga
    writing,        \* regions the coordinator has still to write to
    committed,      \* the saga is COMMITTED
    records,        \* per regional data-service, status of the copies, oldest first
    given,          \* per region, capacity-releases sent for the booking
    pc,             \* per request, where it stands
    unasked,        \* per request, regions it has still to query
    seen,           \* per GET, status of the copy it has found
    left,           \* per request, regions to cancel in, then to release
    after,          \* history: DELETEs answered before a request came
    early,          \* history: DELETEs accepted before the saga was COMMITTED
    faults          \* the faults so far, each kind numbered

sagaVars    == <<regions, writing, committed>>
requestVars == <<pc, unasked, seen, left, after, early>>
vars == <<sagaVars, records, given, requestVars, faults>>

Fault(kind) ==
    /\ kind \in FaultKinds
    /\ Cardinality(faults) < MaxFaults
    /\ \E n \in 1 .. MaxFaults :
         /\ <<kind, n>> \notin faults
         /\ \A m \in 1 .. n - 1 : <<kind, m>> \in faults
         /\ faults' = faults \cup {<<kind, n>>}

Happened(kind) == <<kind, 1>> \in faults

Goto(q, place) == pc' = [pc EXCEPT ![q] = place]

Init ==
    /\ regions \in Itineraries
    /\ writing = regions
    /\ committed = FALSE
    /\ records = [r \in Region |-> <<>>]
    /\ given = [r \in Region |-> 0]
    /\ pc = [q \in Request |-> "new"]
    /\ unasked = [q \in Request |-> <<>>]
    /\ seen = [q \in Get |-> None]
    /\ left = [q \in Request |-> <<>>]
    /\ after = [q \in Request |-> {}]
    /\ early = {}
    /\ faults = {}

----------------------------------------------------------------------------
(* The commit of _advance_saga *)

(* insert_booking: a document of its own, whatever is there.               *)
InsertCopy(r) == records' = [records EXCEPT ![r] = Append(@, "approved")]

(* A copy for the next region; when its data-service does not answer, the  *)
(* copy goes to the global one, which no request ever asks.                *)
WriteCopy ==
    /\ writing # <<>>
    /\ writing' = Tail(writing)
    /\ \/ InsertCopy(Head(writing)) /\ UNCHANGED faults
       \/ Fault("store") /\ UNCHANGED records
    /\ UNCHANGED <<regions, committed, given, requestVars>>

(* The data-service loses the answer to an insert, and repeats it.         *)
RepeatInsert ==
    /\ writing # <<>>
    /\ Fault("repeat")
    /\ InsertCopy(Head(writing))
    /\ UNCHANGED <<sagaVars, given, requestVars>>

Commit ==
    /\ writing = <<>>
    /\ committed' = TRUE
    /\ UNCHANGED <<regions, writing, records, given, requestVars, faults>>

(* The leader dies before COMMITTED is stored: the next one commits again. *)
Replay ==
    /\ ~committed
    /\ Fault("replay")
    /\ writing' = regions
    /\ UNCHANGED <<regions, committed, records, given, requestVars>>

----------------------------------------------------------------------------
(* Data-service: both update the oldest copy, whatever its status, and     *)
(* none is no error.                                                       *)

(* Mutant: a document of its own for every change.                         *)
InsertStatus(r, status) == [records EXCEPT ![r] = Append(@, status)]

SetStatus(r, status) ==
    IF records[r] = <<>> THEN records ELSE [records EXCEPT ![r][1] = status]

Flag(r) ==
    /\ records[r] # <<>>
    /\ Fault("flag")
    /\ records' = SetStatus(r, "flagged")
    /\ UNCHANGED <<sagaVars, given, requestVars>>

----------------------------------------------------------------------------
(* _find_booking_across_regions and _get_bookings_by_driver_all_regions *)

Receive(q) ==
    /\ pc[q] = "new"
    /\ Goto(q, "asking")
    /\ unasked' = [unasked EXCEPT ![q] = QueryOrder]
    /\ after' = [after EXCEPT ![q] = {d \in Delete : pc[d] = "cancelled"}]
    /\ UNCHANGED <<sagaVars, records, given, seen, left, early, faults>>

Ask(q) == pc[q] = "asking"

Copy(q) == records[Head(unasked[q])]

(* The region asked has no copy, or does not answer: it is passed over,    *)
(* and after the last one the answer is 404.                               *)
AskNext(q) ==
    /\ Ask(q)
    /\ \/ Copy(q) = <<>> /\ UNCHANGED faults
       \/ Copy(q) # <<>> /\ Fault("read")
    /\ unasked' = [unasked EXCEPT ![q] = Tail(@)]
    /\ IF Len(unasked[q]) = 1 THEN Goto(q, "missing") ELSE UNCHANGED pc
    /\ UNCHANGED <<sagaVars, records, given, seen, left, after, early>>

(* The copy that is found first is shown.  (A listing asks the other       *)
(* regions as well, and shows the first copy all the same.)                *)
Show(q) ==
    /\ q \in Get
    /\ Ask(q)
    /\ Copy(q) # <<>>
    /\ seen' = [seen EXCEPT ![q] = Head(Copy(q))]
    /\ unasked' = [unasked EXCEPT ![q] = <<>>]
    /\ Goto(q, "shown")
    /\ UNCHANGED <<sagaVars, records, given, left, after, early, faults>>

----------------------------------------------------------------------------
(* cancel_journey *)

Refuse(d) ==
    /\ Ask(d)
    /\ Copy(d) # <<>> /\ Head(Copy(d)) = "cancelled"
    /\ unasked' = [unasked EXCEPT ![d] = <<>>]
    /\ Goto(d, "refused")
    /\ UNCHANGED <<sagaVars, records, given, seen, left, after, early, faults>>

(* Mutant: only the copy of the first region is cancelled.                 *)
CancelFirstOnly == <<Head(regions)>>

RegionsToCancel == regions

Accept(d) ==
    /\ Ask(d)
    /\ Copy(d) # <<>> /\ Head(Copy(d)) # "cancelled"
    /\ unasked' = [unasked EXCEPT ![d] = <<>>]
    /\ Goto(d, "cancelling")
    /\ left' = [left EXCEPT ![d] = RegionsToCancel]
    /\ early' = IF committed THEN early ELSE early \cup {d}
    /\ UNCHANGED <<sagaVars, records, given, seen, after, faults>>

(* _cancel_booking_in_region: the answer, or its absence, is not looked at.*)
CancelCopy(d) ==
    /\ pc[d] = "cancelling"
    /\ left[d] # <<>>
    /\ left' = [left EXCEPT ![d] = Tail(@)]
    /\ \/ records' = SetStatus(Head(left[d]), "cancelled") /\ UNCHANGED faults
       \/ Fault("write") /\ UNCHANGED records
    /\ UNCHANGED <<sagaVars, given, pc, unasked, seen, after, early>>

(* Mutant: one release, as for a direct booking.                           *)
ReleaseFirstOnly == <<Head(regions)>>

RegionsToRelease == regions

(* The saga is read for the segments of each region.                       *)
ReadSaga(d) ==
    /\ pc[d] = "cancelling"
    /\ left[d] = <<>>
    /\ Goto(d, "releasing")
    /\ left' = [left EXCEPT ![d] = RegionsToRelease]
    /\ UNCHANGED <<sagaVars, records, given, unasked, seen, after, early, faults>>

SendRelease(d) ==
    /\ pc[d] = "releasing"
    /\ left[d] # <<>>
    /\ given' = [given EXCEPT ![Head(left[d])] = @ + 1]
    /\ left' = [left EXCEPT ![d] = Tail(@)]
    /\ UNCHANGED <<sagaVars, records, pc, unasked, seen, after, early, faults>>

(* The look-up of the saga or a send raises ("Non-fatal"): what is left is *)
(* never sent.                                                             *)
ReleaseFails(d) ==
    /\ \/ pc[d] = "cancelling" /\ left[d] = <<>>
       \/ pc[d] = "releasing" /\ left[d] # <<>>
    /\ Fault("release")
    /\ Goto(d, "cancelled")
    /\ left' = [left EXCEPT ![d] = <<>>]
    /\ UNCHANGED <<sagaVars, records, given, unasked, seen, after, early>>

Answer(d) ==
    /\ pc[d] = "releasing"
    /\ left[d] = <<>>
    /\ Goto(d, "cancelled")
    /\ UNCHANGED <<sagaVars, records, given, unasked, seen, left, after, early,
                   faults>>

----------------------------------------------------------------------------
Cancel(d) ==
    \/ Refuse(d)
    \/ Accept(d)
    \/ CancelCopy(d)
    \/ ReadSaga(d)
    \/ SendRelease(d)
    \/ Answer(d)

Next ==
    \/ WriteCopy
    \/ RepeatInsert
    \/ Commit
    \/ Replay
    \/ \E q \in Request : Receive(q) \/ AskNext(q) \/ Show(q)
    \/ \E d \in Delete : Cancel(d) \/ ReleaseFails(d)
    \/ \E r \in Region : Flag(r)

Spec == Init /\ [][Next]_vars

(* A handler runs to its end once its request is there.                    *)
FairSpec == Spec /\ \A d \in Delete : WF_vars(AskNext(d) \/ Cancel(d))

----------------------------------------------------------------------------
(* Copies of a region beyond its first: one for every time the commit      *)
(* starts over, and one for every insert that is repeated.                 *)
Surplus == Cardinality(faults \cap ({"replay", "repeat"} \X (1 .. MaxFaults)))

(* Type correctness: every request works down its list of regions, a       *)
(* region has no more copies of the booking than one, and one for every    *)
(* replayed commit and repeated insert, and there are no more releases of  *)
(* a region than DELETEs.                                                  *)
JourneysTypeOK ==
    /\ regions \in Itineraries
    /\ IsSuffix(writing, regions)
    /\ committed \in BOOLEAN
    /\ records \in [Region -> Seq({"approved", "cancelled", "flagged"})]
    /\ \A r \in Region : Len(records[r]) <= 1 + Surplus
    /\ given \in [Region -> 0 .. Cardinality(Delete)]
    /\ pc \in [Request -> {"new", "asking", "missing", "shown", "refused", "cancelling",
                           "releasing", "cancelled"}]
    /\ \A q \in Request : IsSuffix(unasked[q], QueryOrder) /\ IsSuffix(left[q], regions)
    /\ seen \in [Get -> {None, "approved", "cancelled", "flagged"}]
    /\ after \in [Request -> SUBSET Delete]
    /\ early \subseteq Delete
    /\ faults \subseteq AllFaults \X (1 .. MaxFaults)

Accepted == {d \in Delete : pc[d] \in {"cancelling", "releasing", "cancelled"}}

(* No two cancellations were accepted side by side.                        *)
OneByOne == \A d, e \in Accepted : d # e => d \in after[e] \/ e \in after[d]

(* The places of a region are given back at most once, in whatever order   *)
(* the regions are asked and whichever does not answer, as long as DELETEs *)
(* come one by one after the commit, every copy can be cancelled, and no   *)
(* flag lies over a cancelled copy.                                        *)
GivenBackOnce ==
    OneByOne /\ early = {} /\ ~Happened("write") /\ ~Happened("flag") =>
        \A r \in Region : given[r] <= 1

(* A driver whose DELETE was answered never sees the booking approved      *)
(* again, whichever region answers first, unless the DELETE overtook the   *)
(* commit or a copy could not be cancelled.                                *)
CancellationIsSeen ==
    \A q \in Get :
        after[q] \ early # {} /\ ~Happened("write") => seen[q] # "approved"

Approved(r) == {i \in 1 .. Len(records[r]) : records[r][i] = "approved"}

(* What a rebuild of the counters would count in again: of the copies of a *)
(* region whose places were given back, none counts as approved but those  *)
(* that a replayed commit or a repeated insert left behind the first,      *)
(* unless a DELETE overtook the commit or a copy could not be cancelled.   *)
GivenBackWhenCancelled ==
    early = {} /\ ~Happened("write") =>
        \A r \in Region : given[r] > 0 => Cardinality(Approved(r)) <= Surplus

(* An accepted DELETE gives the places of every region involved back, if   *)
(* the saga can be read and Kafka takes the releases.                      *)
EveryRegionGivenBack ==
    \A d \in Delete :
        pc[d] = "cancelling" ~> \/ \A r \in ToSet(regions) : given[r] > 0
                                \/ Happened("release")
=============================================================================
