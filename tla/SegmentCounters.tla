-------------------------- MODULE SegmentCounters --------------------------
(***************************************************************************)
(* What a region's Redis counters promise to the rest of the system: the   *)
(* number of places taken on a road segment moves one place at a time,     *)
(* never above the segment's capacity and never below zero.  Validation    *)
(* implements this specification.                                          *)
(***************************************************************************)
EXTENDS Naturals

CONSTANTS
    Segment,        \* the road segments of one region
    Capacity        \* capacity:segment:<from>:<to>, a number, 0 when unseeded

VARIABLE used       \* current:segment:<from>:<to>

Init == used = [s \in Segment |-> 0]

Take(s) ==
    /\ used[s] < Capacity[s]
    /\ used' = [used EXCEPT ![s] = @ + 1]

GiveBack(s) ==
    /\ used[s] > 0
    /\ used' = [used EXCEPT ![s] = @ - 1]

Next == \E s \in Segment : Take(s) \/ GiveBack(s)

Spec == Init /\ [][Next]_used
=============================================================================
