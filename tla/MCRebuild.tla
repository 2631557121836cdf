----------------------------- MODULE MCRebuild -----------------------------
(* Instances of Rebuild for TLC: a road and a track; two watchdogs; a       *)
(* booking and a sub-booking of the track, on different shards.             *)
EXTENDS Rebuild, TLC

CONSTANTS w1, w2

MCWatchdog == {w1, w2}
MCBooking  == {"bus", "leg"}
MCSub      == {"leg"}
MCBooked   == {"bus"}
MCSegment  == {1, 2}
MCCapacity == [s \in MCSegment |-> IF s = 2 THEN 1 ELSE 2]
MCSegmentsOf == [b \in MCBooking |-> {2}]

(* two places on the track: both bookings are counted and recorded         *)
WideCapacity == [s \in MCSegment |-> 2]

OneWipe == {"wipe"}
=============================================================================
