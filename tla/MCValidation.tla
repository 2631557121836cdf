--------------------------- MODULE MCValidation ---------------------------
(* Instances of Validation for TLC: three segments of which 2 is a track    *)
(* (one place) shared by two bookings, a vehicle with two bookings and a     *)
(* sub-booking of a saga.                                                  *)
EXTENDS Validation, TLC

CONSTANTS i1, i2

MCInstance == {i1, i2}
Symmetry == Permutations(MCInstance)

MCBooking == {"bus", "car", "leg"}
MCSub == {"leg"}
MCVehicleOf == [b \in MCBooking |-> IF b = "leg" THEN "v2" ELSE "v1"]
MCSegment == 1 .. 3
MCCapacity == [s \in MCSegment |-> IF s = 2 THEN 1 ELSE 2]
MCSegmentsOf == [b \in MCBooking |->
    CASE b = "bus" -> {1, 2} [] b = "car" -> {3} [] b = "leg" -> {2}]

(* one message per booking *)
MCMessage == {"mbus", "mcar", "mleg"}
MCBookingOf == [m \in MCMessage |->
    CASE m = "mbus" -> "bus" [] m = "mcar" -> "car" [] m = "mleg" -> "leg"]

(* two requests, for the run with every fault and a free environment *)
TwoMessages == {"mbus", "mleg"}
TwoBookings == {"bus", "leg"}

NoFault == {}
ServiceFaults == AllFaults \ {"send"}
CrashAndSend == {"crash", "send"}

(* the release that may come at any time is one of the direct booking      *)
BusReleases == \A n \in DOMAIN releaseLog : releaseLog[n] = "bus"
=============================================================================
