--------------------------- MODULE MCCancellation ---------------------------
(* Instances of Cancellation for TLC: bookings of different vehicles that  *)
(* all use segment 1, a track with one place.                              *)
EXTENDS Cancellation

CONSTANTS i1, r1, r2

MCSegment == {1}
MCCapacity == [s \in MCSegment |-> 1]
MCSegmentsOf == [b \in Booking |-> {1}]
MCVehicleOf == [b \in Booking |-> b]
MCBookingOf == [m \in Message |-> m]
MCSub == {}

OneInstance == {i1}
TwoBookings == {"ann", "bob"}

(* two handlers of one cancellation *)
TwoRequests == {r1, r2}
BothAnn == [r \in TwoRequests |-> "ann"]

(* the authority service flags the booking that is being cancelled *)
AnnOnly == {"ann"}

HandlersFail == {"write", "publish"}
Restarts == {"crash", "release_consumer"}
=============================================================================
