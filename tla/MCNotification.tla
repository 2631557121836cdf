--------------------------- MODULE MCNotification ---------------------------
(* Instances of Notification for TLC: two instances, one driver with two   *)
(* sockets, a final outcome of hers and the answer to a sub-booking.       *)
EXTENDS Notification, TLC

CONSTANTS n1, n2, phone, laptop

MCInstance == {n1, n2}
MCSocket   == {phone, laptop}
MCMessage  == {"final", "sub"}
MCSub      == {"sub"}
MCDriverOf == [x \in MCSocket \cup MCMessage |-> "driver"]
=============================================================================
