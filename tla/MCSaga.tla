------------------------------- MODULE MCSaga -------------------------------
(* Instances of Saga for TLC: two regions, two coordinators.               *)
EXTENDS Saga, TLC

CONSTANTS north, south, jm1, jm2

MCRegion      == {north, south}
MCCoordinator == {jm1, jm2}

NoFaults == [k \in FaultKind |-> 0]

(* Storage fails twice, a leader, a thread and a send once, but no         *)
(* sub-booking is redelivered.                                             *)
Storage == [NoFaults EXCEPT !["store"] = 2, !["crash"] = 1, !["thread"] = 1, !["send"] = 1]

(* Leaders crash twice and a sub-booking is validated again.               *)
Redelivery == [NoFaults EXCEPT !["crash"] = 2, !["redeliver"] = 1, !["thread"] = 1]

(* A leader loses its key, and one of the two that act crashes.            *)
TwoLeaders == [NoFaults EXCEPT !["crash"] = 1, !["key"] = 1]

Failures == {Storage, Redelivery, TwoLeaders}

(* An update that fails, and a region that changes its mind.               *)
ChangeOfMind == {[NoFaults EXCEPT !["store"] = 1, !["redeliver"] = 1]}

Symmetry == Permutations(MCRegion) \cup Permutations(MCCoordinator)
=============================================================================
