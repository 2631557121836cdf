------------------------------ MODULE MCIntake ------------------------------
(* Instances of Intake for TLC: two servers, two attempts under one key.   *)
EXTENDS Intake, TLC

CONSTANTS s1, s2, a1, a2, k

MCServer  == {s1, s2}
MCAttempt == {a1, a2}
MCKey     == {k}
MCKeyOf   == [a \in MCAttempt |-> k]
=============================================================================
