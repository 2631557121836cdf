--------------------------- MODULE AtomicBooking ---------------------------
(***************************************************************************)
(* What a cross-region booking promises: every region votes, one decision  *)
(* is taken for all of them, commit only on unanimous approval, and the    *)
(* driver never hears two verdicts.  A booking may also fail, even one     *)
(* that was decided, after which nobody is told anything more.             *)
(***************************************************************************)
CONSTANT Region     \* the regions the journey crosses

VARIABLES
    vote,           \* per region, its latest verdict, "NONE" before the first
    decision,       \* "open", "commit", "abort" or "failed"
    told            \* the verdicts the driver has been sent

vars == <<vote, decision, told>>

Init ==
    /\ vote = [r \in Region |-> "NONE"]
    /\ decision = "open"
    /\ told = {}

(* A region may change its mind; what it says after the decision has no    *)
(* effect on it.                                                           *)
Vote(r) ==
    /\ \E v \in {"APPROVED", "REJECTED"} : vote' = [vote EXCEPT ![r] = v]
    /\ UNCHANGED <<decision, told>>

Commit ==
    /\ decision = "open"
    /\ \A r \in Region : vote[r] = "APPROVED"
    /\ decision' = "commit"
    /\ UNCHANGED <<vote, told>>

(* One region that has not approved is enough to abort, but a booking of   *)
(* which the driver has heard is never aborted.                            *)
Abort ==
    /\ decision = "open"
    /\ told = {}
    /\ \E r \in Region : vote[r] # "APPROVED"
    /\ decision' = "abort"
    /\ UNCHANGED <<vote, told>>

Fail ==
    /\ decision' = "failed"
    /\ UNCHANGED <<vote, told>>

Tell(verdict) ==
    /\ \/ decision = "commit" /\ verdict = "APPROVED"
       \/ decision = "abort" /\ verdict = "REJECTED"
    /\ told' = told \cup {verdict}
    /\ UNCHANGED <<vote, decision>>

Next ==
    \/ \E r \in Region : Vote(r)
    \/ Commit \/ Abort \/ Fail
    \/ \E v \in {"APPROVED", "REJECTED"} : Tell(v)

Spec == Init /\ [][Next]_vars
=============================================================================
