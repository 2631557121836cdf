---------------------------- MODULE Cancellation ----------------------------
(***************************************************************************)
(* A region's validation service together with the two services that       *)
(* change a booking after its verdict: journey-management, whose           *)
(* DELETE /journeys/{booking_id} handlers cancel a direct booking and send *)
(* the release of its capacity, and the authority service, which flags a   *)
(* booking.  Several handlers may work on one booking.                     *)
(*                                                                         *)
(* The free environment of Validation is replaced here by what these       *)
(* handlers really do; that they stay within what Validation expects of    *)
(* its environment is the property ServiceContract.                        *)
(***************************************************************************)
EXTENDS Validation

CONSTANTS
    Request,        \* DELETE requests
    TargetOf,       \* the direct booking each of them names
    HandlerFaults,  \* which calls of a handler can fail, of "write" and "publish"
    Flaggable       \* bookings that the authority service may flag

ASSUME RequestAssumption ==
    /\ \A r \in Request : TargetOf[r] \in Booking
    /\ Flaggable \subseteq Booking

VARIABLE handler    \* where cancel_journey stands, per request

cancelVars == <<vars, handler>>

Advance(r, stage) == handler' = [handler EXCEPT ![r] = stage]

CancelInit ==
    /\ Init
    /\ handler = [r \in Request |-> "received"]

(* 404 without a record; 409 "Already cancelled" by the record's status at *)
(* this moment; any other status, rejected and flagged included, goes on.  *)
Refused(b) == records[b] = <<>> \/ Head(records[b]) = "cancelled"

FindBooking(r) ==
    /\ handler[r] = "received"
    /\ Advance(r, IF Refused(TargetOf[r]) THEN "done" ELSE "cancelling")
    /\ UNCHANGED vars

(* Mutant: the record is deleted.                                          *)
DeleteRecord(b) ==
    /\ records' = [records EXCEPT ![b] = <<>>]
    /\ UNCHANGED <<requestVars, workerVars, redisVars, outcomeVars, releaseVars, faults>>

(* cancel_booking_record: an unconditional update of the oldest record.    *)
MarkCancelled(b) == SetStatus(b, "cancelled")

CancelRecord(r) ==
    /\ handler[r] = "cancelling"
    /\ MarkCancelled(TargetOf[r])
    /\ Advance(r, "publishing")

(* _cancel_booking_in_region answers False, and nobody looks at it.        *)
CancelRecordFails(r) ==
    /\ "write" \in HandlerFaults
    /\ handler[r] = "cancelling"
    /\ Advance(r, "publishing")
    /\ UNCHANGED vars

PublishRelease(r) ==
    /\ handler[r] = "publishing"
    /\ SendRelease(TargetOf[r])
    /\ Advance(r, "done")

(* Kafka does not take the release ("Non-fatal"), or the process dies: the *)
(* release is lost for good.                                               *)
PublishReleaseFails(r) ==
    /\ "publish" \in HandlerFaults
    /\ handler[r] = "publishing"
    /\ Advance(r, "lost")
    /\ UNCHANGED vars

(* The authority service's flag_booking, on any booking it finds.          *)
FlagBooking(b) ==
    /\ SetStatus(b, "flagged")
    /\ UNCHANGED handler

Handle(r) == FindBooking(r) \/ CancelRecord(r) \/ PublishRelease(r)

CancelNext ==
    \/ Next /\ UNCHANGED handler
    \/ \E r \in Request : Handle(r) \/ CancelRecordFails(r) \/ PublishReleaseFails(r)
    \/ \E b \in Flaggable : FlagBooking(b)

CancelSpec == CancelInit /\ [][CancelNext]_cancelVars

(* A handler runs to its end once the request is there.                    *)
FairCancelSpec ==
    /\ CancelSpec
    /\ Fairness
    /\ \A r \in Request : WF_cancelVars(Handle(r))

----------------------------------------------------------------------------
(* Properties *)

(* The handlers use the region as Validation's open specification expects, *)
(* so that everything shown of OpenSpec holds of the composition.          *)
ServiceContract == OpenSpec

(* A cancellation that was accepted makes room on every segment of its     *)
(* booking in the end, however often the release consumer restarts, unless *)
(* the handler failed to publish the release at all.  (Room seen at some   *)
(* moment: another booking may take it at once.)                           *)
Accepted(r) == handler[r] \in {"cancelling", "publishing"}

CancelledIsGivenBack ==
    \A r \in Request : \A s \in SegmentsOf[TargetOf[r]] :
        Accepted(r) ~> (current[s] < Capacity[s] \/ handler[r] = "lost")
=============================================================================
