\* Two handlers cancel one booking while both consumers may restart.
SPECIFICATION FairCancelSpec
CONSTANTS
  i1 = i1
  r1 = r1
  r2 = r2
  Instance <- OneInstance
  Message <- TwoBookings
  NoMessage = NoMessage
  Booking <- TwoBookings
  BookingOf <- MCBookingOf
  SubBooking <- MCSub
  SegmentsOf <- MCSegmentsOf
  VehicleOf <- MCVehicleOf
  Segment <- MCSegment
  Capacity <- MCCapacity
  FaultKinds <- Restarts
  MaxFaults = 1
  MaxReleases = 2
  LockMayExpire = FALSE
  Request <- TwoRequests
  TargetOf <- BothAnn
  HandlerFaults <- HandlersFail
  Flaggable <- AnnOnly
CHECK_DEADLOCK FALSE
INVARIANTS
  VerdictStands
PROPERTIES
  ServiceContract
  CancelledIsGivenBack
