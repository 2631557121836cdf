\* A validation that outlives its lock's TTL; no other fault.
SPECIFICATION Spec
CONSTANTS
  i1 = i1
  i2 = i2
  Instance <- MCInstance
  Message <- MCMessage
  NoMessage = NoMessage
  Booking <- MCBooking
  BookingOf <- MCBookingOf
  SubBooking <- MCSub
  SegmentsOf <- MCSegmentsOf
  VehicleOf <- MCVehicleOf
  Segment <- MCSegment
  Capacity <- MCCapacity
  FaultKinds <- NoFault
  MaxFaults = 0
  MaxReleases = 0
  LockMayExpire = TRUE
CHECK_DEADLOCK FALSE
INVARIANTS
  NoOverbooking
