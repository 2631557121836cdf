\* Crashes, redeliveries and lost outcomes: what dedup and lock expiry repair.
SPECIFICATION FairSpec
CONSTANTS
  i1 = i1
  i2 = i2
  Instance <- MCInstance
  Message <- TwoMessages
  NoMessage = NoMessage
  Booking <- TwoBookings
  BookingOf <- MCBookingOf
  SubBooking <- MCSub
  SegmentsOf <- MCSegmentsOf
  VehicleOf <- MCVehicleOf
  Segment <- MCSegment
  Capacity <- MCCapacity
  FaultKinds <- CrashAndSend
  MaxFaults = 3
  MaxReleases = 0
  LockMayExpire = FALSE
CHECK_DEADLOCK FALSE
INVARIANTS
  ApprovedIsCounted
  OneVerdict
PROPERTIES
  
  LocksAreFreed
