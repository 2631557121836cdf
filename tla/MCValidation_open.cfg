\* All faults of the service, releases and status changes at any time.
SPECIFICATION OpenSpec
CONSTANTS
  i1 = i1
  i2 = i2
  Instance <- MCInstance
  Message <- TwoMessages
  NoMessage = NoMessage
  Booking <- TwoBookings
  BookingOf <- MCBookingOf
  SubBooking <- MCSub
  SegmentsOf <- MCSegmentsOf
  VehicleOf <- MCVehicleOf
  Segment <- MCSegment
  Capacity <- MCCapacity
  FaultKinds <- ServiceFaults
  MaxFaults = 2
  MaxReleases = 1
  LockMayExpire = FALSE
SYMMETRY Symmetry
CONSTRAINT BusReleases
CHECK_DEADLOCK FALSE
INVARIANTS
  TypeOK
  NoOverbooking
  LocksExclusive
  RoomIsKept
  ApprovedIsRecorded
PROPERTIES
  CountersSpec
