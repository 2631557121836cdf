\* One wipe between two bookings of a track with one place.
SPECIFICATION Spec
CONSTANTS
  w1 = w1
  w2 = w2
  Watchdog <- MCWatchdog
  Booking <- MCBooking
  SubBooking <- MCSub
  Segment <- MCSegment
  SegmentsOf <- MCSegmentsOf
  Capacity <- MCCapacity
  Booked <- MCBooked
  SecondShard <- MCSub
  FaultKinds <- OneWipe
  MaxFaults = 1
CHECK_DEADLOCK FALSE
INVARIANTS
  ApprovedFit
