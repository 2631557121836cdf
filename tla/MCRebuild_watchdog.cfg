\* Two watchdogs, two bookings and two faults of any kinds.
SPECIFICATION FairSpec
CONSTANTS
  w1 = w1
  w2 = w2
  Watchdog <- MCWatchdog
  Booking <- MCBooking
  SubBooking <- MCSub
  Segment <- MCSegment
  SegmentsOf <- MCSegmentsOf
  Capacity <- WideCapacity
  Booked <- MCBooked
  SecondShard <- MCSub
  FaultKinds <- AllFaults
  MaxFaults = 2
CHECK_DEADLOCK FALSE
PROPERTIES
  RecordedSurvive
  QuietRebuildIsExact
  Recovers
