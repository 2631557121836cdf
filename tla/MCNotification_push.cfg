\* Two instances, two sockets of one driver and one fault.
SPECIFICATION FairSpec
CONSTANTS
  n1 = n1
  n2 = n2
  phone = phone
  laptop = laptop
  None = None
  Instance <- MCInstance
  Message <- MCMessage
  SubBooking <- MCSub
  Socket <- MCSocket
  DriverOf <- MCDriverOf
  FaultKinds <- AllFaults
  MaxFaults = 1
CHECK_DEADLOCK FALSE
INVARIANTS
  NotificationTypeOK
  ToldOnce
PROPERTIES
  OpenSocketIsTold
