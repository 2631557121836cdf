\* Two attempts under one key and three faults of any kind.
SPECIFICATION FairSpec
CONSTANTS
  s1 = s1
  s2 = s2
  a1 = a1
  a2 = a2
  k = k
  NoKey = NoKey
  None = None
  Server <- MCServer
  Attempt <- MCAttempt
  Key <- MCKey
  KeyOf <- MCKeyOf
  FaultKinds <- AllFaults
  MaxFaults = 3
CHECK_DEADLOCK FALSE
INVARIANTS
  IntakeTypeOK
  ResubmissionIsSafe
PROPERTIES
  AcceptedIsPublished
