SPECIFICATION FairSpec
CONSTANTS
    north = north
    south = south
    jm1 = jm1
    jm2 = jm2
    NoReply = NoReply
    NoHolder = NoHolder
    Region <- MCRegion
    Coordinator <- MCCoordinator
    Budgets <- Failures
INVARIANTS
    OneCoordinator
    ApprovedKeepsPlaces
    RejectedIsCompensated
    CommittedIsRecorded
PROPERTIES
    BookingSpec
    SagaSettles
CHECK_DEADLOCK FALSE
