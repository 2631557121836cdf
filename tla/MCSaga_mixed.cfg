SPECIFICATION Spec
CONSTANTS
    north = north
    south = south
    jm1 = jm1
    jm2 = jm2
    NoReply = NoReply
    NoHolder = NoHolder
    Region <- MCRegion
    Coordinator <- MCCoordinator
    Budgets <- ChangeOfMind
INVARIANTS
    ApprovedKeepsPlaces
CHECK_DEADLOCK FALSE
