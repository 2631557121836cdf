SPECIFICATION FairSpec
CONSTANTS
    Region <- MCRegion
    QueryOrder <- MCQueryOrder
    Itineraries <- MCItineraries
    Delete = {d1, d2}
    Get = {g}
    None = None
    FaultKinds <- AllFaults
    MaxFaults = 2
INVARIANTS
    JourneysTypeOK
    GivenBackOnce
    CancellationIsSeen
    GivenBackWhenCancelled
PROPERTIES
    EveryRegionGivenBack
CHECK_DEADLOCK FALSE
