SPECIFICATION FairSpec
CONSTANTS
    NoNode = NoNode
    Node <- MCNode
    Km <- MCKm
    Estimate <- MCEstimate
    PlacesOf <- MCPlacesOf
    Late <- MCLate
    LateRoad <- MCLateRoad
    Overlay <- MCOverlay
    MaxErrors = 3
INVARIANTS
    NoShorterRoute
    PlanIsDrivable
    LegsAreShortest
    DistanceFitsRoute
    RefusalIsTrue
PROPERTIES
    EveryPlanAnswered
CHECK_DEADLOCK FALSE
