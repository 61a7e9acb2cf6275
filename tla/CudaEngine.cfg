SPECIFICATION Spec
CONSTANTS
    Hits = {h1}
    MaxLanes = 2
    Plans = {1, 2}
    KRing = 2
CHECK_DEADLOCK FALSE
INVARIANTS
    RingsAndMutex
    LanesServed
PROPERTIES
    ImplementsSource
    MineReturns
    StopReturns
    MatchesComeOut
