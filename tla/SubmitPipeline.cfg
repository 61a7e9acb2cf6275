SPECIFICATION Spec
CONSTANTS
    Hits = {h1, h2}
    HandlerOwnThread = FALSE
    MaxSignals = 1
CHECK_DEADLOCK FALSE
INVARIANTS
    Accounted
    OnePlace
    NothingLostAtExit
PROPERTY StopReachesExit
