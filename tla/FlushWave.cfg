SPECIFICATION Spec
CONSTANTS
    Kinds = {"XNM", "XUNI"}
    Pools = {"accepted", "mixed"}
    Ms = {1}
    NetMs = {1, 2}
    MaxId = 3
    Wave = 2
    Parallel = 2
CHECK_DEADLOCK FALSE
INVARIANTS
    TypeOK
    OnlyAcceptedLeave
    AcceptedNotResent
PROPERTIES
    WavesAreFull
    BagDrains
