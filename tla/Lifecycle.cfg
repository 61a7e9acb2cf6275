SPECIFICATION Spec
CONSTANTS
    Ms = {1100, 1650}
    GpuTemps = {82, 90}
    MemTemps = {0}
    StockMw = 100
    MaxStarts = 3
    PowerPct = 90
    PowerMinPct = 40
    ReferenceM = 1100
    FullRatioPct = 200
    WarnC = 80
    MaxC = 85
    WarnMemC = 80
    MaxMemC = 83
    MinMw = 60
    MaxMw = 110
INVARIANTS
    TypeOK
    LockHolderAlone
    LimitRestored
PROPERTY StopIsHeeded
CHECK_DEADLOCK FALSE
