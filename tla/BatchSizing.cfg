SPECIFICATION Spec
CONSTANTS
    Ms <- MCMs
    AttemptBytes <- MCAttemptBytes
    BytesPerMib = 10
    TotalMib = 40
    TargetPct = 79
    HeadroomPct = 16
    EmergencyPct = 93
    OverheadPct = 5
    TargetMib = 0
    HeadroomMib = 0
    EmergencyMib = 0
    OverheadMib = 0
    OverheadFloorMib = 1
    ReferenceM = 1100
    HarvestM = 100
    MaxLanes = 2
    ExplicitBatch = 0
    ExplicitMaxBatch = 0
    ShrinkRounds = 20
    MinScalePct = 30
    StartScalePct = 70
    BatchStep = 1
    TargetC = 76
    CapC = 80
    GpuCapC = 84
    GpuTemps = {50, 85}
    MemTemps = {0, 62, 75, 76, 77, 80}
    OthersMib = {2, 9}
INVARIANTS
    TypeOK
    BatchInPlan
    PackFitsCaps
PROPERTIES
    CutsStayAboveFloor
    MiningComesBack
CHECK_DEADLOCK FALSE
