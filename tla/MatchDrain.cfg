SPECIFICATION DrainSpec
CONSTANTS
    Ms = {1, 2}
    ForceMs = {0, 1}
    Limits = {TRUE, FALSE}
    MinQueue = 1
    Blocks <- MCBlocks
INVARIANT HitsHandedOver
PROPERTY MiningResumes
CHECK_DEADLOCK FALSE
