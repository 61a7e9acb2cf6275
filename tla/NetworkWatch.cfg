SPECIFICATION FairSpec
CONSTANTS
    Ms = {1, 2}
    ForceMs = {0, 1}
    Noise = {0}
    FailBudget = 1
    MatchFailBudget = 2
INVARIANTS
    EngineAtTarget
PROPERTIES
    BeliefCatchesUp
    NetworkComesUp
