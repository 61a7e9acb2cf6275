SPECIFICATION FairSpec
CONSTANTS
    Ms = {1, 2}
    ForceMs = {0}
    Noise = {}
    FailBudget = 1
    MatchFailBudget = 1
PROPERTIES
    EngineFollows
