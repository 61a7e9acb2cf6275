SPECIFICATION FwdSpec
CONSTANTS
    Hashes = {h1, h2}
    Reasons = {"new"}
    KSaveEveryOps = 2
    MaxId = 2
    MaxRestarts = 2
    Batch = 1
INVARIANTS
    StoreConsistent
    HeldIdsStable
    DirtyCountsLag
    MarkedAreInVault
PROPERTY BagReachesVault
CHECK_DEADLOCK FALSE
