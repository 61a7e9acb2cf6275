SPECIFICATION Spec
CONSTANTS
    Hashes = {h1, h2}
    Reasons = {"new"}
    KSaveEveryOps = 2
    MaxId = 3
    MaxRestarts = 3
INVARIANTS
    BagNeverLoses
PROPERTY ImplementsBag
SYMMETRY Symmetry
CHECK_DEADLOCK FALSE
