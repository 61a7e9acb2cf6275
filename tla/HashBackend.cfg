SPECIFICATION Spec
CONSTANTS
    Lanes = {a}
    Threads = 3
    MaxKeys = 4
    Sizes = {1, 4}
    Ms = {1}
    MaxFills = 4
CHECK_DEADLOCK FALSE
INVARIANTS
    Paired
    NoKeyTwice
PROPERTY RunBatchReturns
