SPECIFICATION Spec
CONSTANTS
    Leaf = {l1, l2}
    MaxHeight = 4
    BadBlocks = {}
    Prover = TRUE
    ChunkSize = 0
    MaxCrashes = 0
    MaxIoErrors = 0
INVARIANT DoubleSpendCaughtBeforeCommit
CHECK_DEADLOCK FALSE
