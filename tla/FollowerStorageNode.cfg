SPECIFICATION FairSpec
CONSTANTS
    Leaf = {l1, l2}
    MaxHeight = 4
    BadBlocks = {3}
    Prover = FALSE
    ChunkSize = 0
    MaxCrashes = 2
    MaxIoErrors = 0
INVARIANT Agreement
INVARIANT LoadPanicsOnlyAtFirstBlock
PROPERTY NoBlockLost
PROPERTY CatchesUp
CHECK_DEADLOCK FALSE
