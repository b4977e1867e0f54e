SPECIFICATION Spec
CONSTANTS
    Leaf = {l1, l2}
    MaxHeight = 4
    BadBlocks = {}
    Prover = TRUE
    ChunkSize = 0
    MaxCrashes = 2
    MaxIoErrors = 1
INVARIANT Agreement
INVARIANT TreeIsPrefix
CHECK_DEADLOCK FALSE
