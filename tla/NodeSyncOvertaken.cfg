SPECIFICATION SyncSpec
CONSTANTS
    Block = {0, 1, 2, 3, 4}
    Good = {0, 1, 2, 3, 4}
    HeightOf <- MCHeightOf
    NoBlock = NoBlock
    MaxHeight = 4
    MaxCacheSize = 10
    Peer = {p1, p2}
    FirstStored <- MCFull
    StartTip = 3
    UnderWay = {1, 2, 3}
    NonEmpty = {4}
    Contract = {3, 4}
    Id = {1, 2, 3}
    ChunkSize = 1
    Threshold = 0
    Prover = FALSE
    Word = 16
    MaxReports = 1
    MaxFaults = 0
INVARIANT AcceptIsServed
CHECK_DEADLOCK FALSE
