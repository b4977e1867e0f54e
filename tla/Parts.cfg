SPECIFICATION PartsSpec
CONSTANTS
    P = 7
    Bits = 3
    Depth = 3
    RangeBits = 2
    Secrets = {1, 2}
    Owners = {1}
    Psis = {1}
    MaxBlocks = 2
    Position <- MCPosition
    Elements = {3, 6, 7, 11}
    Levels = 4
    MaxBatch = 3
    MaxFails = 1
    MaxHeight = 7
    MaxCacheSize = 4
    Refused = {7}
    NoBlock = NoBlock
    Block <- MCBlock
    Good <- MCGood
    HeightOf <- MCHeight
INVARIANTS
    ChipsExact
    ValueConserved
    
    RootsCanonical
    
    DatabaseExact
    IndexSound
    NoOrphan
    ConfirmedCached
PROPERTIES
    LeavesStay
    ReachesTip
CHECK_DEADLOCK FALSE
