SPECIFICATION ServicesSpec
CHECK_DEADLOCK FALSE
CONSTANTS
    MaxTip = 3
    MaxTxns = 2
    MaxRestarts = 1
    MaxBacks = 1
    Limits = {1, 2}
    LinkIds = {"a", "b"}
    Users = {"u", "v"}
    MaxTime = 3
    Validators = {"v1", "v2"}
    StakeThis <- MCStakeThis
    StakeNext <- MCStakeNext
    BlockHashes = {"h1"}
    NoApprovals = FALSE
    EndorsementDelay = 1
    MinDelay = 2
    DelayStep = 1
    MaxDelay = 4
    MaxTimerIters = 3
    HeightsAhead = 2
    HeightsBefore = 1
    MaxHeight = 3
    MaxNow = 4
    MaxApprovals = 3
    Nodes = {"v1", "v2"}
    Memberships <- MCMemberships
    FirstMembers <- MCFirst
    MaxTransportErrors = 1
    MaxSets = 3
    MaxBlocks = 3
    MaxFailures = 2
    Tasks = {"t1", "t2", "t3"}
    Values = {"x", "y"}
    MaxGets = 4
INVARIANTS
    StreamExact
    ListsSound
    PaymentLinksSound
    DoomslugSafe
    ValidatorsAgree
    PoolSound
