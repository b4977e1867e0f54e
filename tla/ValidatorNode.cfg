SPECIFICATION FairSpec
CONSTANTS
    t1 = t1
    t2 = t2
    t3 = t3
    Txn = {t1, t2, t3}
    Client = {c1, c2}
    NoClient = NoClient
    NoTxn = NoTxn
    NoRoot = NoRoot
    Lease <- MCLease
    ChangesOf <- MCChanges
    InputsOf <- MCInputs
    OutputsOf <- MCOutputs
    MintBurn = {t3}
    Anchored = {t1, t2}
    MaxCount = 2
    RootCount = 2
    NumValidators = 1
    SelfIndex = 0
    MaxEmpty = 2
    MaxReceived = 1
    MaxCrashes = 1
INVARIANT MempoolCoherent
INVARIANT NoDoubleSpend
INVARIANT OkIsDurable
INVARIANT NoInnocentRejected
PROPERTY EveryRequestAnswered
PROPERTY ImplementsLedger
CHECK_DEADLOCK FALSE
