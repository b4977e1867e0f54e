SPECIFICATION Spec
CONSTANTS
    t1 = t1
    t2 = t2
    t3 = t3
    Txn = {t1, t2, t3}
    Client = {c1, c2}
    NoClient = NoClient
    NoTxn = NoTxn
    Lease <- MCLease
    ChangesOf <- MCChanges
    MaxCount = 2
    MaxBlocks = 2
INVARIANT NothingLost
INVARIANT OkIsCommitted
PROPERTY ReleasedByCommit
CHECK_DEADLOCK FALSE
