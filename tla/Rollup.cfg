SPECIFICATION SystemSpec
CONSTANTS
    Chain <- BurnChain
    StartTip = 0
    Provers = {p1}
    Faulty = {p1}
    MaxCrashes = 1
    MaxDrops = 1
    MaxSubFails = 1
INVARIANTS
    BurnPaidOnce
    MoneyAddsUp
CHECK_DEADLOCK FALSE
