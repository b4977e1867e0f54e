SPECIFICATION ProversSpec
CONSTANTS
    Chain <- LongChain
    StartTip = 4
    Provers = {p1, p2}
    Faulty = {p1}
    MaxCrashes = 1
    MaxDrops = 0
    MaxSubFails = 0
INVARIANT DoubleSpendNeverHappens
CHECK_DEADLOCK FALSE
