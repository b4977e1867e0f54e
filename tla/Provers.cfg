SPECIFICATION ProversSpec
CONSTANTS
    Chain <- SendChain
    StartTip = 0
    Provers = {p1, p2}
    Faulty = {p1}
    MaxCrashes = 1
    MaxDrops = 1
    MaxSubFails = 0

    
PROPERTIES
    ContractFollowsChain
    EverythingRolledUp
CHECK_DEADLOCK FALSE
