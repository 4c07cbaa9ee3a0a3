\* The unblock timer has no root and is collected.
SPECIFICATION FairSpec
CONSTANTS
    a1 = a1
    a2 = a2
    a3 = a3
    attacker = attacker
    neighbour = neighbour
    trusted = trusted
    range = range
    t1 = t1
    t2 = t2
    None = None
    Attempts <- MCAttempts2
    Ips <- MCIps
    RangeOf <- MCRangeOf
    Whitelist <- MCWhitelist
    Threshold = 2
    Configs <- RangeConfigs
    Tasks <- MCTask
    Clocks = {"block"}
    Faults = {"gc"}
    MaxFaults = 1
PROPERTY
    EveryBlockLifted
CHECK_DEADLOCK FALSE
