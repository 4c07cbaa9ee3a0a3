\* The shipped settings: the cache holds ranges, both firewalls single addresses.
SPECIFICATION Spec
CONSTANTS
    a1 = a1
    a2 = a2
    a3 = a3
    attacker = attacker
    neighbour = neighbour
    trusted = trusted
    range = range
    t1 = t1
    t2 = t2
    None = None
    Attempts <- MCAttempts
    Ips <- MCIps
    RangeOf <- MCRangeOf
    Whitelist <- MCWhitelist
    Threshold = 2
    Configs <- RangeConfigs
    Tasks <- MCTask
    Clocks = {}
    Faults = {}
    MaxFaults = 1
INVARIANT
    SuppressedAreBlocked
CHECK_DEADLOCK FALSE
