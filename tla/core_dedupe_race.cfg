\* Two handlers between the look-up in latestBlocks and the insertion.
SPECIFICATION Spec
CONSTANTS
    a1 = a1
    a2 = a2
    a3 = a3
    attacker = attacker
    neighbour = neighbour
    trusted = trusted
    range = range
    t1 = t1
    t2 = t2
    None = None
    Attempts <- MCAttempts2
    Ips <- MCIps
    RangeOf <- MCRangeOf
    Whitelist <- MCWhitelist
    Threshold = 2
    Configs <- CoherentConfigs
    Tasks <- MCTask
    Clocks = {}
    Faults = {}
    MaxFaults = 1
INVARIANT
    BlockedOnce
CHECK_DEADLOCK FALSE
