\* UpdateBlock is refused once and the row is unblocked again.
SPECIFICATION Spec
CONSTANTS
    a1 = a1
    a2 = a2
    a3 = a3
    attacker = attacker
    neighbour = neighbour
    trusted = trusted
    range = range
    t1 = t1
    t2 = t2
    None = None
    Attempts <- MCAttempts2
    Ips <- MCIps
    RangeOf <- MCRangeOf
    Whitelist <- MCWhitelist
    Threshold = 2
    Configs <- HttpsConfigs
    Tasks <- MCTask
    Clocks = {"block", "cache"}
    Faults = {"refuse"}
    MaxFaults = 1
INVARIANT
    FreshBlockEnforced
CHECK_DEADLOCK FALSE
