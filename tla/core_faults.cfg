\* One fault of any kind, overlapping unblock tasks, every interval.
SPECIFICATION Spec
CONSTANTS
    a1 = a1
    a2 = a2
    a3 = a3
    attacker = attacker
    neighbour = neighbour
    trusted = trusted
    range = range
    t1 = t1
    t2 = t2
    None = None
    Attempts <- MCAttempts2
    Ips <- MCIps
    RangeOf <- MCRangeOf
    Whitelist <- MCWhitelist
    Threshold = 2
    Configs <- FaultyConfigs
    Tasks <- MCTasks
    Clocks = {"window", "cache", "block"}
    Faults = {"throw", "refuse", "firewall", "crash", "gc"}
    MaxFaults = 1
SYMMETRY Symmetry2
INVARIANTS
    TypeOK
    BlockHasEvidence
    WhitelistRespected
    SuppressionHasCause
    RemovalOnlyWhenDue
PROPERTIES
    RowLifecycle
    KeepsPolicy
CHECK_DEADLOCK FALSE
