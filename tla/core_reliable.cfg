\* Every call succeeds: two attempts, the books of the core and the firewall, and
\* every block is lifted in the end.  No symmetry: it is unsound for liveness.
SPECIFICATION FairSpec
CONSTANTS
    a1 = a1
    a2 = a2
    a3 = a3
    attacker = attacker
    neighbour = neighbour
    trusted = trusted
    range = range
    t1 = t1
    t2 = t2
    None = None
    Attempts <- MCAttempts2
    Ips <- MCIps
    RangeOf <- MCRangeOf
    Whitelist <- MCWhitelist
    Threshold = 2
    Configs <- CoherentConfigs
    Tasks <- MCTask
    Clocks = {"block", "cache"}
    Faults = {}
    MaxFaults = 0
INVARIANTS
    RuleLedger
    ThresholdEnforced
    SuppressedAreBlocked
PROPERTIES
    EveryBlockLifted
    EveryRuleLifted
