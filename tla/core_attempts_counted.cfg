\* Two attempts of an address lead to a block: what is its location told to have?
SPECIFICATION CountedSpec
CONSTANTS
    a1 = a1
    a2 = a2
    a3 = a3
    attacker = attacker
    neighbour = neighbour
    trusted = trusted
    range = range
    t1 = t1
    t2 = t2
    country = country
    city = city
    None = None
    Attempts <- MCAttempts2
    Ips <- MCIps
    RangeOf <- MCRangeOf
    Whitelist <- MCWhitelist
    Threshold = 2
    Configs <- AddressConfigs
    Tasks <- MCTask
    Clocks = {"block", "cache"}
    Faults = {}
    MaxFaults = 0
    Places <- MCPlaces
    PlaceOf <- MCPlaceOf
INVARIANT ColumnCountsAttempts
