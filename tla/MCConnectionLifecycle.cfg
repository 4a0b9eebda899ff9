CONSTANTS
    c1 = c1
    c2 = c2
    c3 = c3
    i1 = i1
    i2 = i2
    Con <- Con3
    Ip <- Ip2
    ip <- SharedIp
    MaxConnections = 2
    MaxPerIp = 1
SYMMETRY Symmetry
SPECIFICATION Spec
INVARIANTS
    BookkeepingIsExact
    WithinLimits
    BannedAreOnTheirWayOut
    NoGhosts
