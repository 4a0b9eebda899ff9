SPECIFICATION FairSpec
CONSTANTS
    ServerStore = 2
    ClientStore = 2
    TicksPerSnapshot = 1
    MaxSnapId = 3
    MaxGame = 1
    Lossy = TRUE
    Stale = FALSE
CHECK_DEADLOCK FALSE
INVARIANTS
    LatestKnownOrEvicted
    
PROPERTIES
    BaseOnlyAdvances
    HandledOnlyAdvances
    LastSnapshotIsHandled
