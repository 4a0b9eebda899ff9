SPECIFICATION FairSpec
CONSTANTS
    ClientStore = 2
    ServerStore = 3
    TicksToSend = 2
    TicksPerSnapshot = 2
    MaxAhead = 3
    MaxTick = 3
    MaxClicks = 2
    MaxLost = 1
CHECK_DEADLOCK FALSE
INVARIANTS
    BaseIsKnown
    NothingLeftInTheQueue
PROPERTIES
    ImplementsInputStream
    LastInputArrives
