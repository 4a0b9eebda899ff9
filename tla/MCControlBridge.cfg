SPECIFICATION FairSpec
CONSTANTS
    c1 = c1
    c2 = c2
    Con <- Two
    Capacity = 2
    MaxPermits = 2
    MaxInputs = 2
    ClientSteps = TRUE
    MayClose = TRUE
CHECK_DEADLOCK FALSE
INVARIANTS
    EveryTickHasAPermit
    NoLostWakeup
    
PROPERTIES
    StatesInOrder
    PermitsAreUsed
    StatesAreWritten
