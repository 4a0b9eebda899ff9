SPECIFICATION FairSpec
CONSTANTS
    c1 = c1
    c2 = c2
    Con <- One
    Capacity = 4
    MaxPermits = 2
    MaxInputs = 0
    ClientSteps = FALSE
    MayClose = TRUE
CHECK_DEADLOCK FALSE
PROPERTIES
    StopsWhenDropped
