SPECIFICATION Spec
CONSTANTS
    c1 = c1
    NoId = NoId
    Value <- Text
    NameTable <- Tables
    Client = {}
    Request <- Resizes
    StartMap <- SmallMap
    BlankMap <- NewMap
    NoIdentifier = NoId
    MaxHistory = 3
    MaxRequests = 4
    MaxWork = 6
CHECK_DEADLOCK FALSE
INVARIANT
    HistoryApplies
