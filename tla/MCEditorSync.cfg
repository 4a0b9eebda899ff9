SPECIFICATION Spec
CONSTANTS
    c1 = c1
    NoId = NoId
    Value <- Text
    NameTable <- Tables
    Client <- One
    Request <- Requests
    StartMap <- SmallMap
    BlankMap <- NewMap
    NoIdentifier = NoId
    MaxHistory = 2
    MaxRequests = 3
    MaxWork = 4
CHECK_DEADLOCK FALSE
INVARIANTS
    HistoryBounds
    ReferencesInBounds
    MapIsWellFormed
    HistoryApplies
    ClientsFollow
PROPERTY
    ImplementsUndoList
