SPECIFICATION Spec
CONSTANTS
    capacity = 1
    MaxOutput = 3
    MaxLinks = 3
    BusyLinks = 2
    MaxTakes = 1
    None = None
    Other = Other
INVARIANTS
    StatusIsTrue
PROPERTIES
    ShowsTheOutput
    CatchesUp
    ClosedTabEndsSession
    GoneTabLetsGo
CHECK_DEADLOCK FALSE
