CONSTANTS
    IOs = {p1, p2, p3}
    BlockSize = 2
    MaxId = 7
SPECIFICATION IdsSpec
INVARIANTS NoIdReused
CHECK_DEADLOCK FALSE
