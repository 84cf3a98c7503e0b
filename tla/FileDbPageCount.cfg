SPECIFICATION Spec
CONSTANTS
    MaxPages = 5
    ZeroRest <- MCZero
    Names = {"a", "b"}
    Cols <- MCCols
    MaxCols = 16
    CatRoom = 4028
    NewPages = 2
    OldDumps <- MCOldDumps
    Version = 5
    Budget = 5
INVARIANTS
    PageCountIsMapped
CHECK_DEADLOCK FALSE
