SPECIFICATION Spec
CONSTANTS
    Null = Null
    BadVec = BadVec
    IntLen = 1
    TextLen <- MCTextLen
    RowMax = 99
    Schema <- MCSchema
    Tables <- MCTables
    Queries <- MCQueries
    RowLimit = 3
    IntMax = 3
    NullText = 2
    Dist <- MCDist
INVARIANTS
    AverageOfNumbers
CHECK_DEADLOCK FALSE
