SPECIFICATION Spec
CONSTANTS
    None = None
    Null = Null
    Dflt = Dflt
    BadVec = BadVec
    IntLen = 1
    TextLen <- MCTextLen
    RowMax = 99
    ZeroRest <- ZeroBody
    MaxPages = 6
    LeafCap = 10
    BranchCap = 2
    MaxDepth = 3
    Size <- MCSize
    Values <- MCValues
    Keys = {1, 2, 3, 4}
    Schemas <- MCSchemas
    Legacy <- MCLegacy
    InsertLits <- MCInserts
    SetLits <- MCSets
    WhereSets <- MCWheres
    MaxTables = 1
    MatchMax = 256
    FreshPages = 3
    MaxSplits = 1
INVARIANT TypeOK
PROPERTIES
    UniqueKeptWhileLinked
    StatementsMeanWhatSqlSays
    OnlyIndexLosesPages
VIEW MCView
CHECK_DEADLOCK FALSE
