SPECIFICATION Spec
CONSTANTS
    MaxPages = 6
    ZeroRest = ZeroRest
    InitialPages <- MCInitialPages
    Words <- MCWords
INVARIANTS
    TypeOK
    FreeListLinksStack
    PagesPartitioned
PROPERTIES
    ClientPagesAreKept
    GrowthIsLastResort
    ImplementsAllocator
