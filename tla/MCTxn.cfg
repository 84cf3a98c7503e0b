SPECIFICATION Spec
CONSTANTS
    t1 = t1
    t2 = t2
    v1 = v1
    v2 = v2
    Txns <- MCTxns
    Size <- MCSize
    Values = {v1}
    Keys = {1, 2, 3}
    None = None
    ZeroRest <- ZeroBody
    MaxPages = 6
    LeafCap = 2
    BranchCap = 2
    MaxDepth = 3
    FreshPages = 3
    MaxSplits = 1
    AbortWritten = FALSE
INVARIANTS
    TypeOK
    CommittedVisible
    WriterSeesOwnWrites
    ReaderKeptUntilWrite
PROPERTY PagesLostOnlyByAbortOrFailure
SYMMETRY MCSymmetry
VIEW MCView
CHECK_DEADLOCK FALSE
