SPECIFICATION Spec
CONSTANTS
    v1 = v1
    v2 = v2
    wide = wide
    ZeroRest <- ZeroBody
    MaxPages = 6
    LeafCap = 4
    BranchCap = 2
    MaxDepth = 3
    None = None
    Size <- MCSize
    Values <- MCValues
    Keys = {1, 2, 3}
    FreshPages = 2
    MaxOther = 1
    MaxSplits = 1
    Overfill = TRUE
PROPERTY ReplaceKeepsOtherKeys
SYMMETRY MCSymmetry
VIEW MCView
CHECK_DEADLOCK FALSE
