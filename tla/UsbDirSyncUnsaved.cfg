SPECIFICATION Spec
CONSTANTS
    Order <- MCOrder
    Parent <- MCParent
    Root = "root"
    Content = {c1, c2}
    MaxAlt = 1
    MaxWrites = 1
    MaxEdits = 0
    MaxSyncs = 2
    Faults = {"save"}
    Windows = {}
SYMMETRY MCSymmetry
CHECK_DEADLOCK FALSE
INVARIANTS OkIsSaved
