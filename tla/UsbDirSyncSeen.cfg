SPECIFICATION Spec
CONSTANTS
    Order <- MCOrder
    Parent <- MCParent
    Root = "root"
    Content = {c1, c2, c3}
    MaxAlt = 1
    MaxWrites = 2
    MaxEdits = 1
    MaxSyncs = 2
    Faults = {"kill"}
    Windows = {}
SYMMETRY MCSymmetry
CHECK_DEADLOCK FALSE
PROPERTIES OnlySeenReplaced CopiesAreNews
