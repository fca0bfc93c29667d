SPECIFICATION Spec
CONSTANTS
    Order <- MCOrder
    Parent <- MCParent
    Root = "root"
    Content = {c1, c2}
    MaxAlt = 1
    MaxWrites = 2
    MaxEdits = 1
    MaxSyncs = 2
    Faults = {"io", "save", "kill"}
    Windows = {"check", "record"}
SYMMETRY MCSymmetry
CHECK_DEADLOCK FALSE
INVARIANTS ClaimsHold
 
