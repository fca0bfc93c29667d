\* The rebuilt image cannot be opened: the manifest already describes it.
SPECIFICATION Spec
CONSTANTS
    Image = {i1, i2, i3}
    NoImage = NoImage
    MaxWrites = 1
    MaxEdits = 1
    MaxRequests = 1
    MaxRuns = 1
    ReadOnlyModes = {FALSE}
    Faults = {"open"}
SYMMETRY Symmetry
INVARIANTS SyncsItsOwnImage
CHECK_DEADLOCK FALSE
