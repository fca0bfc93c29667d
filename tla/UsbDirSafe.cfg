\* Commands, automatic jobs, host edits, kills and restarts, with every fault but "open" and "scan".
SPECIFICATION Spec
CONSTANTS
    Image = {i1, i2, i3}
    NoImage = NoImage
    MaxWrites = 1
    MaxEdits = 1
    MaxRequests = 1
    MaxRuns = 2
    ReadOnlyModes = {FALSE, TRUE}
    Faults <- SafeFaults
SYMMETRY Symmetry
INVARIANTS UsbDirInvariant SyncsItsOwnImage CleanIsSynced SwapsUnplugged
PROPERTIES GuestDataKept HeldStaysQuiet
CHECK_DEADLOCK FALSE
