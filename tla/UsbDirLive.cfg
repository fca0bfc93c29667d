\* Nothing fails: data reaches the other side.
SPECIFICATION FairSpec
CONSTANTS
    Image = {i1, i2, i3}
    NoImage = NoImage
    MaxWrites = 2
    MaxEdits = 2
    MaxRequests = 0
    MaxRuns = 1
    ReadOnlyModes = {FALSE}
    Faults = {}
PROPERTIES ReportedChangeArrives GuestDataArrives
CHECK_DEADLOCK FALSE
