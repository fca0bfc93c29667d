\* Everything may fail: commands and quits end.
SPECIFICATION FairSpec
CONSTANTS
    Image = {i1, i2, i3}
    NoImage = NoImage
    MaxWrites = 1
    MaxEdits = 0
    MaxRequests = 1
    MaxRuns = 1
    ReadOnlyModes = {FALSE}
    Faults = {"snapshot", "incomplete", "build", "open"}
PROPERTIES CommandsAnswered QuitEnds
CHECK_DEADLOCK FALSE
