\* Two ports, two host commands and a reset; the driver acknowledges in time.
SPECIFICATION FairSpec
CONSTANTS
    NumPorts = 2
    Device = {d1, d2}
    Medium = {m1, m2}
    Gap = 2
    AckTimeout = 4
    MaxCommands = 2
    MaxReboots = 1
    Late = FALSE
INVARIANTS UsbHubInvariant
PROPERTIES PlugsArrive
CHECK_DEADLOCK FALSE
