SPECIFICATION Spec
CONSTANTS
    Values = 2
    ClocksPerInsn = 2
    StallClocks = 9
    Period = 11
    DmaDelay = 7
    Handler = 5
    Firmware <- MCFirmware
    Budgets = {5, 24}
    MaxSlices = 2
INVARIANTS IdleSkipInvariant SkipIsExact DevicesInTime PhaseKept IdleIsSkipped
CHECK_DEADLOCK FALSE
