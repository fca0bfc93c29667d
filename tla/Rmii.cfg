SPECIFICATION FairSpec
CONSTANTS
    RingLen = 4
    Buffers = 3
    TxLimit = 1
    MaxFrames = 5
    MaxSends = 2
    MaxUnplugs = 1
INVARIANTS RmiiInvariant
PROPERTIES FramesInOrder HandedOn
CHECK_DEADLOCK FALSE
