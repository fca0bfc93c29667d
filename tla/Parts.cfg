SPECIFICATION Spec
CONSTANTS
    Value = {v0, v1}
    ListMax = 2
    Stretch = 2
    Types = {0, 1}
    MaxSteps = 4
    CodeLen = 2
    SliceInsns = 1
    Address = {1}
    MaxMessages = 4
    Addr = {1}
    Byte = {0, 1, 2}
    Cap = 2
    MaxEntries = 2
    SweepEvery = 2
    MaxOps = 8
    Opcode = {"WREN", "WRDI", "RSTEN", "RST", "PP", "PP4", "SE", "CE", "READ", "FAST_READ", "RDSR1", "other"}
    Sectors = 2
    MaxFrame = 4
    MaxFlashOps = 8
    CardSectors = 2
    SectorLen = 2
    FifoDepth = 2
    LastTrack = 1
    MaxForced = 1
    AddrBits = 2
    MaxSelects = 2
    MaxServers = 2
    MaxCalls = 3
    MaxIds = 1
    MaxEmus = 2
    RxBuffers = 2
    TxBuffers = 2
    Hold = 2
    MaxSends = 4
    HalfTrack = {0, 2}
    Busy = 1
    MaxWrites = 2
    MaxSwitches = 1
    CartType = {0, 1, 2, 4, 5, 6, 40, 9, 11, 12, 14, 15, 16, 17, 24, 25, 26, 27, 123, 28}
    PortCart = {4, 25}
    IoAddr = {0, 2, 65, 128, 511}
    IoValue = {55, 64, 131}
    Sharing = {{"rom", "io1", "io2", "irq"}, {"io1", "io2"}}
    EpyxCycles = 2
    AdvanceCycles = 2
    MaxSettings = 2
INVARIANTS EngineFollows  AnchorsHold FlashKeeps SdTells SectorsMove PinsMean ServersApart WifiDelivers DiskKept CartsSeen
PROPERTIES SessionTransparent MovesAsAsked
CHECK_DEADLOCK FALSE
