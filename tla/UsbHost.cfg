SPECIFICATION FairSpec
CONSTANTS
    FifoLen = 3
    HubInterval = 2
    KeyInterval = 1
    BulkTimeout = 1
    Chunks = 2
    QueueLimit = 1
    Address = {a1}
    Medium = {m1, m2}
    MaxEvents = 3
INVARIANTS UsbHostInvariant CommandsHonest
CHECK_DEADLOCK FALSE
PROPERTIES Settles
