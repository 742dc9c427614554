SPECIFICATION Spec
CONSTANTS
    w1 = w1
    w2 = w2
    Writers <- OneWriter
    MaxPackets = 1
    PacketLength = 2
    Nonblock = {TRUE}
    EarlyWrite = FALSE
    Hangup = TRUE
    NoMemory = FALSE
    SoErrors = {}
    ChecksInverted = TRUE
    SendQ = 2
    MAXIMUM_FIFO_SIZE = 2
INVARIANT ClosedReleases
CHECK_DEADLOCK FALSE
