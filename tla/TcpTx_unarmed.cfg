SPECIFICATION Spec
CONSTANTS
    w1 = w1
    w2 = w2
    Writers <- OneWriter
    MaxPackets = 2
    PacketLength = 2
    Nonblock = {TRUE}
    EarlyWrite = FALSE
    Hangup = FALSE
    NoMemory = FALSE
    SoErrors = {}
    ChecksInverted = FALSE
    SendQ = 1
    MAXIMUM_FIFO_SIZE = 2
INVARIANT OverflowIsArmed
CHECK_DEADLOCK FALSE
