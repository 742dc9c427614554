SPECIFICATION Spec
CONSTANTS
    w1 = w1
    w2 = w2
    Writers <- OneWriter
    MaxPackets = 3
    PacketLength = 2
    Nonblock = {FALSE}
    EarlyWrite = FALSE
    Hangup = FALSE
    NoMemory = FALSE
    SoErrors = {}
    ChecksInverted = FALSE
    SendQ = 2
    MAXIMUM_FIFO_SIZE = 2
INVARIANT OutputOrder
CHECK_DEADLOCK FALSE
