SPECIFICATION DataSpec
CONSTANTS
    w1 = w1
    w2 = w2
    Writers <- OneWriter
    MaxPackets = 3
    PacketLength = 2
    Nonblock <- AnyAttribute
    EarlyWrite = TRUE
    Hangup = TRUE
    NoMemory = FALSE
    SoErrors = {}
    ChecksInverted = FALSE
    SendQ = 1
    MAXIMUM_FIFO_SIZE = 2
INVARIANT PacketsContiguous
 
PROPERTY ArmedQueueDrains
INVARIANT UdpTypeOK
INVARIANT UdpQueueConsistent
INVARIANT SentAtMostOnce
INVARIANT ParserTypeOK
INVARIANT StreamPreserved
INVARIANT PacketPerCallback
INVARIANT ClosedForCause
INVARIANT RingTypeOK
PROPERTY IsQueue
CHECK_DEADLOCK FALSE
