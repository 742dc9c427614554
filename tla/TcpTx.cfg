SPECIFICATION Spec
CONSTANTS
    w1 = w1
    w2 = w2
    Writers <- TwoWriters
    MaxPackets = 3
    PacketLength = 2
    Nonblock <- AnyAttribute
    EarlyWrite = FALSE
    Hangup = TRUE
    NoMemory = TRUE
    SoErrors <- IgnoredErrors
    ChecksInverted = FALSE
    SendQ = 1
    MAXIMUM_FIFO_SIZE = 2
SYMMETRY Symmetry
INVARIANT TypeOK
INVARIANT QueueConsistent
INVARIANT WorkerOwnsHead
INVARIANT UnitsInOrder
INVARIANT AcceptedIsHandled
INVARIANT ClosedReleases
CHECK_DEADLOCK FALSE
