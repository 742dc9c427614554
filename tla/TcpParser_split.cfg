SPECIFICATION Spec
CONSTANTS
    cb_ = 2
    TCP_BUFFER_SIZE = 5
    Misread = 1
    Refused = {}
    TCP_MAXIMUM_PACKET_SIZE = 7
    PayloadSizes <- LegalPayloads
    MaxPackets = 2
INVARIANT PacketPerCallbackAlways
CHECK_DEADLOCK FALSE
