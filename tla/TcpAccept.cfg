SPECIFICATION FairSpec
CONSTANTS
    nprocs = 2
    Malformed <- SecondIsMalformed
    MaxConns = 2
    MaxData = 1
    MaxOrders = 1
    NoMemory = TRUE
    Orders <- AllOrders
INVARIANT TypeOK
INVARIANT CloseIsLast
INVARIANT DescriptorsOwned
INVARIANT ClearedBeforeClose
INVARIANT AcceptedBeforeData
PROPERTY BacklogServed
PROPERTY ClosedIsReported
CHECK_DEADLOCK FALSE
