SPECIFICATION Spec
CONSTANTS
    t1 = t1
    t2 = t2
    t3 = t3
    p1 = p1
    p2 = p2
    p3 = p3
    NULL = NULL
    Threads <- ThreeThreads
    Pools <- ThreePools
    MaxCalls = 6
    InitFails = TRUE
    LowPositive = TRUE
SYMMETRY Symmetry
INVARIANT AliveWhileRetained
CHECK_DEADLOCK FALSE
