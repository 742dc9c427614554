SPECIFICATION LifetimesSpec
CONSTANTS
    Objs = {o1, o2}
    Users = {u1, u2, u3}
    Knowns <- AllKnowns
    Unloader = {TRUE, FALSE}
    MaxAuto = 2
    NoObj = NoObj
    t1 = t1
    t2 = t2
    t3 = t3
    p1 = p1
    p2 = p2
INVARIANT TypeOK
INVARIANT RefcntCountsHolders
INVARIANT HeldObjectStays
INVARIANT UnloadedOnce
PROPERTY ImplementsLife
PROPERTY ClosedIsFreed
INVARIANT PoolTypeOK
INVARIANT AliveUnlessEmptied
INVARIANT PoolCountsHolders
 
CHECK_DEADLOCK FALSE
