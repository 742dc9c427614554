SPECIFICATION FairSpec
CONSTANTS
    w1 = w1
    w2 = w2
    w3 = w3
    Waiters <- ThreeWaiters
    Timed = TRUE
    Spurious = FALSE
    Destroyed = FALSE
    MaxWaits = 2
    MaxAwakens = 3
PROPERTY AwakenSpentOnce
CHECK_DEADLOCK FALSE
