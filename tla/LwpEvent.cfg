SPECIFICATION FairSpec
CONSTANTS
    w1 = w1
    w2 = w2
    w3 = w3
    Waiters <- ThreeWaiters
    Timed = TRUE
    Spurious = TRUE
    Destroyed = TRUE
    MaxWaits = 2
    MaxAwakens = 3
INVARIANT TypeOK
INVARIANT OnePassPerAwaken
INVARIANT NoMissedWakeup
INVARIANT DestroyReleasesAll
PROPERTY AwakenIsConsumed
CHECK_DEADLOCK FALSE
