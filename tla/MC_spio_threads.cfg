CONSTANTS
    t1 = t1
    t2 = t2
    t3 = t3
    Threads <- MCTwoThreads
    NOBODY = NOBODY
    MutexFails = FALSE
    Budget = 3
SPECIFICATION FairSpec
INVARIANT OrderInv
PROPERTIES
    ImplementsSpio
    CallsReturn
CHECK_DEADLOCK FALSE
