CONSTANTS
    t1 = t1
    t2 = t2
    t3 = t3
    Threads <- MCTwoThreads
    NOBODY = NOBODY
    MutexFails = FALSE
    Budget = 1
SPECIFICATION Spec
INVARIANT QueriesSucceed
CHECK_DEADLOCK FALSE
