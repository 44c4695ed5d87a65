CONSTANTS
    t1 = t1
    t2 = t2
    t3 = t3
    Threads <- MCThreads
    NOBODY = NOBODY
    MutexFails = TRUE
    Budget = 1
SYMMETRY Symmetry
SPECIFICATION Spec
INVARIANTS
    TypeOK
    ErrorRecordGuarded
CHECK_DEADLOCK FALSE
