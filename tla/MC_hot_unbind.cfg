CONSTANTS
    d1 = d1
    d2 = d2
    d3 = d3
    h1 = h1
    h2 = h2
    Devices <- MCThreeDevices
    Handles <- MCOneHandle
    MAX_DEVICES = 1
    HotUnbind = TRUE
    Concurrent = FALSE
    NULL = NULL
    ERR_PTR = ERR_PTR
    NOWHERE = NOWHERE
SYMMETRY Symmetry
SPECIFICATION Spec
INVARIANTS
    LedgerInv
    AllOrNothing
    CdevLayering
    OpenableIsMapped
    RemoveTearsDownOwn
    ClassUsable
    NothingLeftBehind
PROPERTIES
    RecordStable
    BoundIsServed
