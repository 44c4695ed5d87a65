CONSTANTS
    d1 = d1
    d2 = d2
    d3 = d3
    h1 = h1
    h2 = h2
    Devices <- MCThreeDevices
    Handles <- MCTwoHandles
    MAX_DEVICES = 2
    HotUnbind = FALSE
    Concurrent = FALSE
    NULL = NULL
    ERR_PTR = ERR_PTR
    NOWHERE = NOWHERE
SYMMETRY Symmetry
SPECIFICATION Spec
INVARIANTS
    LedgerInv
    IInv
    AllOrNothing
    SlotStack
PROPERTIES
    RecordStable
    ImplementsService
