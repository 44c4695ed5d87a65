CONSTANTS
    d1 = d1
    d2 = d2
    d3 = d3
    h1 = h1
    h2 = h2
    Devices <- MCTwoDevices
    Handles <- MCOneHandle
    MAX_DEVICES = 1
    HotUnbind = FALSE
    Concurrent = TRUE
    NULL = NULL
    ERR_PTR = ERR_PTR
    NOWHERE = NOWHERE
SPECIFICATION Spec
PROPERTY RecordStable
