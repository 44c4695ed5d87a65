CONSTANTS
    MAIN = MAIN
    NOBODY = NOBODY
    NONE = NONE
    UNREADABLE = UNREADABLE
    UNSET = UNSET
SPECIFICATION FairSpec
INVARIANTS
    MenuInv
    ShowsFirstRefusal
    EndsUnlocked
PROPERTY ChoiceCompletes
CHECK_DEADLOCK FALSE
