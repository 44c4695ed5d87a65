CONSTANTS
    Levels <- MCLevels
    Default <- MCDefault
    OtherBits <- MCOtherBits
SPECIFICATION Spec
INVARIANTS
    TypeOK
    DisplayedIsLogged
