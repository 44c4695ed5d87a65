CONSTANTS
    Levels <- MCLevels
    Default <- MCDefault
    OtherBits <- MCOtherBits
SPECIFICATION Spec
PROPERTY LoglevelOverrides
