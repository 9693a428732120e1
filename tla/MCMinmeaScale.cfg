SPECIFICATION Spec
CONSTANTS
    IntMax = 108
    Texts <- MCTexts
    MaxLen = 4
INVARIANT
    ScaleFits
CHECK_DEADLOCK FALSE
