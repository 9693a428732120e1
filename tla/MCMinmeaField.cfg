SPECIFICATION Spec
CONSTANTS
    IntMax = 108
    Texts <- MCTexts
    MaxLen = 5
INVARIANTS
    ValueFits
    Accepted
    Decoded
CHECK_DEADLOCK FALSE
