SPECIFICATION Spec
CONSTANTS
    PageCount = 3
    ENTRY_COUNT = 2
    Uses <- TwoTypes
    Values = {1, 2}
INVARIANT
    KeysUnique
