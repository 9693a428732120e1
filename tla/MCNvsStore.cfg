SPECIFICATION Spec
CONSTANTS
    PageCount = 3
    ENTRY_COUNT = 2
    Uses <- OneType
    Values = {1, 2}
INVARIANTS
    KeysUnique
    PagesSound
    GetsLast
PROPERTIES
    CallsEnd
    Durable
