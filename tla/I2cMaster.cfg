SPECIFICATION Spec
CONSTANTS
    Bytes = 4
    I2C_ACKERR_CNT_MAX = 10
INVARIANTS
    LoadedInOrder
    NotReentered
PROPERTIES
    Returns
    Promise
