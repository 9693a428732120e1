SPECIFICATION Spec
CONSTANT
    Lines <- AllLines
INVARIANTS
    AcceptedAsSent
    RmcUsedIntact
    DecidesAsFormat
CHECK_DEADLOCK FALSE
