SPECIFICATION Spec
CONSTANTS
    FifoLen = 4
    RingSize = 5
    QueueLen = 2
    MaxBytes = 10
    MaxErrors = 1
    LineSize = 5
    Stream <- MCStream
PROPERTY
    StashSent
CHECK_DEADLOCK FALSE
