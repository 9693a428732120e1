SPECIFICATION Conversions
CONSTANTS
    Speeds <- MCSpeeds
    IntMax = 524287
INVARIANTS
    
    KmhAccurate
PROPERTY
    Monotone
