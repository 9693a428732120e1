SPECIFICATION Spec
CONSTANTS
    NTrig = 2
    Limits <- MCLimits
    Reports <- MCReports
    TickMod = 5
    MaxSkew = 1
    MaxTime = 8
INVARIANTS
    TypeOK
    Lockstep
    LapAccurate
    LapsOrdered
PROPERTIES
    ResultIsKept
    LapTimerSpec
