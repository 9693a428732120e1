SPECIFICATION MeterSpec
CONSTANTS
    NTrig = 2
    Limits <- MCLimits
    Reports = {}
    TickMod = 8
    MaxSkew = 1
    MaxTime = 1
    Frames <- MCFrames
    IntMax = 536870911
    MaxSentences = 4
    MaxResets = 1
INVARIANTS
    SpeedIsReal
    LapsAreFresh
    NoFixNoResult
    PanelOfThisLife
PROPERTIES
    EventuallyShown
