SPECIFICATION MCSpec
CONSTANTS
    Prior = 0
    OffLevel = 1
    OnLevel = 2
    TopLevel = 3
    PositiveGain = 2
    CorrelatedGain = 1
    ClearLoss = 2
    Baseline <- MCBaseline
    Rate <- MCRate
    Dwell = 2
    RefreshRetention = 3
    RefreshLimit = 2
    Stay = TRUE
    Presence = TRUE
    Burst = 1
    Hold = 1
    StableClear = 2
    OutwardWindow = 2
    LeaseTime = 2
    Seeds = {FALSE}
    Inputs = {"local", "path", "count"}
    MaxStep = 1
    MaxTime = 6
INVARIANTS
    Restorable
    
PROPERTIES
    Announced
