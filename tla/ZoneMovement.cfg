SPECIFICATION MCSpec
CONSTANTS
    Prior = 0
    OffLevel = 1
    OnLevel = 2
    TopLevel = 2
    PositiveGain = 2
    CorrelatedGain = 1
    ClearLoss = 2
    Baseline <- MCBaseline
    Rate <- MCRate
    Dwell = 2
    RefreshRetention = 1
    RefreshLimit = 1
    Stay = TRUE
    Presence = FALSE
    Burst = 0
    Hold = 0
    StableClear = 2
    OutwardWindow = 2
    LeaseTime = 2
    Seeds = {FALSE}
    Inputs = {"local", "path", "movement"}
    MaxStep = 1
    MaxTime = 3
INVARIANTS
    NoLateRelease
    
