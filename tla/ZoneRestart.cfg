SPECIFICATION MCSpec
CONSTANTS
    Prior = 0
    OffLevel = 1
    OnLevel = 2
    TopLevel = 2
    PositiveGain = 2
    CorrelatedGain = 1
    ClearLoss = 2
    Baseline <- MCBaseline
    Rate <- MCRate
    Dwell = 2
    RefreshRetention = 2
    RefreshLimit = 1
    Stay = TRUE
    Presence = TRUE
    Burst = 1
    Hold = 1
    StableClear = 2
    OutwardWindow = 2
    LeaseTime = 1
    Seeds = {FALSE}
    Inputs = {"local", "path", "lease", "restart"}
    MaxStep = 1
    MaxTime = 4
INVARIANTS
    Restorable
    PredictionLeased
PROPERTIES
    NoEarlyRelease
