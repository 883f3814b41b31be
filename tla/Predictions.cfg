SPECIFICATION HSpec
CONSTANTS
    a = a
    b = b
    c = c
    Nodes = {a, b, c}
    Adjacent <- Line
    Zone <- TwoZones
    Prior <- UnitPrior
    InitialCounts <- Trained
    CountLimit = 3
    LeaseDuration = 2
    LeaseLimit = 1
    MaturityNum = 3
    MaturityDen = 5
    MaturitySupport = 2
    Fallible = {b}
    MaxTime = 2
    MaxLearned = 4
INVARIANTS
    Restorable
    PredictedBacked
    NothingLost
PROPERTIES
    NonRenewing
