SPECIFICATION HSpec
CONSTANTS
    n1 = n1
    n2 = n2
    a1 = a1
    a2 = a2
    a3 = a3
    Nodes <- MCNodes
    Aliases <- TwoAliases
    InteractionNodes = {}
    Profile <- StayPresence
    DiagnosticWarnings = FALSE
    CountPressure = FALSE
    Neutral = {"unknown"}
    CycleLimit = 1
    MaxTime = 8
    MaxGeneration = 3
INVARIANTS Restorable NoOverdueDeadline CadenceTracksEdges
PROPERTIES ContractSpec CorrelatedWithinQuiet
