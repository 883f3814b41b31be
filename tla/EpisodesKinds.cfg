SPECIFICATION KSpec
CONSTANTS
    n1 = n1
    n2 = n2
    a1 = a1
    a2 = a2
    a3 = a3
    Nodes <- MixedNodes
    Aliases <- MixedAliases
    InteractionNodes = {n2}
    Profile <- MixedProfile
    DiagnosticWarnings = TRUE
    CountPressure = TRUE
    Neutral = {"unknown"}
    CycleLimit = 2
    MaxTime = 7
    MaxGeneration = 2
PROPERTIES AuthorityNotRevived ContractSpec ClearsEventually
