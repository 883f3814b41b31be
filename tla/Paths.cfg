SPECIFICATION HSpec
CONSTANTS
    hall = hall
    bed = bed
    desk = desk
    switch = switch
    Nodes = {hall, bed, desk, switch}
    InteractionNodes = {switch}
    PresenceNodes = {bed}
    Hold <- SlowBed
    Zone <- ThreeRooms
    Adjacent <- Corridor
    Limit = 3
    MaxCount = 2
    Inputs = {"reopen", "startup", "count"}
    Fallible = {desk}
    EntryNodes = {hall}
    Window = 1
    Trust = 2
    Bootstrap = 1
    Boundary = 1
    MaxTime = 1
    MaxGen <- FewGenerations
    MaxTotal = 4
INVARIANTS
    SnapshotRestorable
    OneWalkerOnePath
    OneAuthority
PROPERTIES
    AuthorityNotRegained
    OccupantKept
    TokensSeedNothing
