SPECIFICATION HSpec
CONSTANTS
    MaxOccupants = 1
    SeenLimit = 2
    AuditAge = 2
    AuditRows = 2
    AuditBytes = 2
    AuditRowBytes = 2
    Invalid = Invalid
    Readings = {0, 1, 2, Invalid}
    RowSizes = {1, 2, 3}
    MaxEvents = 1
    MaxLearned = 1
    Starts <- MCStarts
    StartTime = 2
    MaxTime = 4
INVARIANTS
    Restorable
    HeardInForce
    PublicationAtomic
