SPECIFICATION HSpec
CONSTANTS
    MaxOccupants = 1
    SeenLimit = 2
    AuditAge = 2
    AuditRows = 2
    AuditBytes = 2
    AuditRowBytes = 2
    Invalid = Invalid
    Readings = {0, 1, 2, Invalid}
    RowSizes = {}
    MaxEvents = 1
    MaxLearned = 0
    Starts <- MCStarts
    StartTime = 2
    MaxTime = 4
PROPERTIES
    StartsFromEntity
