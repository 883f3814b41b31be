SPECIFICATION HSpec
CONSTANTS
    kitchen = kitchen
    hall = hall
    k = k
    h = h
    AllZones = {kitchen, hall}
    Entities = {k, h}
    ZoneOf <- MotionZone
    Grace = 2
    MaxTime = 3
INVARIANTS
    NoOrphanTimer
