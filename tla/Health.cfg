SPECIFICATION HSpec
CONSTANTS
    node = node
    left = left
    right = right
    Nodes = {node}
    Aliases = {left, right}
    Owner <- OneNode
    StuckWindow = 2
    CycleWindow = 2
    MaxOn = 1
    CycleCount = 2
    MaxTime = 3
    MaxFinished = 3
INVARIANTS
    Restorable
    HouseAgrees
    TicksInvisible
    FlappingExact
    GapNotCounted
