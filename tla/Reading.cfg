SPECIFICATION ReadingSpec
CONSTANTS
    Kinds = {"sendmsg", "simple"}
    Shapes <- SmallShapes
    Word = 6
    MaxLength = 2
    Cuts = {1, 2, 3}
    MaxMessages = 2
    Conns = {c1, c2}
    Greeted = {c1}
    MaxStarts = 2
    MaxCalls = 1
CHECK_DEADLOCK FALSE
INVARIANTS
    DeliveredInOrder
    BoundaryKept
    LoopFollowsItsOwner
PROPERTIES
    EveryMessageRead
    LoopServesAll
