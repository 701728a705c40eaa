SPECIFICATION Spec
CONSTANTS
    MaxConnections <- TwoSlots
    Orders <- OneOrder
    FrameCounts <- LongTurns
    Frame = Frame
    Garbage = Garbage
    Absent = Absent
    MaxTurns = 1
    MaxOrders = 0
    MaxJoins = 2
INVARIANTS
    BroadcastIntact
CHECK_DEADLOCK FALSE
