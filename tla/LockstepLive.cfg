SPECIFICATION FairSpec
CONSTANTS
    MaxConnections <- TwoSlots
    Orders <- OneOrder
    FrameCounts <- OneTurn
    Frame = Frame
    Garbage = Garbage
    Absent = Absent
    MaxTurns = 2
    MaxOrders = 0
    MaxJoins = 2
PROPERTIES
    EveryTurnAnswered
    JoinCompletes
    EveryFrameRuns
CHECK_DEADLOCK FALSE
