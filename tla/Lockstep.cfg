SPECIFICATION Spec
CONSTANTS
    MaxConnections <- TwoSlots
    Orders <- OneOrder
    FrameCounts <- AllTurns
    Frame = Frame
    Garbage = Garbage
    Absent = Absent
    MaxTurns = 2
    MaxOrders = 1
    MaxJoins = 2
INVARIANTS
    TypeOK
    SnapshotFresh
    TurnCredit
    Agreement
    OwnOrders
    JoinStages
PROPERTIES
    ImplementsSharedGame
CHECK_DEADLOCK FALSE
