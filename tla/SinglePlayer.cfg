SPECIFICATION FairSpec
CONSTANTS
    o1 = o1
    l1 = l1
    l2 = l2
    l3 = l3
    c1 = c1
    c2 = c2
    c3 = c3
    c4 = c4
    MinArraySize = 2
    Junk = Junk
    Null = Null
    Cells <- FourCells
    FullTicks = 2
    OwnLights <- OneLight
    SpellLights <- ThreeLights
    Kinds <- AllKinds
    Volley = 3
    NovaSprites = 2
    MaxSpells = 3
INVARIANTS
    TypeOK
    BlocksFit
    LightsOfTheLiving
    FrameIsDrawn
PROPERTIES
    ImplementsFifo
    OrdersRun
