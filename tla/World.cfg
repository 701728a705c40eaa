SPECIFICATION FairSpec
CONSTANTS
    MinSize = 4
    Home <- Crossing
    Empty = Empty
    Missing = Missing
    LastCell = 2
    NumCritters = 2
    Walkers <- SecondWalks
    Kinds <- AllKinds
    FadeFrames = 2
    NovaFrames = 4
    NumSeeds = 2
    MaxOrders = 2
INVARIANTS
    TypeOK
    SameSpells
    SameCritters
    StrikesOnce
PROPERTIES
    EverySpellEnds
