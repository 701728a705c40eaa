SPECIFICATION MapSpec
CONSTANTS
    Multiplier = 5
    Quotient = 25
    Rest = 2
    Replacement = 77
    Width = 256
    RandMax = 127
    MapWidth = 5
    MapHeight = 4
    NumGrass = 2
    Holes = 3
    Odds = 5
INVARIANTS
    TypeOK
    FitsLong
    CallsDug
    CratersWalled
PROPERTIES
    Lehmer
