SPECIFICATION Spec
CONSTANTS
    MinSize = 4
    Home <- Colliding
    Empty = Empty
    Missing = Missing
    Keys <- ThreeKeys
    Elems <- FourElems
    MaxLive = 4
INVARIANTS
    TypeOK
    FindsStored
    RoundTrip
PROPERTIES
    ImplementsStore
