SPECIFICATION FairSpec
CONSTANTS
    MaxClients = 1
    SockBufferLen = 3
    HeaderLen = 2
    Sizes <- EmptyAndLong
    None = None
    MaxConns = 2
    MaxMessages = 2
INVARIANTS
    TypeOK
PROPERTIES
    ImplementsChannel
    EveryMessageArrives
CHECK_DEADLOCK FALSE
