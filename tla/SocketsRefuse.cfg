SPECIFICATION FairSpec
CONSTANTS
    MaxClients = 1
    SockBufferLen = 3
    HeaderLen = 2
    Sizes <- Long
    None = None
    MaxConns = 2
    MaxMessages = 0
PROPERTIES
    RefusedIsTold
CHECK_DEADLOCK FALSE
