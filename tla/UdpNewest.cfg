SPECIFICATION FairSpec
CONSTANTS
    a = a
    b = b
    Clients <- TwoClients
    MaxAddrs = 2
    MaxPackets <- ThreeAndOne
    None = None
INVARIANTS
    NewestHeld
