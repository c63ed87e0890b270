SPECIFICATION FairSpec
CONSTANTS
    c1 = c1
    c2 = c2
    Clients <- TwoClients
    Initial = Initial
    None = None
    Versions = {1, 2}
    Setups <- SomeSetups
INVARIANTS
    ServingIsReachable
PROPERTIES
    CommandsReturn
    ShutdownEnds
CHECK_DEADLOCK FALSE
