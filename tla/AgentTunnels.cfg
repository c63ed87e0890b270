SPECIFICATION FairSpec
CONSTANTS
    s1 = s1
    s2 = s2
    o1 = o1
    Sessions <- TwoSessions
    Orgs <- OneOrg
    Known <- OneOrg
    Free = Free
    Updater = Updater
    MaxPeers = 2
    MaxUpdates = 1
INVARIANTS
    MapTunnelsOpen
PROPERTIES
    RequestsGetOn
    StrayTunnelsClose
CHECK_DEADLOCK FALSE
