SPECIFICATION FairSpec
CONSTANTS
    m1 = m1
    m2 = m2
    Machines <- TwoMachines
    MaxGrants = 2
INVARIANTS
    ReleasedStaysReleased
    RefreshHasNonce
PROPERTIES
    AlwaysReturns
    RefreshersStop
