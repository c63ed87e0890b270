SPECIFICATION FairSpec
CONSTANTS
    m1 = m1
    m2 = m2
    Machines <- TwoMachines
    Group <- OneGroup
    Modes = {"inplace"}
    Canary = TRUE
    Skipped <- Nothing
    DeployRetries = 1
    MaxUnavailable = 50
INVARIANTS
    CanaryFirst
PROPERTY Returns
