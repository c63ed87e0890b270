SPECIFICATION Spec
CONSTANTS
    m1 = m1
    m2 = m2
    Machines <- TwoMachines
    Group <- OneGroup
    Modes = {"inplace", "replace", "unreachable"}
    Canary = FALSE
    Skipped <- Nothing
    DeployRetries = 1
    MaxUnavailable = 50
INVARIANTS
    SuccessIsChecked
    SuccessKeepsMachines
    FirstUpdateBounded
    LeasesCleared
SYMMETRY Interchangeable
