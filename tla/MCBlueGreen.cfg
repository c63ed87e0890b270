SPECIFICATION Spec
CONSTANTS
    web = web
    worker = worker
    v1 = v1
    v2 = v2
    NumBlue = 2
    Groups <- TwoGroups
    Images <- TwoImages
    MaxConcurrent = 2
    LaunchAttempts = 2
    UncordonAttempts = 2
    TeardownAttempts = 2
INVARIANTS
    TypeOK
    BlueKeptUntilGreenServes
    TrafficOnlyAfterHealth
    FailedIsAllOrNothing
    CompleteIsReplaced
    OneGreenPerLaunch
PROPERTY
    HandoverSpec
SYMMETRY Interchangeable
