SPECIFICATION FairSpec
CONSTANTS
    web = web
    worker = worker
    v1 = v1
    v2 = v2
    NumBlue = 2
    Groups <- OneGroup
    Images <- OneImage
    MaxConcurrent = 1
    LaunchAttempts = 2
    UncordonAttempts = 2
    TeardownAttempts = 2
PROPERTY Terminates
