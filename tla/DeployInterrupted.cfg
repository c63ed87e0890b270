SPECIFICATION DeploySpec
CONSTANTS
    app = app
    worker = worker
    gone = gone
    api = api
    Machines <- Fleet
    Group <- FleetOf
    Warm <- Started
    InConfig <- Processes
    Spares <- Second
    Setups <- SomeSetups
    MaxUnavailable = 50
    MaxConcurrent = 2
    StatusAttempts = 3
    MaxEntries = 1
INVARIANT InterruptedByUser
