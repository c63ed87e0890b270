SPECIFICATION FairWaitSpec
CONSTANTS
    Calls <- AllCalls
    MachineStates = {"created", "started", "stopped", "suspended", "destroyed"}
INVARIANTS
    SuccessWasSeen
PROPERTY WaitReturns
