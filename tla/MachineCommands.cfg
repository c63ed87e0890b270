SPECIFICATION FairSpec
CONSTANTS
    c1 = c1
    c2 = c2
    r1 = r1
    r2 = r2
    r3 = r3
    Machines <- ThreeMachines
    Region <- TwoInOne
    Regions <- ThreeRegions
    Commands <- TwoCommands
    Scenarios <- AllScenarios
    Fleets <- SomeFleets
INVARIANTS
    UpdatesKept
    LeasesReleased
    ScaleMeetsCount
    PlanIsExact
PROPERTY CommandsEnd
CHECK_DEADLOCK FALSE
