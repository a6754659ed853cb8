SPECIFICATION FairDaemonSpec
CONSTANTS
    Factor = 8
    MaxCounter = 15
    EventCount = 2
    MaxErrors = 1
INVARIANTS
    DaemonTypeOK
    SkipsBounded
    HarvesterHasPool
    StopsBeforeNextEvent
    PagesEndWhole
PROPERTIES
    SaturdayIsFaster
    DaemonStops
    HarvestsUntilStopped
CHECK_DEADLOCK FALSE
