SPECIFICATION FairSpec
CONSTANTS
    TestConfigs <- FewConfigs
    MaxWrites = 2
    MaxRestarts = 2
    MaxFaults = 1
    MaxEvents = 4
INVARIANTS
    TypeOk
    TotalRight
    TotalNotOlder
    DiffsAwaited
PROPERTIES
    DestroyedDwindles
    ImplementsLiveView
    ComesToRest
CHECK_DEADLOCK FALSE
