SPECIFICATION Spec
CONSTANTS
    None = None
    Ids = {1, 2}
    Names <- OneName
    Documents <- ThreeDocuments
    InitialDatabases <- OneDatabase
    InitialStreams = {"none"}
    Type = "count"
    TestConfigs <- CountConfigs
    MaxWrites = 2
    MaxRestarts = 2
    MaxFaults = 1
    MaxEvents = 3
INVARIANTS
    TypeOk
    StaleOnlyIfMissed
PROPERTIES
    DestroyedStartsNothing
CHECK_DEADLOCK FALSE
