SPECIFICATION Spec
CONSTANTS
    None = None
    Ids = {1, 2}
    Names <- TwoNames
    Documents <- ThreeDocuments
    InitialDatabases <- OneDatabase
    InitialStreams = {"open"}
    Type = "collection"
    TestConfigs <- CollectionConfigs
    MaxWrites = 2
    MaxRestarts = 2
    MaxFaults = 1
    MaxEvents = 2
INVARIANTS
    StaleOnlyIfMissed
    Accounted
CHECK_DEADLOCK FALSE
