SPECIFICATION FairSpec
CONSTANTS
    None = None
    Ids = {1, 2}
    Names <- OneName
    Documents <- Contrasted
    InitialDatabases <- NoDocuments
    InitialStreams = {"none"}
    Type = "document"
    TestConfigs <- DocumentConfigs
    MaxWrites = 3
    MaxRestarts = 1
    MaxFaults = 1
    MaxEvents = 3
INVARIANTS
    StaleOnlyIfMissed
    Accounted
PROPERTIES
    ImplementsLiveView
    Settles
CHECK_DEADLOCK FALSE
