SPECIFICATION Spec
CONSTANTS
    None = None
    Ids = {1, 2}
    Names <- TwoNames
    Documents <- ThreeDocuments
    InitialDatabases <- OneDatabase
    InitialStreams = {"none"}
    Type = "document"
    TestConfigs <- LookedUpConfigs
    MaxWrites = 2
    MaxRestarts = 2
    MaxFaults = 1
    MaxEvents = 2
INVARIANTS
    StaleOnlyIfMissed
    FreshUnlessLost
    
CHECK_DEADLOCK FALSE
