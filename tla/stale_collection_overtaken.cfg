SPECIFICATION Spec
CONSTANTS
    None = None
    Ids = {1, 2}
    Names <- OneName
    Documents <- TwoDocuments
    InitialDatabases <- BothSelected
    InitialStreams = {"open"}
    Type = "collection"
    TestConfigs <- JustSelected
    MaxWrites = 1
    MaxRestarts = 1
    MaxFaults = 0
    MaxEvents = 1
INVARIANTS
    StaysFresh
CHECK_DEADLOCK FALSE
