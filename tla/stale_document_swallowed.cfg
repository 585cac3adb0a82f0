SPECIFICATION Spec
CONSTANTS
    None = None
    Ids = {1, 2}
    Names <- OneName
    Documents <- TwoDocuments
    InitialDatabases <- BothSelected
    InitialStreams = {"open"}
    Type = "document"
    TestConfigs <- JustById
    MaxWrites = 3
    MaxRestarts = 1
    MaxFaults = 0
    MaxEvents = 3
INVARIANTS
    ThrottleLosesNothing
CHECK_DEADLOCK FALSE
