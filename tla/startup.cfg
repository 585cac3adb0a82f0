SPECIFICATION FairSpec
CONSTANTS
    Callers = {c1, c2}
    Collections = {"a"}
    MaxEvents = 3
    TaskList <- FewTasks
    ModelFiles <- FewModels
INVARIANTS
    TypeOk
    HeardOnce
    LiveMeansListening
    WaitsForInit
PROPERTIES
    NoneFailsOnceConnected
    ImplementsFeeds
CHECK_DEADLOCK FALSE
