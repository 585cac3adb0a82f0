SPECIFICATION FairSpec
CONSTANTS
    Targets = {posts, users}
    Filtered = {users}
    MaxStores = 3
    MaxMessages = 2
    Timers = {t1, t2}
    NoTimer = NoTimer
    MaxChecks = 2
INVARIANTS
    ClientTypeOk
    NoOrphans
    OneSessionTimer
    ChainUnbroken
PROPERTIES
    SpeaksForItself
    KeepsBeingChecked
    OnlyWindsDown
CHECK_DEADLOCK FALSE
