SPECIFICATION Spec
CONSTANTS
    Targets = {posts, users}
    Filtered = {users}
    MaxStores = 2
    MaxMessages = 1
    Timers = {t1, t2}
    NoTimer = NoTimer
    MaxChecks = 2
PROPERTIES
    NothingForGoneTargets
CHECK_DEADLOCK FALSE
