SPECIFICATION Spec
CONSTANTS
    Clients = {c1, c2}
    Worker = w
    ScopeUser = c1
    Delays = {0, 2}
    Milli = 2
    IdleWait = 100
    MaxTasks = 2
    MaxTime = 3
INVARIANTS
    NoRunAfterCancel
    ScopeQuiet
    WakesInTime
PROPERTIES
    EveryTaskEnds
CHECK_DEADLOCK FALSE
