SPECIFICATION Spec
CONSTANTS
    SeqCount = 64
    Size = 8
    Low = 16
    High = 48
    FirstIndex = 58
    LastIndex = 70
    MaxDelay = 6
    MaxLoss = 12
    MaxReconnects = 1
    IndexCount = 64
    ControlSources = {"track", "control"}
    MaxControl = 4
INVARIANTS
    MediaReadable
    ControlReadable
PROPERTY
    ImplementsReplayWindow
CHECK_DEADLOCK FALSE
