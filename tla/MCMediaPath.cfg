SPECIFICATION Spec
CONSTANTS
    Frames <- AllFrames
    Envs <- AllEnvs
    FirstSeq = 14
    FirstTs = 14
    FrameGap = 1
    Spread = 2
    MaxHistory = 16
    HasRtx = TRUE
    HasNack = TRUE
    DefaultTimeout = 8
    NackDelay = 1
    ResetDelay = 3
    SeqRange = 16
    TsRange = 16
    RolloverBack = 8
    ReportTracks = {"audio", "video"}
    FirstTrack = "audio"
    ControlSsrc = "control"
    ReportsInterval = 4
    MaxReports = 2
    MaxRtrrQueue = 2
    MaxDlrr = 1
    MarkerRange = 64
INVARIANTS
    
    RingExact
    WholeFrames
    FramesInOrder
    NacksOnTime
    NothingDueIsLeft
    LosslessDelivery
    FitsPacket
CHECK_DEADLOCK FALSE
