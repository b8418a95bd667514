SPECIFICATION Spec
CONSTANTS
    SeqRange = 16
    MaxPacketCount = 8
    MaxHistoryCount = 8
    ResetDelay = 100
    GenerateInterval = 9
    Quantum = 2
    RefUnit = 6
    RefCount = 5
    SmallMax = 4
    LargeMax = 40
    SmallRun = 3
    LargeRun = 2
    MaxFeedbackSize = 12
    RolloverBack = 20
    ActualMinPackets = 3
    ActualMinTime = 5
    TrendMinPackets = 2
    TrendMinTime = 3
    ProbeMinPackets = 3
    ProbeMinTime = 4
    ProbeMinPacketCount = 2
    ProbeMinDuration = 3
    OverusingSince = 4
    OverusingCount = 2
    StartProbing = 5
    PeriodicProbing = 11
    ProbeDuration = 6
    Sizes <- SmallAndLargeSizes
    SendGap = 2
    Delay = 3
    ReportDelay = 10
    SentHistory = 4
    MaxFaults = 2
INVARIANTS
    RingExact
    ReportedTimesAreReal
    CountedLostWasLate
    ProbingEnds
CHECK_DEADLOCK FALSE
