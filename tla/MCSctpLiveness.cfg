SPECIFICATION FairSpec
CONSTANTS
    A = A
    B = B
    SsnCount = 8
    TsnCount = 16
    GapCount = 8
    InitialTsn <- TsnAtWrap
    Labels <- OneChannelAtA
    InitRwnd = 2
    OutOfOrderCap = 4
    MaxInitRetransmits = 2
    MaxMessageSize = 2
    SendQueueCap = 2
    Sizes = {1}
    MaxMessages <- OneFromA
    MaxLosses = 1
    MaxPremature = 1
    ResetStreams = {}
    Destroyable = {}
INVARIANTS
    T3ArmedIffUnacked
    AckedWasReceived
PROPERTIES
    HandshakeCompletes
    EverythingAcknowledged
CHECK_DEADLOCK FALSE
