SPECIFICATION Spec
CONSTANTS
    A = A
    B = B
    SsnCount = 8
    TsnCount = 16
    GapCount = 8
    InitialTsn <- TsnAtWrap
    Labels <- OneChannelAtA
    InitRwnd = 2
    OutOfOrderCap = 4
    MaxInitRetransmits = 2
    MaxMessageSize = 2
    SendQueueCap = 2
    Sizes = {1}
    MaxMessages <- OneFromA
    MaxLosses = 0
    MaxPremature = 0
    ResetStreams = {}
    Destroyable = {}
INVARIANTS
    AcknowledgedMeansDelivered
CHECK_DEADLOCK FALSE
