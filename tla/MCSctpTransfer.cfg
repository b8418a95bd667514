SPECIFICATION Spec
CONSTANTS
    A = A
    B = B
    SsnCount = 8
    TsnCount = 16
    GapCount = 8
    InitialTsn <- TsnAtWrap
    Labels <- OneChannelAtA
    InitRwnd = 2
    OutOfOrderCap = 4
    MaxInitRetransmits = 0
    MaxMessageSize = 2
    SendQueueCap = 1
    Sizes = {1}
    MaxMessages <- ThreeFromA
    MaxLosses = 1
    MaxPremature = 0
    ResetStreams = {0}
    Destroyable = {B}
INVARIANTS
    InOrderOnce
    FlightMatchesSent
    NoStrandedPending
CHECK_DEADLOCK FALSE
