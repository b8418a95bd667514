SPECIFICATION Spec
CONSTANTS
    c1 = c1
    c2 = c2
    c3 = c3
    Candidates = {c1, c2, c3}
    Family <- Families
    Offers <- OneOffer
    Styles <- OneStyle
    ConnectTimeout = 5
    LostTimeout = 5
    AppThreads = {t1}
    MaxMessages = 0
    MaxFrames = 1
    MaxTransactions = 1
    PromptPeer = TRUE
INVARIANT
    MaintainsConnectivity
CHECK_DEADLOCK FALSE
