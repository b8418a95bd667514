SPECIFICATION FairSpec
CONSTANTS
    c1 = c1
    c2 = c2
    c3 = c3
    Candidates = {c1, c2, c3}
    Family <- Families
    Offers <- SomeOffers
    Styles <- SomeStyles
    ConnectTimeout = 2
    LostTimeout = 2
    AppThreads = {t1, t2}
    MaxMessages = 2
    MaxFrames = 1
    MaxTransactions = 2
    PromptPeer = FALSE
INVARIANTS
    TracksAsOffered
    OneVoice
    JitterBuffersWhileConnected
    WatchdogArmed
    QuietAfterJoin
    NoMessageLost
PROPERTIES
    ImplementsLifecycle
    CloseReturns
CHECK_DEADLOCK FALSE
