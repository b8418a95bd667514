SPECIFICATION Spec
CONSTANTS
    SsnCount = 8
    FragmentCounts <- MixedFragments
    FirstSsn = 6
    Modes = {FALSE}
    MaxOutstanding = 4
    InOrderFragments = FALSE
INVARIANT
    DeliveredMessagesAreWhole
CHECK_DEADLOCK FALSE
