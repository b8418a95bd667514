SPECIFICATION Spec
CONSTANTS
    SsnCount = 8
    FragmentCounts <- MixedFragments
    FirstSsn = 6
    Modes = {TRUE, FALSE}
    MaxOutstanding = 4
    InOrderFragments = TRUE
INVARIANTS
    OrderedDelivery
    ArrivedMeansDelivered
CHECK_DEADLOCK FALSE
