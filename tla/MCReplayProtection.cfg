SPECIFICATION Spec
CONSTANTS
    MaxPossibleValue = 21
    Size = 8
    MaxLap = 1
    MaxAccepted = 8
INVARIANTS
    NoReplay
    LateFreshPacketProceeds
    IndInv
PROPERTY
    MaxOnlyAdvances
CHECK_DEADLOCK FALSE
