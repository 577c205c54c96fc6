SPECIFICATION FairSpec
CONSTANTS
    NoAddr = noaddr
    a1 = a1
    a2 = a2
    Addr = {a1, a2}
    UintMax = 15
    MaxBatch = 2
    MaxSends = 1
    MaxMsgs = 2
INVARIANTS
    ConfirmsCounted
    DataPhaseSettled
    EnvelopesComplete
    OneRead
    StoppedWaitsForNothing
PROPERTIES
    DataPhaseHandsOver
    StoppedDrains
CHECK_DEADLOCK FALSE
