SPECIFICATION FairSpec
CONSTANTS
    s1 = s1
    r1 = r1
    Session = {s1}
    Reader = {r1}
INVARIANTS
    Serves
    StopReachesAll
    LateWasQueued
PROPERTIES
    OnlyOwnStops
    QuietStopDrains
    QuietStopReturns
CHECK_DEADLOCK FALSE
