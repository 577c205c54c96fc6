SPECIFICATION FairSpec
CONSTANTS
    Char = {"h", "n", "d", "f", "g", ":", "/", "0", "1"}
    MaxBody = 2
    NameNode <- SmallNameNode
    Location <- SmallLocation
INVARIANTS
    ReportsOnce
    ContentIsSound
    RedirectFollowed
PROPERTIES
    StoppedRests
    StoppedOnlyWindsUp
CHECK_DEADLOCK FALSE
