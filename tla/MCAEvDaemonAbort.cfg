SPECIFICATION FairSpec
CONSTANTS
    s1 = s1
    r1 = r1
    Session = {s1}
    Reader = {}
PROPERTIES
    AbortEndsProcess
CHECK_DEADLOCK FALSE
