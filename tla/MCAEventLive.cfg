SPECIFICATION FairSpec
CONSTANTS
    Root = root
    NoEv = noev
    a = a
    b = b
    Ev = {root, a}
    Util = {u}
    Hid = {h1, h2, h3}
    HasTimeout = {a}
    Aborting = {}
    Uncancelled = {}
INVARIANTS
    FinishedLetsGo
PROPERTIES
    StoppedIsDestructed
CHECK_DEADLOCK FALSE
