SPECIFICATION Spec
CONSTANTS
    Root = root
    NoEv = noev
    a = a
    b = b
    Ev = {root, a, b}
    Util = {}
    Hid = {h1, h2, h3, h4}
    HasTimeout = {a}
    Aborting = {b}
    Uncancelled = {b}
SYMMETRY SlotSymmetry
INVARIANTS
    TypeOK
    FinishedOnce
    TreeExact
    ParentOutlivesChild
    HolderKeepsAlive
    NoLeak
PROPERTIES
    ImplementsEventTree
CHECK_DEADLOCK FALSE
