SPECIFICATION Spec
CONSTANTS
    Root = root
    NoEv = noev
    a = a
    b = b
    Ev = {root, a}
    Util = {}
    Hid = {h1, h2, h3, h4}
    HasTimeout = {}
    Aborting = {}
    Uncancelled = {}
INVARIANTS
    HandlerHasItsEvent
CHECK_DEADLOCK FALSE
