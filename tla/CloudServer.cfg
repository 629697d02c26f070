SPECIFICATION Spec
CONSTANTS
    Procs = {p1, p2}
    Keys = {k1, k2}
    Requests = {r1, r2, r3}
    Sites <- MCSites
    MaxNamespaces = 1
    NoOne = NoOne
CHECK_DEADLOCK FALSE
SYMMETRY Interchangeable
INVARIANTS ServerInv CapturesOnce
