SPECIFICATION Spec
CONSTANTS
    Backends = {"fenced", "cloud"}
    RetryBase = 1
    RetryMax = 1
    AttemptCap = 1
    MaxTime = 1
    MaxEdits = 2
    MaxPeerWrites = 1
    MaxFailures = 1
    MaxCrashes = 1
CHECK_DEADLOCK FALSE
INVARIANTS RunInv
PROPERTIES NothingOverwritten ChangesArrive
