SPECIFICATION Spec
CONSTANTS
    Backends = {"fenced"}
    RetryBase = 1
    RetryMax = 1
    AttemptCap = 2
    MaxTime = 1
    MaxEdits = 1
    MaxPeerWrites = 0
    MaxFailures = 0
    MaxCrashes = 0
INVARIANT StoreKeepsEdits
CHECK_DEADLOCK FALSE
