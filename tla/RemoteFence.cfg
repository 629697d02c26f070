SPECIFICATION FenceSpec
CONSTANTS
    Clients = {c1, c2}
    NoLease = NoLease
    Foreign = Foreign
    Heartbeat <- MCHeartbeat
    TTL = 5
    MaxTTL = 6
    Jitter = 0
    Horizon = 2
    RequestTimeout = 1
    MaxAttempts = 2
    Leftovers <- MCLeftovers
    MaxTime = 4
    MaxLeases = 1
    MaxVersion = 4
    MaxNetwork = 2
CHECK_DEADLOCK FALSE
SYMMETRY Devices
INVARIANTS FenceInv MutationsExclusive
PROPERTIES TakenOnlyWhenLapsed RemovesOnlyOwnRecord
