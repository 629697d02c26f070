SPECIFICATION CyclesSpec
CONSTANTS
    Cycles = {c1, c2, c3}
    Callers = {c1, c2, c3}
    Resolved = Resolved
    NoCycle = NoCycle
    Args = {a1}
    NoArg = NoArg
    PacingDelays <- MCPacingDelays
    RequestDelays <- MCRequestDelays
INVARIANTS OrchestratorInv MutexInv
PROPERTIES MandatedDelayKept FollowUpEventuallyRuns ImplementsFifoLock
