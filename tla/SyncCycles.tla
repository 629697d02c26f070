----------------------------- MODULE SyncCycles -----------------------------
(***************************************************************************)
(* The orchestrator and the cycle mutex together.  A cycle the             *)
(* orchestrator starts is one sync run; on its way it calls                *)
(* performSyncCycle (sync-run.ts, sync.ts), which goes through             *)
(* executeSyncCycle once.  reset() makes the orchestrator forget a cycle   *)
(* and start another beside it: then only the mutex keeps them apart.      *)
(***************************************************************************)
EXTENDS SyncOrchestrator, SyncCycleMutex

ASSUME CallersAssumption == Callers = Cycles

VARIABLE merged    \* the cycles whose run has made its call

allVars == <<vars, mutexVars, merged>>

CyclesInit == Init /\ MutexInit /\ merged = {}

(* What the orchestrator and its callers do, the end of a run apart. *)
Orchestrate ==
    \/ \E arg \in OptArgs : RunJoins(arg)
    \/ \E c \in Cycles, arg \in OptArgs : RunStarts(c, arg) \/ CycleRequestsFollowUp(c, arg)
    \/ \E c \in Cycles, delay \in RequestDelays, arg \in OptArgs :
          CycleRequestsFollowUpAfter(c, delay, arg)
    \/ ClearFollowUp
    \/ Reset
    \/ \E c \in Cycles : Finally(c) \/ TimerFires(c)
    \/ Tick

PerformSyncCycle(c) ==
    /\ cycleState[c] = "running"
    /\ c \notin merged
    /\ Enter(c)
    /\ merged' = merged \cup {c}
    /\ UNCHANGED vars

(* A run ends with its call returned, or before it made one (nothing to do,  *)
(* or an error).                                                             *)
RunEnds(c) ==
    /\ ~Pending(c)
    /\ Settle(c)
    /\ merged' = merged \ {c}
    /\ UNCHANGED mutexVars

CyclesNext ==
    \/ Orchestrate /\ UNCHANGED <<mutexVars, merged>>
    \/ \E c \in Cycles : PerformSyncCycle(c) \/ RunEnds(c)
    \/ \E c \in Cycles : (Begin(c) \/ Leave(c)) /\ UNCHANGED <<vars, merged>>

(* As for each part alone; a run that waits in the mutex ends after its turn. *)
CyclesFairness ==
    /\ MutexFairness
    /\ \A c \in Cycles : WF_allVars(RunEnds(c)) /\ WF_vars(Finally(c))
    /\ WF_vars(\E c \in Cycles : TimerFires(c))
    /\ WF_vars(Tick)

CyclesSpec == CyclesInit /\ [][CyclesNext]_allVars /\ CyclesFairness
=============================================================================
