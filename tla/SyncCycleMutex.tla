--------------------------- MODULE SyncCycleMutex ---------------------------
(***************************************************************************)
(* packages/core/src/sync-cycle.ts: executeSyncCycle, the promise chain    *)
(* that keeps the read/merge/write windows of one process apart (ADR       *)
(* 0016).  async-queue.ts builds the same chain for the document lane.     *)
(*                                                                         *)
(* syncCycleMutex holds the promise of the latest caller.  A caller takes  *)
(* it as its `previous`, puts its own in its place and awaits `previous`;  *)
(* there is no other record of who waits for whom.  A caller stands for    *)
(* the promise it made; Resolved is any promise that has been released.    *)
(***************************************************************************)
EXTENDS Integers, Sequences

CONSTANTS Callers, Resolved

ASSUME ResolvedAssumption == Resolved \notin Callers

VARIABLES
    phase,           \* of each caller: "idle", "waiting" or "inside" its operation
    previous,        \* the promise it awaits
    syncCycleMutex,  \* the promise of the latest caller
    order            \* history: the callers not yet done, in the order they called

mutexVars == <<phase, previous, syncCycleMutex, order>>

MutexInit ==
    /\ phase = [p \in Callers |-> "idle"]
    /\ previous = [p \in Callers |-> Resolved]
    /\ syncCycleMutex = Resolved
    /\ order = <<>>

(* The synchronous part of a call, up to its first await. *)
Enter(p) ==
    /\ phase[p] = "idle"
    /\ phase' = [phase EXCEPT ![p] = "waiting"]
    /\ previous' = [previous EXCEPT ![p] = syncCycleMutex]
    /\ syncCycleMutex' = p
    /\ order' = Append(order, p)

(* `await previous` resumes, in a later microtask even if already resolved. *)
Begin(p) ==
    /\ phase[p] = "waiting"
    /\ previous[p] = Resolved
    /\ phase' = [phase EXCEPT ![p] = "inside"]
    /\ UNCHANGED <<previous, syncCycleMutex, order>>

Release(p) == previous' = [q \in Callers |-> IF previous[q] = p THEN Resolved ELSE previous[q]]

(* Mutation of Leave: the chain is reset although a later caller extended it. *)
LeaveResetsChain(p) ==
    /\ phase[p] = "inside"
    /\ phase' = [phase EXCEPT ![p] = "idle"]
    /\ Release(p)
    /\ syncCycleMutex' = Resolved
    /\ order' = SelectSeq(order, LAMBDA q : q # p)

(* The operation returns or throws: the finally block. *)
Leave(p) ==
    /\ phase[p] = "inside"
    /\ phase' = [phase EXCEPT ![p] = "idle"]
    /\ Release(p)
    /\ syncCycleMutex' = IF syncCycleMutex = p THEN Resolved ELSE syncCycleMutex
    /\ order' = Tail(order)

MutexNext == \E p \in Callers : Enter(p) \/ Begin(p) \/ Leave(p)

(* Microtasks run, and an operation ends (its I/O is bounded by timeouts). *)
MutexFairness == \A p \in Callers : WF_mutexVars(Begin(p)) /\ WF_mutexVars(Leave(p))

MutexSpec == MutexInit /\ [][MutexNext]_mutexVars /\ MutexFairness

-----------------------------------------------------------------------------
Pending(p) == phase[p] # "idle"

MutexTypeOK ==
    /\ phase \in [Callers -> {"idle", "waiting", "inside"}]
    /\ previous \in [Callers -> Callers \cup {Resolved}]
    /\ syncCycleMutex \in Callers \cup {Resolved}
    /\ order \in Seq(Callers)

(* "only one read/merge/write cycle runs at a time in a process" (ADR 0016). *)
OneCycleAtATime ==
    \A p, q \in Callers : phase[p] = "inside" /\ phase[q] = "inside" => p = q

(* The promises alone spell out the order of arrival: the oldest caller      *)
(* waits for nobody, each later one for the one before it, syncCycleMutex is *)
(* the latest, and only the oldest can be inside.                            *)
ChainSpellsOrder ==
    /\ \A i, j \in 1..Len(order) : order[i] = order[j] => i = j
    /\ \A p \in Callers : Pending(p) <=> \E i \in 1..Len(order) : order[i] = p
    /\ \A i \in 1..Len(order) : previous[order[i]] = IF i = 1 THEN Resolved ELSE order[i - 1]
    /\ \A i \in 1..Len(order) : phase[order[i]] = "inside" => i = 1
    /\ \A p \in Callers : ~Pending(p) => previous[p] = Resolved
    /\ syncCycleMutex = IF Len(order) = 0 THEN Resolved ELSE order[Len(order)]

(* The inductive invariant of the chain. *)
MutexInv == MutexTypeOK /\ ChainSpellsOrder /\ OneCycleAtATime

Lock == INSTANCE FifoLock
    WITH queue <- order,
         serving <- \E p \in Callers : phase[p] = "inside"

(* executeSyncCycle is a first-come first-served lock: who runs next is      *)
(* decided by who called first, and everybody who called runs.               *)
ImplementsFifoLock == Lock!Spec

(* The same without the fairness: every step is a step of the lock. *)
StepsOfFifoLock == Lock!Init /\ [][Lock!Next]_Lock!vars
=============================================================================
