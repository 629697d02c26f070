-------------------------- MODULE SyncOrchestrator --------------------------
(***************************************************************************)
(* packages/core/src/sync-orchestrator.ts: the single-flight runner that   *)
(* every sync trigger of the desktop and mobile apps goes through.         *)
(*                                                                         *)
(* One cycle is in flight at a time; a run() that arrives meanwhile is     *)
(* coalesced into one queued follow-up, which starts when the cycle        *)
(* settles, at once or after a delay.  reset() forgets the cycle in flight *)
(* without stopping it, so an old cycle may go on beside a new one.        *)
(*                                                                         *)
(* A cycle's promise settles in one step (Settle) and the orchestrator's   *)
(* .finally() callback runs in a later one (Finally): other microtasks can *)
(* call run() in between.  Time is counted in abstract clock units.        *)
(***************************************************************************)
EXTENDS Integers

CONSTANTS
    Cycles,          \* promises that may be alive at once (a bound on orphans)
    NoCycle,         \* inFlight = null
    Args,            \* what a caller may ask a cycle to do
    NoArg,           \* undefined
    PacingDelays,    \* what getFollowUpDelayMs may answer
    RequestDelays    \* what a cycle may pass to requestFollowUpAfter

ASSUME CyclesAssumption == NoCycle \notin Cycles
ASSUME ArgsAssumption == NoArg \notin Args
ASSUME DelaysAssumption == PacingDelays \subseteq Nat /\ RequestDelays \subseteq Nat

VARIABLES
    cycleState,      \* of each promise: "free", "running" or "settled"
    cycleArg,        \* the argument it runs with
    inFlight,        \* the cycle the orchestrator tracks, or NoCycle
    queued,          \* a follow-up has been requested
    queuedArg,       \* the argument it asked for, or NoArg
    followUpTimer,   \* {} or the one armed timer: time left, finished cycle's argument
    minimumDelay,    \* minimumFollowUpDelayMs
    mandated         \* history: time the follow-up must still be held back, as
                     \* asked by the cycle in flight (counted from its end)

vars == <<cycleState, cycleArg, inFlight, queued, queuedArg, followUpTimer,
          minimumDelay, mandated>>

OptArgs == Args \cup {NoArg}

Larger(a, b) == IF a >= b THEN a ELSE b
OrElse(arg, default) == IF arg # NoArg THEN arg ELSE default    \* arg ?? default

-----------------------------------------------------------------------------
Init ==
    /\ cycleState = [c \in Cycles |-> "free"]
    /\ cycleArg = [c \in Cycles |-> NoArg]
    /\ inFlight = NoCycle
    /\ queued = FALSE
    /\ queuedArg = NoArg
    /\ followUpTimer = {}
    /\ minimumDelay = 0
    /\ mandated = 0

(* run() with nothing in flight: promise c is created for a fresh cycle, and *)
(* the queue and the timer are consumed by it.                               *)
StartCycle(c, arg) ==
    /\ cycleState' = [cycleState EXCEPT ![c] = "running"]
    /\ cycleArg' = [cycleArg EXCEPT ![c] = arg]
    /\ inFlight' = c
    /\ queued' = FALSE
    /\ queuedArg' = NoArg
    /\ followUpTimer' = {}
    /\ mandated' = 0

QueueFollowUp(arg) ==
    /\ queued' = TRUE
    /\ queuedArg' = OrElse(arg, queuedArg)

RunJoins(arg) ==
    /\ inFlight # NoCycle
    /\ QueueFollowUp(arg)
    /\ UNCHANGED <<cycleState, cycleArg, inFlight, followUpTimer, minimumDelay, mandated>>

RunStarts(c, arg) ==
    /\ inFlight = NoCycle
    /\ cycleState[c] = "free"
    /\ StartCycle(c, arg)
    /\ UNCHANGED minimumDelay

(* The controls handed to cycle c; a cycle orphaned by reset() still has them. *)
CycleRequestsFollowUp(c, arg) ==
    /\ cycleState[c] = "running"
    /\ QueueFollowUp(OrElse(arg, cycleArg[c]))
    /\ UNCHANGED <<cycleState, cycleArg, inFlight, followUpTimer, minimumDelay, mandated>>

(* Mutation of CycleRequestsFollowUpAfter: the last delay wins, not the largest. *)
LastDelayWins(c, delay, arg) ==
    /\ cycleState[c] = "running"
    /\ QueueFollowUp(OrElse(arg, cycleArg[c]))
    /\ minimumDelay' = delay
    /\ mandated' = IF inFlight = c THEN Larger(mandated, delay) ELSE mandated
    /\ UNCHANGED <<cycleState, cycleArg, inFlight, followUpTimer>>

CycleRequestsFollowUpAfter(c, delay, arg) ==
    /\ cycleState[c] = "running"
    /\ QueueFollowUp(OrElse(arg, cycleArg[c]))
    /\ minimumDelay' = Larger(minimumDelay, delay)
    /\ mandated' = IF inFlight = c THEN Larger(mandated, delay) ELSE mandated
    /\ UNCHANGED <<cycleState, cycleArg, inFlight, followUpTimer>>

(* Mutation of ClearFollowUp: the armed timer is not cancelled. *)
ClearKeepsTimer ==
    /\ queuedArg' = NoArg
    /\ minimumDelay' = 0
    /\ queued' = FALSE
    /\ mandated' = 0
    /\ UNCHANGED <<cycleState, cycleArg, inFlight, followUpTimer>>

ClearFollowUp ==
    /\ followUpTimer' = {}
    /\ queuedArg' = NoArg
    /\ minimumDelay' = 0
    /\ queued' = FALSE
    /\ mandated' = 0
    /\ UNCHANGED <<cycleState, cycleArg, inFlight>>

Reset ==
    /\ followUpTimer' = {}
    /\ inFlight' = NoCycle
    /\ queuedArg' = NoArg
    /\ minimumDelay' = 0
    /\ queued' = FALSE
    /\ mandated' = 0
    /\ UNCHANGED <<cycleState, cycleArg>>

(* The promise of runCycle resolves or rejects. *)
Settle(c) ==
    /\ cycleState[c] = "running"
    /\ cycleState' = [cycleState EXCEPT ![c] = "settled"]
    /\ UNCHANGED <<cycleArg, inFlight, queued, queuedArg, followUpTimer, minimumDelay, mandated>>

Retire(c) == cycleState' = [cycleState EXCEPT ![c] = "free"]

(* The .finally() callback of a cycle that reset() has made stale. *)
FinallyOrphan(c) ==
    /\ cycleState[c] = "settled"
    /\ inFlight # c
    /\ Retire(c)
    /\ UNCHANGED <<cycleArg, inFlight, queued, queuedArg, followUpTimer, minimumDelay, mandated>>

(* Mutation of FinallyDrained: the queue is not looked at. *)
DrainStrandsQueue(c) ==
    /\ cycleState[c] = "settled"
    /\ inFlight = c
    /\ inFlight' = NoCycle
    /\ Retire(c)
    /\ UNCHANGED <<cycleArg, queued, queuedArg, followUpTimer, minimumDelay, mandated>>

FinallyDrained(c) ==
    /\ cycleState[c] = "settled"
    /\ inFlight = c
    /\ ~queued
    /\ inFlight' = NoCycle
    /\ Retire(c)
    /\ UNCHANGED <<cycleArg, queued, queuedArg, followUpTimer, minimumDelay, mandated>>

(* The same callback with a follow-up waiting and a delay to keep first. *)
FinallyArmsTimer(c, pacing) ==
    /\ cycleState[c] = "settled"
    /\ inFlight = c
    /\ queued
    /\ Larger(pacing, minimumDelay) > 0
    /\ followUpTimer' = {[left |-> Larger(pacing, minimumDelay), arg |-> cycleArg[c]]}
    /\ minimumDelay' = 0
    /\ inFlight' = NoCycle
    /\ Retire(c)
    /\ UNCHANGED <<cycleArg, queued, queuedArg, mandated>>

(* ... and with none: startQueuedRun() runs inside the callback.  The new     *)
(* cycle takes over the promise slot of the old one.                         *)
FinallyStartsQueued(c, pacing) ==
    /\ cycleState[c] = "settled"
    /\ inFlight = c
    /\ queued
    /\ Larger(pacing, minimumDelay) = 0
    /\ minimumDelay' = 0
    /\ StartCycle(c, OrElse(queuedArg, cycleArg[c]))

(* startQueuedRun() as the timer's callback, with its early return. *)
TimerFires(c) ==
    \E t \in followUpTimer :
        /\ t.left = 0
        /\ IF inFlight # NoCycle \/ ~queued
           THEN /\ followUpTimer' = {}
                /\ UNCHANGED <<cycleState, cycleArg, inFlight, queued, queuedArg, mandated>>
           ELSE /\ cycleState[c] = "free"
                /\ StartCycle(c, OrElse(queuedArg, t.arg))
        /\ UNCHANGED minimumDelay

Tick ==
    /\ \E t \in followUpTimer :
        /\ t.left > 0
        /\ followUpTimer' = {[t EXCEPT !.left = @ - 1]}
    /\ mandated' = IF mandated > 0 THEN mandated - 1 ELSE 0
    /\ UNCHANGED <<cycleState, cycleArg, inFlight, queued, queuedArg, minimumDelay>>

Finally(c) ==
    \/ FinallyOrphan(c)
    \/ FinallyDrained(c)
    \/ \E pacing \in PacingDelays : FinallyArmsTimer(c, pacing) \/ FinallyStartsQueued(c, pacing)

Next ==
    \/ \E arg \in OptArgs : RunJoins(arg)
    \/ \E c \in Cycles, arg \in OptArgs : RunStarts(c, arg) \/ CycleRequestsFollowUp(c, arg)
    \/ \E c \in Cycles, delay \in RequestDelays, arg \in OptArgs :
          CycleRequestsFollowUpAfter(c, delay, arg)
    \/ ClearFollowUp
    \/ Reset
    \/ \E c \in Cycles : Settle(c) \/ Finally(c) \/ TimerFires(c)
    \/ Tick

(* Cycles end (every request a cycle makes has a timeout), the runtime runs  *)
(* the callbacks of settled promises, and timers run down and fire.          *)
Fairness ==
    /\ \A c \in Cycles : WF_vars(Settle(c)) /\ WF_vars(Finally(c))
    /\ WF_vars(\E c \in Cycles : TimerFires(c))
    /\ WF_vars(Tick)

Spec == Init /\ [][Next]_vars /\ Fairness

-----------------------------------------------------------------------------
(* Every variable keeps its type; at most one timer is armed. *)
TypeOK ==
    /\ cycleState \in [Cycles -> {"free", "running", "settled"}]
    /\ cycleArg \in [Cycles -> OptArgs]
    /\ inFlight \in Cycles \cup {NoCycle}
    /\ queued \in BOOLEAN
    /\ queuedArg \in OptArgs
    /\ followUpTimer \subseteq [left : Nat, arg : OptArgs]
    /\ \A s, t \in followUpTimer : s = t
    /\ minimumDelay \in Nat
    /\ mandated \in Nat

(* A follow-up timer only ever waits on behalf of a queued request with no   *)
(* cycle in flight: neither a direct run(), nor clearFollowUp() or reset(),  *)
(* nor a second cycle leaves one behind.  So the early return of             *)
(* startQueuedRun is never what keeps two cycles apart.                      *)
TimerImpliesWaiting ==
    followUpTimer # {} => inFlight = NoCycle /\ queued

(* The tracked cycle is a live promise: its .finally() is still to come, so  *)
(* whatever is queued behind it will be looked at.                           *)
InFlightIsLive ==
    inFlight # NoCycle => cycleState[inFlight] \in {"running", "settled"}

(* The delay a cycle asked for is carried, never shortened, from its request *)
(* through minimumFollowUpDelayMs into the armed timer, and only a queued    *)
(* follow-up is ever held back by one.                                       *)
MandatedCovered ==
    /\ inFlight # NoCycle => mandated <= minimumDelay
    /\ \A t \in followUpTimer : mandated <= t.left
    /\ mandated > 0 => queued /\ (inFlight # NoCycle \/ followUpTimer # {})

(* The inductive invariant: types, the timer's discipline, the tracked       *)
(* cycle's liveness and the bookkeeping of the requested delay.              *)
OrchestratorInv ==
    /\ TypeOK
    /\ TimerImpliesWaiting
    /\ InFlightIsLive
    /\ MandatedCovered

(* "the effective delay is never below it": a queued follow-up does not      *)
(* start before the longest delay the finished cycle asked for has passed    *)
(* since that cycle ended.  (A direct run() may.)                            *)
QueuedStart ==
    \E c \in Cycles :
        /\ cycleState'[c] = "running"
        /\ \/ TimerFires(c)
           \/ \E pacing \in PacingDelays : FinallyStartsQueued(c, pacing)
MandatedDelayKept == [][QueuedStart => mandated = 0]_vars

(* A follow-up requested while a cycle is in flight is taken up: the queue   *)
(* never stays full for ever (FollowUpNotDropped says how it empties).       *)
FollowUpEventuallyRuns == (inFlight # NoCycle /\ queued) ~> ~queued

=============================================================================
