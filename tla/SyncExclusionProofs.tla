------------------------ MODULE SyncExclusionProofs -------------------------
(* What keeps syncs apart: within a process the orchestrator and the cycle   *)
(* mutex, between devices the lease at the provider.                         *)
(*                                                                           *)
(* OrchestratorInv is inductive, whatever the cycles, arguments and delays,  *)
(* and the requested delay is kept as a consequence.  The promise chain is a *)
(* first-come first-served lock for any callers.  Both hold of the two put   *)
(* together, because a step of SyncCycles is a step of each part or leaves   *)
(* it alone.                                                                 *)
(*                                                                           *)
(* FenceInv is inductive for any devices, timings and leftovers, and with it *)
(* mutual exclusion of fenced mutations and the peer-safety of the file.     *)
EXTENDS SyncCycles, RemoteFence, TLAPS

USE ResolvedAssumption

-----------------------------------------------------------------------------
(* The mutex. *)

(* No caller, no chain. *)
LEMMA InitMutexInv == MutexInit => MutexInv
BY DEF MutexInit, MutexInv, MutexTypeOK, ChainSpellsOrder, OneCycleAtATime, Pending

(* The caller whose operation is running is the oldest one. *)
LEMMA InsideIsFirst ==
    ASSUME MutexInv, NEW p \in Callers, phase[p] = "inside"
    PROVE  Len(order) \in Nat \ {0} /\ order[1] = p
BY DEF MutexInv, MutexTypeOK, ChainSpellsOrder, Pending

(* Entering extends the chain at its end, beginning needs its front, and     *)
(* leaving passes the front to the one waiter of the promise released.       *)
LEMMA NextMutexInv == MutexInv /\ [MutexNext]_mutexVars => MutexInv'
<1> SUFFICES ASSUME MutexInv, [MutexNext]_mutexVars PROVE MutexInv'
    OBVIOUS
<1> USE DEF MutexInv, MutexTypeOK, ChainSpellsOrder, OneCycleAtATime, Pending
<1>1. ASSUME NEW p \in Callers, Enter(p) PROVE MutexInv'
  <2>1. order' \in Seq(Callers) /\ Len(order') = Len(order) + 1
        /\ order'[Len(order) + 1] = p
        /\ \A i \in 1..Len(order) : order'[i] = order[i]
      BY <1>1 DEF Enter
  <2>2. \A i \in 1..Len(order) : order[i] # p
      BY <1>1 DEF Enter
  <2> HIDE DEF MutexInv
  <2>3. MutexTypeOK'
      BY <1>1, <2>1 DEF Enter, MutexInv
  <2> QED BY <1>1, <2>1, <2>2, <2>3 DEF Enter, MutexInv
<1>2. ASSUME NEW p \in Callers, Begin(p) PROVE MutexInv'
    BY <1>2 DEF Begin
<1>3. ASSUME NEW p \in Callers, Leave(p) PROVE MutexInv'
  <2>1. Len(order) \in Nat \ {0} /\ order[1] = p
      BY <1>3, InsideIsFirst DEF Leave
  <2>2. order' \in Seq(Callers) /\ Len(order') = Len(order) - 1
        /\ \A i \in 1..Len(order') : order'[i] = order[i + 1]
      BY <1>3, <2>1 DEF Leave
  <2>3. MutexTypeOK'
      BY <1>3, <2>2 DEF Leave, Release
  <2>4. \A q \in Callers : phase'[q] = IF q = p THEN "idle" ELSE phase[q]
      BY <1>3 DEF Leave
  <2>5. \A q \in Callers : previous'[q] = IF previous[q] = p THEN Resolved ELSE previous[q]
      BY <1>3 DEF Leave, Release
  <2>6. \A q \in Callers : Pending(q)' <=> \E i \in 1..Len(order') : order'[i] = q
    <3>1. ASSUME NEW q \in Callers, Pending(q)'
          PROVE  \E i \in 1..Len(order') : order'[i] = q
      <4>1. PICK k \in 1..Len(order) : order[k] = q
          BY <3>1, <2>4
      <4>2. k # 1 /\ k - 1 \in 1..Len(order')
          BY <4>1, <3>1, <2>4, <2>1, <2>2
      <4>3. order'[k - 1] = order[(k - 1) + 1] /\ (k - 1) + 1 = k
          BY <4>2, <2>2
      <4> QED BY <4>1, <4>2, <4>3
    <3>2. ASSUME NEW q \in Callers, NEW i \in 1..Len(order'), order'[i] = q
          PROVE  Pending(q)'
      <4>1. i + 1 \in 1..Len(order) /\ order[i + 1] = q /\ i + 1 # 1
          BY <3>2, <2>1, <2>2
      <4>2. q # p
          BY <4>1, <2>1
      <4>3. phase[q] # "idle"
          BY <4>1
      <4> QED BY <2>4, <4>2, <4>3
    <3> QED BY <3>1, <3>2
  <2>7. \A i \in 1..Len(order') :
            previous'[order'[i]] = IF i = 1 THEN Resolved ELSE order'[i - 1]
    <3> SUFFICES ASSUME NEW i \in 1..Len(order')
                 PROVE  previous'[order'[i]] = IF i = 1 THEN Resolved ELSE order'[i - 1]
        OBVIOUS
    <3>1. i + 1 \in 1..Len(order) /\ order'[i] = order[i + 1] /\ order[i + 1] \in Callers
          /\ previous[order[i + 1]] = order[i]
        BY <2>1, <2>2
    <3>2. i # 1 => order'[i - 1] = order[i] /\ order[i] # p
      <4> SUFFICES ASSUME i # 1 PROVE order'[i - 1] = order[i] /\ order[i] # p
          OBVIOUS
      <4>1. i - 1 \in 1..Len(order') /\ i \in 1..Len(order) /\ (i - 1) + 1 = i
          BY <2>1, <2>2, <3>1
      <4>2. order'[i - 1] = order[(i - 1) + 1]
          BY <2>2, <4>1
      <4>3. order[i] # order[1]
          BY <4>1, <2>1
      <4> QED BY <2>1, <4>1, <4>2, <4>3
    <3> QED BY <2>1, <2>5, <3>1, <3>2
  <2>8. syncCycleMutex' = IF Len(order') = 0 THEN Resolved ELSE order'[Len(order')]
    <3>1. CASE Len(order) = 1
        BY <1>3, <2>1, <2>2, <3>1 DEF Leave
    <3>2. CASE Len(order) # 1
        BY <1>3, <2>1, <2>2, <3>2 DEF Leave
    <3> QED BY <3>1, <3>2
  <2>9. /\ \A i, j \in 1..Len(order') : order'[i] = order'[j] => i = j
        /\ \A i \in 1..Len(order') : phase'[order'[i]] = "inside" => i = 1
    <3> SUFFICES ASSUME NEW i \in 1..Len(order'), NEW j \in 1..Len(order')
                 PROVE  (order'[i] = order'[j] => i = j)
                        /\ (phase'[order'[i]] = "inside" => i = 1)
        OBVIOUS
    <3>1. i + 1 \in 1..Len(order) /\ j + 1 \in 1..Len(order)
        BY <2>1, <2>2
    <3>2. order'[i] = order[i + 1] /\ order'[j] = order[j + 1] /\ order[i + 1] \in Callers
        BY <2>2, <3>1
    <3>3. order[i + 1] = order[j + 1] => i + 1 = j + 1
        BY <3>1
    <3>4. phase[order[i + 1]] # "inside"
        BY <3>1
    <3> QED BY <2>4, <3>2, <3>3, <3>4
  <2>10. /\ \A q \in Callers : ~Pending(q)' => previous'[q] = Resolved
         /\ OneCycleAtATime'
      BY <1>3, <2>1, <2>4, <2>5 DEF Leave
  <2> QED BY <2>3, <2>6, <2>7, <2>8, <2>9, <2>10
<1>4. ASSUME UNCHANGED mutexVars PROVE MutexInv'
    BY <1>4 DEF mutexVars
<1> QED BY <1>1, <1>2, <1>3, <1>4 DEF MutexNext

(* Without its fairness: the invariant always holds, and every step is one   *)
(* of the first-come first-served lock or changes nothing the lock knows of. *)
LEMMA MutexSteps ==
    MutexInit /\ [][MutexNext]_mutexVars => []MutexInv /\ StepsOfFifoLock
<1>1. MutexInit => MutexInv /\ Lock!Init
    BY InitMutexInv DEF MutexInit, Lock!Init
<1>2. MutexInv /\ [MutexNext]_mutexVars => MutexInv'
    BY NextMutexInv
<1>3. MutexInv /\ [MutexNext]_mutexVars => [Lock!Next]_Lock!vars
  <2> SUFFICES ASSUME MutexInv, [MutexNext]_mutexVars PROVE [Lock!Next]_Lock!vars
      OBVIOUS
  <2> USE DEF MutexInv, MutexTypeOK, ChainSpellsOrder, OneCycleAtATime, Pending
  <2>1. ASSUME NEW p \in Callers, Enter(p) PROVE Lock!Call(p)
      BY <2>1 DEF Enter, Lock!Call
  <2>2. ASSUME NEW p \in Callers, Begin(p) PROVE Lock!Serve(p)
      BY <2>2 DEF Begin, Lock!Serve
  <2>3. ASSUME NEW p \in Callers, Leave(p) PROVE Lock!Return(p)
      BY <2>3, InsideIsFirst DEF Leave, Lock!Return
  <2>4. ASSUME UNCHANGED mutexVars PROVE UNCHANGED Lock!vars
      BY <2>4 DEF mutexVars, Lock!vars
  <2> QED BY <2>1, <2>2, <2>3, <2>4 DEF MutexNext, Lock!Next
<1> QED BY <1>1, <1>2, <1>3, PTL DEF StepsOfFifoLock

(* Whatever the number of callers, two sync cycles of one process never run  *)
(* their read/merge/write windows at the same time.                          *)
THEOREM MutexCorrect == MutexSpec => []MutexInv
BY MutexSteps, PTL DEF MutexSpec

(* Every step of the promise chain is a step of the first-come first-served  *)
(* lock, or changes nothing the lock knows of.                               *)
THEOREM RefinesFifoLock == MutexSpec => StepsOfFifoLock
BY MutexSteps, PTL DEF MutexSpec

-----------------------------------------------------------------------------
(* The orchestrator. *)

USE CyclesAssumption, ArgsAssumption, DelaysAssumption

(* The larger of two delays is a delay and bounds both. *)
LEMMA LargerBounds ==
    ASSUME NEW a \in Nat, NEW b \in Nat
    PROVE  Larger(a, b) \in Nat /\ a <= Larger(a, b) /\ b <= Larger(a, b)
BY DEF Larger

(* arg ?? default of two optional arguments is an optional argument. *)
LEMMA OrElseType ==
    ASSUME NEW a \in OptArgs, NEW b \in OptArgs
    PROVE  OrElse(a, b) \in OptArgs
BY DEF OrElse

(* A fresh cycle, however it is started, re-establishes the invariant: it    *)
(* cancels the timer, empties the queue and owes no delay.                   *)
LEMMA StartCycleInv ==
    ASSUME OrchestratorInv, NEW c \in Cycles, NEW arg \in OptArgs,
           StartCycle(c, arg), minimumDelay' \in Nat
    PROVE  OrchestratorInv'
<1>1. TypeOK'
    BY DEF OrchestratorInv, TypeOK, StartCycle, OptArgs
<1>2. cycleState'[inFlight'] = "running" /\ followUpTimer' = {} /\ mandated' = 0
    BY DEF OrchestratorInv, TypeOK, StartCycle
<1> QED BY <1>1, <1>2 DEF OrchestratorInv, TimerImpliesWaiting, InFlightIsLive, MandatedCovered

(* In the initial state nothing is in flight, queued or held back. *)
LEMMA InitInv == Init => OrchestratorInv
<1> SUFFICES ASSUME Init PROVE OrchestratorInv
    OBVIOUS
<1>1. TypeOK
    BY DEF Init, TypeOK, OptArgs
<1>2. inFlight = NoCycle /\ followUpTimer = {} /\ mandated = 0
    BY DEF Init
<1> QED BY <1>1, <1>2 DEF OrchestratorInv, TimerImpliesWaiting, InFlightIsLive, MandatedCovered

(* Every operation and callback of the orchestrator preserves the invariant. *)
LEMMA NextInv == OrchestratorInv /\ [Next]_vars => OrchestratorInv'
<1> SUFFICES ASSUME OrchestratorInv, [Next]_vars PROVE OrchestratorInv'
    OBVIOUS
<1> USE DEF OrchestratorInv, TypeOK, TimerImpliesWaiting, InFlightIsLive, MandatedCovered
<1>1. ASSUME NEW arg \in OptArgs, RunJoins(arg) PROVE OrchestratorInv'
    BY <1>1, OrElseType DEF RunJoins, QueueFollowUp
<1>2. ASSUME NEW c \in Cycles, NEW arg \in OptArgs, RunStarts(c, arg)
      PROVE OrchestratorInv'
    BY <1>2, StartCycleInv DEF RunStarts
<1>3. ASSUME NEW c \in Cycles, NEW arg \in OptArgs, CycleRequestsFollowUp(c, arg)
      PROVE OrchestratorInv'
    BY <1>3, OrElseType DEF CycleRequestsFollowUp, QueueFollowUp
<1>4. ASSUME NEW c \in Cycles, NEW delay \in RequestDelays, NEW arg \in OptArgs,
             CycleRequestsFollowUpAfter(c, delay, arg)
      PROVE OrchestratorInv'
  <2>1. OrElse(OrElse(arg, cycleArg[c]), queuedArg) \in OptArgs
      BY OrElseType
  <2>2. delay \in Nat /\ minimumDelay' \in Nat /\ minimumDelay <= minimumDelay'
        /\ delay <= minimumDelay'
      BY <1>4, LargerBounds DEF CycleRequestsFollowUpAfter
  <2>3. mandated' \in Nat /\ (inFlight = c => mandated' <= minimumDelay')
        /\ (inFlight # c => mandated' = mandated)
      BY <1>4, <2>2 DEF CycleRequestsFollowUpAfter, Larger
  <2> QED BY <1>4, <2>1, <2>2, <2>3 DEF CycleRequestsFollowUpAfter, QueueFollowUp
<1>5. ASSUME ClearFollowUp PROVE OrchestratorInv'
  <2>1. TypeOK'
      BY <1>5 DEF ClearFollowUp, OptArgs
  <2>2. followUpTimer' = {} /\ mandated' = 0
      BY <1>5 DEF ClearFollowUp
  <2> QED BY <1>5, <2>1, <2>2 DEF ClearFollowUp
<1>6. ASSUME Reset PROVE OrchestratorInv'
  <2>1. TypeOK'
      BY <1>6 DEF Reset, OptArgs
  <2>2. followUpTimer' = {} /\ mandated' = 0
      BY <1>6 DEF Reset
  <2> QED BY <1>6, <2>1, <2>2 DEF Reset
<1>7. ASSUME NEW c \in Cycles, Settle(c) PROVE OrchestratorInv'
    BY <1>7 DEF Settle
<1>8. ASSUME NEW c \in Cycles, Finally(c) PROVE OrchestratorInv'
  <2>1. ASSUME FinallyOrphan(c) PROVE OrchestratorInv'
      BY <2>1 DEF FinallyOrphan, Retire
  <2>2. ASSUME FinallyDrained(c) PROVE OrchestratorInv'
      BY <2>2 DEF FinallyDrained, Retire
  <2>3. ASSUME NEW pacing \in PacingDelays, FinallyArmsTimer(c, pacing)
        PROVE OrchestratorInv'
    <3> DEFINE left == Larger(pacing, minimumDelay)
    <3>1. left \in Nat /\ minimumDelay <= left
        BY LargerBounds
    <3> HIDE DEF left
    <3>2. followUpTimer' = {[left |-> left, arg |-> cycleArg[c]]}
        BY <2>3 DEF FinallyArmsTimer, left
    <3>3. TypeOK'
      <4>1. [left |-> left, arg |-> cycleArg[c]] \in [left : Nat, arg : OptArgs]
          BY <3>1
      <4>2. followUpTimer' \subseteq [left : Nat, arg : OptArgs]
            /\ \A s, t \in followUpTimer' : s = t
          BY <3>2, <4>1
      <4> QED BY <2>3, <4>2 DEF FinallyArmsTimer, Retire
    <3>4. MandatedCovered'
      <4>1. \A t \in followUpTimer' : t.left = left
          BY <3>2
      <4>2. mandated' = mandated /\ mandated <= minimumDelay /\ queued' /\ inFlight' = NoCycle
          BY <2>3 DEF FinallyArmsTimer
      <4>3. followUpTimer' # {}
          BY <3>2
      <4> QED BY <3>1, <4>1, <4>2, <4>3
    <3> QED BY <2>3, <3>3, <3>4 DEF FinallyArmsTimer
  <2>4. ASSUME NEW pacing \in PacingDelays, FinallyStartsQueued(c, pacing)
        PROVE OrchestratorInv'
      BY <2>4, OrElseType, StartCycleInv DEF FinallyStartsQueued
  <2> QED BY <1>8, <2>1, <2>2, <2>3, <2>4 DEF Finally
<1>9. ASSUME NEW c \in Cycles, TimerFires(c) PROVE OrchestratorInv'
  <2>1. PICK t \in followUpTimer :
            /\ cycleState[c] = "free"
            /\ StartCycle(c, OrElse(queuedArg, t.arg))
            /\ UNCHANGED minimumDelay
      BY <1>9 DEF TimerFires
  <2> QED BY <2>1, OrElseType, StartCycleInv
<1>10. ASSUME Tick PROVE OrchestratorInv'
  <2>1. PICK t \in followUpTimer :
            t.left > 0 /\ followUpTimer' = {[t EXCEPT !.left = @ - 1]}
      BY <1>10 DEF Tick
  <2> QED BY <1>10, <2>1 DEF Tick
<1>11. ASSUME UNCHANGED vars PROVE OrchestratorInv'
    BY <1>11 DEF vars
<1> QED BY <1>1, <1>2, <1>3, <1>4, <1>5, <1>6, <1>7, <1>8, <1>9, <1>10, <1>11 DEF Next

(* Without its fairness: the invariant always holds, and a queued follow-up  *)
(* only starts when the requested delay is over.                             *)
LEMMA OrchestratorSteps ==
    Init /\ [][Next]_vars => []OrchestratorInv /\ MandatedDelayKept
<1>1. Init => OrchestratorInv
    BY InitInv
<1>2. OrchestratorInv /\ [Next]_vars => OrchestratorInv'
    BY NextInv
<1>3. OrchestratorInv /\ [Next]_vars => [QueuedStart => mandated = 0]_vars
  <2> SUFFICES ASSUME OrchestratorInv, QueuedStart PROVE mandated = 0
      OBVIOUS
  <2> USE DEF OrchestratorInv, TypeOK, MandatedCovered
  <2>1. PICK c \in Cycles :
            TimerFires(c) \/ \E pacing \in PacingDelays : FinallyStartsQueued(c, pacing)
      BY DEF QueuedStart
  <2>2. CASE TimerFires(c)
      BY <2>2 DEF TimerFires
  <2>3. ASSUME NEW pacing \in PacingDelays, FinallyStartsQueued(c, pacing)
        PROVE mandated = 0
    <3>1. minimumDelay <= 0
        BY <2>3, LargerBounds DEF FinallyStartsQueued
    <3> QED BY <2>3, <3>1 DEF FinallyStartsQueued
  <2> QED BY <2>1, <2>2, <2>3
<1> QED BY <1>1, <1>2, <1>3, PTL DEF MandatedDelayKept

(* Every reachable state of the orchestrator is well typed, arms a timer     *)
(* only for a waiting follow-up, tracks only a live cycle, and carries the   *)
(* requested delay forward.                                                  *)
THEOREM OrchestratorCorrect == Spec => []OrchestratorInv
BY OrchestratorSteps, PTL DEF Spec

(* A queued follow-up never starts before the delay the finished cycle asked *)
(* for has run out.                                                          *)
THEOREM DelayKept == Spec => MandatedDelayKept
BY OrchestratorSteps, PTL DEF Spec

-----------------------------------------------------------------------------
(* The two together.                                                         *)

(* A step of the composed system is a step of each part, or leaves it alone. *)
LEMMA CyclesStep ==
    ASSUME [CyclesNext]_allVars
    PROVE  [Next]_vars /\ [MutexNext]_mutexVars
<1>1. CASE Orchestrate /\ UNCHANGED <<mutexVars, merged>>
  <2>1. Next
      BY <1>1 DEF Orchestrate, Next
  <2> QED BY <1>1, <2>1
<1>2. ASSUME NEW c \in Cycles, PerformSyncCycle(c)
      PROVE  [Next]_vars /\ [MutexNext]_mutexVars
    BY <1>2, CallersAssumption DEF PerformSyncCycle, MutexNext
<1>3. ASSUME NEW c \in Cycles, RunEnds(c)
      PROVE  [Next]_vars /\ [MutexNext]_mutexVars
    BY <1>3 DEF RunEnds, Next
<1>4. ASSUME NEW c \in Cycles, (Begin(c) \/ Leave(c)) /\ UNCHANGED <<vars, merged>>
      PROVE  [Next]_vars /\ [MutexNext]_mutexVars
    BY <1>4, CallersAssumption DEF MutexNext
<1>5. CASE UNCHANGED allVars
    BY <1>5 DEF allVars
<1> QED BY <1>1, <1>2, <1>3, <1>4, <1>5 DEF CyclesNext

(* The cycles of the orchestrator that go through the mutex, also after a    *)
(* reset() has made it forget one that still runs: both invariants hold, the *)
(* requested delay is kept, and the chain still serves them as a lock.       *)
THEOREM CyclesCorrect ==
    CyclesSpec => [](OrchestratorInv /\ MutexInv) /\ MandatedDelayKept /\ StepsOfFifoLock
<1>1. CyclesInit => Init /\ MutexInit
    BY DEF CyclesInit
<1>2. [CyclesNext]_allVars => [Next]_vars /\ [MutexNext]_mutexVars
    BY CyclesStep
<1>3. CyclesSpec => Init /\ [][Next]_vars /\ MutexInit /\ [][MutexNext]_mutexVars
    BY <1>1, <1>2, PTL DEF CyclesSpec
<1> QED BY <1>3, OrchestratorSteps, MutexSteps, PTL

-----------------------------------------------------------------------------
(* The fence. *)

USE FenceTiming, FenceLeases

(* Deadlines are times, and never later than the expiry. *)
LEMMA DeadlineType ==
    ASSUME NEW rec \in Records
    PROVE  /\ AbandonmentDeadline(rec) \in Nat
           /\ SafeDeadline(rec) \in Nat
           /\ SafeDeadline(rec) <= rec.expiresAt
           /\ rec.heartbeat > 0 => SafeDeadline(rec) <= AbandonmentDeadline(rec)
BY DEF Records, SafeDeadline, AbandonmentDeadline, AbandonedAfterMissedHeartbeats

(* A record that a waiter may take over has no authority left. *)
LEMMA LapsedHasNoAuthority ==
    ASSUME NEW rec \in Records, NEW t \in Nat, Lapsed(rec, t)
    PROVE  SafeDeadline(rec) <= t
BY DeadlineType DEF Lapsed, AbandonedRecord, Records

(* A renewal read later, with a heartbeat no shorter, never truncates the    *)
(* authority the record had.                                                 *)
LEMMA RenewalExtends ==
    ASSUME NEW old \in Records, NEW new \in Records,
           old.expiresAt = old.renewedAt + TTL, new.expiresAt = new.renewedAt + TTL,
           old.renewedAt <= new.renewedAt, old.heartbeat <= new.heartbeat,
           old.heartbeat = 0 <=> new.heartbeat = 0
    PROVE  SafeDeadline(new) >= SafeDeadline(old)
BY DEF Records, SafeDeadline, AbandonmentDeadline, AbandonedAfterMissedHeartbeats

-----------------------------------------------------------------------------
(* How a step may change what the conformity of records is judged by. *)
Advance ==
    \A d \in Clients :
        \/ lease'[d] = lease[d]
           /\ (pc'[d] = "idle" \/ (pc[d] # "idle" /\ advertised[d] <= advertised'[d]))
        \/ lease'[d][2] > lease[d][2]

(* A conforming record stays one as clients go on and time passes. *)
LEMMA ConformingKept ==
    ASSUME FenceTypeOK, FenceTypeOK', Advance, NEW rec \in Records, NEW t \in Nat, NEW u \in Nat, t <= u,
           Conforming(rec, t)
    PROVE  Conforming(rec, u)'
<1> SUFFICES ASSUME rec.lease \in Leases
             PROVE  /\ rec.lease[2] <= lease'[rec.lease[1]][2]
                    /\ rec.expiresAt = rec.renewedAt + TTL
                    /\ rec.renewedAt <= u
                    /\ rec.heartbeat = 0 <=> Heartbeat[rec.lease[1]] = 0
                    /\ lease'[rec.lease[1]] = rec.lease /\ pc'[rec.lease[1]] # "idle" =>
                          rec.heartbeat <= advertised'[rec.lease[1]]
    BY DEF Conforming
<1> DEFINE d == rec.lease[1]
<1>1. d \in Clients /\ rec.lease[2] \in Nat /\ lease[d] \in Leases /\ lease'[d] \in Leases
    BY DEF Leases, FenceTypeOK
<1>2. lease[d][2] \in Nat /\ lease'[d][2] \in Nat
    BY <1>1 DEF Leases
<1>3. advertised[d] \in Nat /\ advertised'[d] \in Nat /\ rec.heartbeat \in Nat /\ rec.renewedAt \in Nat
    BY <1>1 DEF FenceTypeOK, Records
<1>4. /\ rec.lease[2] <= lease[d][2]
      /\ rec.expiresAt = rec.renewedAt + TTL
      /\ rec.renewedAt <= t
      /\ rec.heartbeat = 0 <=> Heartbeat[d] = 0
      /\ lease[d] = rec.lease /\ pc[d] # "idle" => rec.heartbeat <= advertised[d]
    BY DEF Conforming
<1>5. CASE lease'[d] = lease[d]
           /\ (pc'[d] = "idle" \/ (pc[d] # "idle" /\ advertised[d] <= advertised'[d]))
    BY <1>2, <1>3, <1>4, <1>5
<1>6. CASE lease'[d][2] > lease[d][2]
    BY <1>1, <1>2, <1>3, <1>4, <1>6
<1> QED BY <1>1, <1>5, <1>6 DEF Advance

(* A step that leaves the file alone leaves every assurance alone. *)
LEMMA SecuredKept ==
    ASSUME NEW l, NEW d, Secured(l, d), UNCHANGED <<now, file>>
    PROVE  Secured(l, d)'
BY DEF Secured

-----------------------------------------------------------------------------
(* A step of client c alone: the server and the other clients stand still,   *)
(* and c goes back on no lease it has given up.                              *)
ClientFrame(c) ==
    /\ UNCHANGED <<now, file, version, lastVersion>>
    /\ \A d \in Clients \ {c} :
          /\ pc'[d] = pc[d] /\ lease'[d] = lease[d] /\ advertised'[d] = advertised[d]
          /\ sentAt'[d] = sentAt[d] /\ snap'[d] = snap[d] /\ mutation'[d] = mutation[d]
    /\ \/ /\ lease'[c] = lease[c]
          /\ pc'[c] = "idle" \/ (pc[c] # "idle" /\ advertised[c] <= advertised'[c])
          /\ pc[c] \in {"idle", "relRemove"} => pc'[c] \in {"idle", "relRemove"}
       \/ lease'[c][2] > lease[c][2]
    /\ \/ mutation'[c] = mutation[c]
       \/ mutation'[c] = NoMutation
       \/ /\ mutation'[c].lease = lease[c]
          /\ pc[c] \notin {"idle", "relRemove"}

(* Such a step preserves the invariant if it does so for c's own snapshot    *)
(* and mutation and for the requests it adds.                                *)
LEMMA ClientFrameInv ==
    ASSUME FenceInv, FenceTypeOK', NEW c \in Clients, ClientFrame(c),
           AdvertisedInv(c)', SnapInv(c)', MutationInv(c)',
           \A r \in network' : r \in network \/ RequestInv(r)'
    PROVE  FenceInv'
<1> USE DEF FenceInv
<1>1. Advance
    BY DEF Advance, ClientFrame, FenceTypeOK
<1>2. UNCHANGED <<now, file, version, lastVersion>>
    BY DEF ClientFrame
<1>3. now \in Nat /\ file \in Records /\ lastVersion \in Nat /\ version \in Nat
    BY DEF FenceTypeOK
<1>4. FileInv'
  <2>1. Conforming(file, now)'
      BY <1>1, <1>2, <1>3, ConformingKept DEF FileInv, Conforming
  <2> QED BY <1>2, <2>1 DEF FileInv
<1>5. ASSUME NEW d \in Clients, d # c
      PROVE AdvertisedInv(d)' /\ SnapInv(d)' /\ MutationInv(d)'
  <2>1. /\ pc'[d] = pc[d] /\ lease'[d] = lease[d] /\ sentAt'[d] = sentAt[d]
        /\ advertised'[d] = advertised[d]
        /\ snap'[d] = snap[d] /\ mutation'[d] = mutation[d]
      BY <1>5 DEF ClientFrame
  <2>2. snap[d].rec \in Records /\ snap[d].serverNow \in Nat
      BY DEF FenceTypeOK
  <2>3. SnapInv(d)
      OBVIOUS
  <2>4. snap[d].ready => Conforming(snap[d].rec, snap[d].serverNow)'
    <3>1. \A rec \in Records, t \in Nat : Conforming(rec, t) => Conforming(rec, t)'
        BY <1>1, ConformingKept
    <3>2. snap[d].ready => Conforming(snap[d].rec, snap[d].serverNow)
        BY <2>3 DEF SnapInv
    <3> QED BY <2>1, <2>2, <3>1, <3>2 DEF Conforming
  <2>5. SnapInv(d)'
      BY <1>2, <2>1, <2>3, <2>4 DEF SnapInv, Secured
  <2>6. MutationInv(d)
      OBVIOUS
  <2>7. MutationInv(d)'
      BY <1>2, <2>1, <2>6 DEF MutationInv, Secured
  <2>8. AdvertisedInv(d)'
      BY <2>1 DEF AdvertisedInv
  <2> QED BY <2>5, <2>7, <2>8
<1>6. ASSUME NEW r \in network PROVE RequestInv(r)'
  <2> DEFINE d == r.lease[1]
  <2>1. RequestInv(r) /\ r \in Requests /\ r.rec \in Records
      BY DEF FenceTypeOK, Requests
  <2>2. d \in Clients /\ r.lease \in Leases /\ r.lease[2] \in Nat
        /\ lease[d] \in Leases /\ lease'[d] \in Leases
        /\ lease[d][2] \in Nat /\ lease'[d][2] \in Nat
      BY <2>1 DEF RequestInv, FenceTypeOK, Leases
  <2>3. lease'[d] = lease[d] \/ lease'[d][2] > lease[d][2]
      BY <2>2 DEF ClientFrame
  <2>4. r.lease[2] <= lease'[d][2]
      BY <2>1, <2>2, <2>3 DEF RequestInv
  <2>5. WriteInv(r)'
    <3>1. r.kind = "write" => Conforming(r.rec, now)'
      <4>1. \A rec \in Records, t \in Nat : Conforming(rec, t) => Conforming(rec, t)'
          BY <1>1, ConformingKept
      <4>2. r.kind = "write" => Conforming(r.rec, now)
          BY <2>1 DEF RequestInv, WriteInv
      <4> QED BY <1>2, <1>3, <2>1, <4>1, <4>2 DEF Conforming
    <3> QED BY <1>2, <2>1, <3>1 DEF RequestInv, WriteInv, Lapsed
  <2>6. RemoveInv(r)'
    <3> SUFFICES ASSUME r.kind = "remove" PROVE RemoveInv(r)'
        BY DEF RemoveInv
    <3>1. /\ r.expected # 0
          /\ r.expected = version => file.lease = r.lease
          /\ lease[d] = r.lease => pc[d] \in {"idle", "relRemove"}
          /\ ~(mutation[d].open /\ mutation[d].lease = r.lease)
        BY <2>1 DEF RequestInv, RemoveInv
    <3>2. CASE d # c
        BY <1>2, <2>2, <3>1, <3>2 DEF ClientFrame, RemoveInv
    <3>3. CASE d = c
      <4>1. lease'[c] = r.lease => lease[c] = r.lease /\ pc'[c] \in {"idle", "relRemove"}
          BY <2>1, <2>2, <3>1, <3>3 DEF ClientFrame, RequestInv
      <4>2. ~(mutation'[c].open /\ mutation'[c].lease = r.lease)
          BY <3>1, <3>3 DEF ClientFrame, NoMutation
      <4> QED BY <1>2, <3>1, <3>3, <4>1, <4>2 DEF RemoveInv
    <3> QED BY <3>2, <3>3
  <2> QED BY <1>2, <2>1, <2>4, <2>5, <2>6 DEF RequestInv
<1> QED BY <1>4, <1>5, <1>6

(* Neither the clients nor the file change; a request may be gone. *)
LEMMA NothingMovesInv ==
    ASSUME FenceInv, FenceTypeOK', network' \subseteq network,
           UNCHANGED <<now, pc, lease, advertised, sentAt, snap, mutation>>,
           UNCHANGED serverVars
    PROVE  FenceInv'
<1> USE DEF serverVars
<1>1. /\ FileInv
      /\ \A c \in Clients : AdvertisedInv(c) /\ SnapInv(c) /\ MutationInv(c)
      /\ \A r \in network : RequestInv(r)
    BY DEF FenceInv
<1>2. FileInv'
    BY <1>1 DEF FileInv, Conforming
<1>3. ASSUME NEW c \in Clients PROVE AdvertisedInv(c)' /\ SnapInv(c)' /\ MutationInv(c)'
  <2>1. AdvertisedInv(c)'
      BY <1>1 DEF AdvertisedInv
  <2>2. SnapInv(c)'
      BY <1>1 DEF SnapInv, Conforming, Secured
  <2>3. MutationInv(c)'
      BY <1>1 DEF MutationInv, Secured
  <2> QED BY <2>1, <2>2, <2>3
<1>4. ASSUME NEW r \in network' PROVE RequestInv(r)'
  <2>1. RequestInv(r)
      BY <1>1
  <2>2. WriteInv(r)'
      BY <2>1 DEF RequestInv, WriteInv, Conforming, Lapsed
  <2>3. RemoveInv(r)'
      BY <2>1 DEF RequestInv, RemoveInv
  <2> QED BY <2>1, <2>2, <2>3 DEF RequestInv
<1> QED BY <1>2, <1>3, <1>4 DEF FenceInv

-----------------------------------------------------------------------------
(* Giving up: nothing of the client is relied on, its mutation stays covered. *)
LEMMA QuitInv ==
    ASSUME FenceInv, NEW c \in Clients, Quit(c)
    PROVE  FenceInv'
<1> USE DEF FenceInv
<1>1. FenceTypeOK'
    BY DEF FenceTypeOK, Quit, serverVars, NoSnap, NoRequest, Absent, Records, Requests, Places
<1>2. ClientFrame(c)
    BY DEF FenceTypeOK, Quit, serverVars, ClientFrame
<1>3. SnapInv(c)'
    BY DEF FenceTypeOK, Quit, serverVars, SnapInv, NoSnap
<1>4. MutationInv(c)'
  <2>1. MutationInv(c)
      OBVIOUS
  <2> QED BY <2>1 DEF FenceTypeOK, Quit, serverVars, MutationInv, Secured
<1>5. network' = network
    BY DEF Quit
<1>6. AdvertisedInv(c)'
    BY DEF FenceTypeOK, Quit, AdvertisedInv
<1> QED BY <1>1, <1>2, <1>3, <1>4, <1>5, <1>6, ClientFrameInv

(* An operation on a held lease ends, without a mutation or with one that    *)
(* the fence covers until it can no longer land.                             *)
LEMMA RestInv ==
    ASSUME FenceInv, NEW c \in Clients, Rest(c),
           pc[c] \notin {"idle", "relRead", "relRemove"},
           lost' \in [Clients -> BOOLEAN],
           \/ UNCHANGED mutation
           \/ SendMutation(c) /\ Secured(lease[c], now + RequestTimeout + 1)
    PROVE  FenceInv'
<1> USE DEF FenceInv
<1>1. FenceTypeOK'
  <2>1. now + RequestTimeout \in Nat
      BY DEF FenceTypeOK
  <2>2. mutation' \in [Clients -> [open : BOOLEAN, lease : Leases \cup {NoLease}, until : Nat]]
    <3>1. CASE UNCHANGED mutation
        BY <3>1 DEF FenceTypeOK
    <3>2. CASE SendMutation(c)
      <4>1. [open |-> TRUE, lease |-> lease[c], until |-> now + RequestTimeout]
               \in [open : BOOLEAN, lease : Leases \cup {NoLease}, until : Nat]
          BY <2>1 DEF FenceTypeOK
      <4> QED BY <3>2, <4>1 DEF FenceTypeOK, SendMutation
    <3> QED BY <3>1, <3>2
  <2> QED BY <2>2 DEF FenceTypeOK, Rest, serverVars, NoSnap, NoRequest, Absent, Records, Requests, Places
<1>2. ClientFrame(c)
    BY DEF FenceTypeOK, Rest, serverVars, ClientFrame, SendMutation
<1>3. SnapInv(c)'
    BY DEF FenceTypeOK, Rest, serverVars, SnapInv, NoSnap
<1>4. MutationInv(c)'
  <2>1. pc'[c] = "held" /\ lease' = lease /\ now' = now /\ file' = file
      BY DEF FenceTypeOK, Rest, serverVars
  <2>2. CASE UNCHANGED mutation
    <3>1. MutationInv(c)
        OBVIOUS
    <3> QED BY <2>1, <2>2, <3>1 DEF MutationInv, Secured
  <2>3. CASE SendMutation(c) /\ Secured(lease[c], now + RequestTimeout + 1)
    <3>1. mutation'[c] = [open |-> TRUE, lease |-> lease[c], until |-> now + RequestTimeout]
        BY <2>3 DEF FenceTypeOK, SendMutation
    <3>2. lease[c] \in Leases /\ lease[c][1] = c /\ lease[c][2] \in Nat /\ now \in Nat
        BY DEF FenceTypeOK, Leases
    <3> QED BY <2>1, <2>3, <3>1, <3>2 DEF MutationInv, Secured
  <2> QED BY <2>2, <2>3
<1>5. network' = network
    BY DEF Rest
<1>6. AdvertisedInv(c)'
    BY DEF FenceTypeOK, Rest, AdvertisedInv
<1> QED BY <1>1, <1>2, <1>3, <1>4, <1>5, <1>6, ClientFrameInv

(* Sending a read discards the previous snapshot. *)
LEMMA SendReadInv ==
    ASSUME FenceInv, NEW c \in Clients, NEW place \in Reading, SendRead(c, place),
           UNCHANGED <<lost, mutation>>,
           attempt' \in [Clients -> Nat], advertised' \in [Clients -> Nat],
           lease' \in [Clients -> Leases], \A d \in Clients : lease'[d][1] = d,
           \A d \in Clients \ {c} : lease'[d] = lease[d] /\ advertised'[d] = advertised[d],
           \/ lease'[c][2] > lease[c][2]
           \/ /\ lease'[c] = lease[c] /\ pc[c] \notin {"idle", "relRemove"}
              /\ advertised[c] <= advertised'[c],
           place = "relRead" => ~mutation[c].open,
           AdvertisedInv(c)'
    PROVE  FenceInv'
<1> USE DEF FenceInv
<1>1. FenceTypeOK'
    BY DEF FenceTypeOK, SendRead, serverVars, NoSnap, NoRequest, Absent, Records, Requests, Places
<1>2. ClientFrame(c)
    BY DEF FenceTypeOK, SendRead, serverVars, ClientFrame
<1>3. SnapInv(c)'
    BY DEF FenceTypeOK, SendRead, serverVars, SnapInv, NoSnap
<1>4. MutationInv(c)'
  <2>1. MutationInv(c) /\ pc'[c] = place /\ place # "relRemove"
      BY DEF FenceTypeOK, SendRead, Reading
  <2>2. lease[c][2] \in Nat /\ lease'[c][2] \in Nat /\ lease[c][2] <= lease'[c][2]
      BY DEF FenceTypeOK, Leases
  <2>3. mutation[c].open => mutation[c].lease[2] \in Nat
      BY <2>1 DEF MutationInv, Leases
  <2> QED BY <2>1, <2>2, <2>3 DEF SendRead, serverVars, MutationInv, Secured
<1>5. network' = network
    BY DEF SendRead
<1> QED BY <1>1, <1>2, <1>3, <1>4, <1>5, ClientFrameInv

(* The same when the client keeps its lease and what it advertises. *)
LEMMA OwnReadInv ==
    ASSUME FenceInv, NEW c \in Clients, NEW place \in Reading, SendRead(c, place),
           UNCHANGED <<lease, advertised, lost, mutation>>,
           attempt' \in [Clients -> Nat],
           pc[c] \notin {"idle", "relRemove"},
           place = "relRead" => ~mutation[c].open
    PROVE  FenceInv'
<1>1. /\ advertised \in [Clients -> Nat]
      /\ lease \in [Clients -> Leases] /\ \A d \in Clients : lease[d][1] = d
      /\ AdvertisedInv(c)
    BY DEF FenceInv, FenceTypeOK
<1>2. /\ advertised' \in [Clients -> Nat]
      /\ lease' \in [Clients -> Leases] /\ \A d \in Clients : lease'[d][1] = d
    BY <1>1
<1>3. AdvertisedInv(c)'
    BY <1>1 DEF AdvertisedInv
<1>4. \A d \in Clients \ {c} : lease'[d] = lease[d] /\ advertised'[d] = advertised[d]
    OBVIOUS
<1>5. lease'[c] = lease[c] /\ advertised[c] <= advertised'[c]
    BY <1>1
<1>6. UNCHANGED <<lost, mutation>>
    OBVIOUS
<1> QED BY <1>2, <1>3, <1>4, <1>5, <1>6, SendReadInv

(* The server answers a read with the file as it is. *)
LEMMA ServeReadInv ==
    ASSUME FenceInv, NEW c \in Clients, ServeRead(c)
    PROVE  FenceInv'
<1> USE DEF FenceInv
<1>1. FenceTypeOK'
    BY DEF FenceTypeOK, ServeRead, serverVars
<1>2. ClientFrame(c)
    BY DEF FenceTypeOK, ServeRead, serverVars, ClientFrame, Reading
<1>3. SnapInv(c)'
  <2>1. /\ pc[c] \in Reading
        /\ UNCHANGED <<now, file, version, lastVersion, pc, lease, advertised, sentAt>>
        /\ snap'[c] = [ready |-> TRUE, rec |-> file, version |-> version, serverNow |-> now]
      BY DEF FenceTypeOK, ServeRead, serverVars
  <2>2. SafeDeadline(file) \in Nat /\ now \in Nat
      BY DeadlineType DEF FenceTypeOK
  <2>3. FileInv /\ sentAt[c] <= now /\ lease[c] # NoLease
      BY FenceLeases DEF SnapInv, FenceTypeOK
  <2>4. Conforming(file, now)'
      BY <2>1, <2>3 DEF FileInv, Conforming
  <2>5. file.lease = lease[c] => Secured(lease[c], SafeDeadline(file))
      BY <2>2 DEF Secured
  <2> QED BY <2>1, <2>2, <2>3, <2>4, <2>5 DEF SnapInv, FileInv, Conforming, Secured
<1>4. MutationInv(c)'
  <2>1. MutationInv(c)
      OBVIOUS
  <2> QED BY <2>1 DEF ServeRead, serverVars, MutationInv, Secured
<1>5. network' = network
    BY DEF ServeRead
<1>6. AdvertisedInv(c)'
    BY DEF FenceTypeOK, ServeRead, AdvertisedInv
<1> QED BY <1>1, <1>2, <1>3, <1>4, <1>5, <1>6, ClientFrameInv

-----------------------------------------------------------------------------
(* Sending a conditional request is safe if the request r itself is. *)
LEMMA SendRequestInv ==
    ASSUME FenceInv, NEW c \in Clients, NEW place \in Requesting,
           NEW kind \in {"write", "remove"}, NEW rec \in Records,
           SendRequest(c, place, kind, rec),
           pc[c] \notin {"idle", "relRemove"},
           place = "relRemove" => ~mutation[c].open,
           NEW r \in Requests,
           r = [kind |-> kind, lease |-> lease[c], expected |-> snap[c].version, rec |-> rec],
           RequestInv(r)'
    PROVE  FenceInv'
<1> USE DEF FenceInv
<1>1. FenceTypeOK'
    BY DEF FenceTypeOK, SendRequest, serverVars, NoSnap, NoRequest, Absent, Records, Places
<1>2. ClientFrame(c)
    BY DEF FenceTypeOK, SendRequest, serverVars, ClientFrame, Requesting
<1>3. SnapInv(c)'
    BY DEF FenceTypeOK, SendRequest, serverVars, SnapInv, NoSnap
<1>4. MutationInv(c)'
  <2>1. MutationInv(c) /\ pc'[c] = place /\ place # "relRead"
      BY DEF FenceTypeOK, SendRequest, Requesting
  <2> QED BY <2>1 DEF SendRequest, serverVars, MutationInv, Secured
<1>5. network' = network \cup {r}
    BY DEF SendRequest
<1>6. AdvertisedInv(c)'
    BY DEF FenceTypeOK, SendRequest, AdvertisedInv
<1> QED BY <1>1, <1>2, <1>3, <1>4, <1>5, <1>6, ClientFrameInv

(* The record a client writes for its current lease conforms. *)
LEMMA LeaseRecordConforms ==
    ASSUME FenceInv, NEW c \in Clients, NEW t \in Nat, t <= now, NEW rec,
           rec = LeaseRecord(c, t)
    PROVE  rec \in Records /\ rec.lease = lease[c] /\ Conforming(rec, t)
BY DEF FenceInv, FenceTypeOK, LeaseRecord, Records, Conforming, Leases, AdvertisedInv

(* acquire: the record it may write over is absent, foreign or lapsed. *)
LEMMA AcquireWriteInv ==
    ASSUME FenceInv, NEW c \in Clients, AcquireWrite(c)
    PROVE  FenceInv'
<1> USE DEF FenceInv
<1> DEFINE t == snap[c].serverNow
           old == snap[c].rec
<1>1. /\ pc[c] = "acqRead" /\ snap[c].ready /\ SnapInv(c)
      /\ ~Busy(old, t)
      /\ SendRequest(c, "acqWrite", "write", LeaseRecord(c, t))
    BY DEF AcquireWrite
<1>2. t \in Nat /\ t <= now /\ now \in Nat /\ old \in Records /\ file \in Records
    BY <1>1 DEF FenceTypeOK, SnapInv
<1>3. PICK rec : rec = LeaseRecord(c, t)
    OBVIOUS
<1>4. rec \in Records /\ rec.lease = lease[c] /\ Conforming(rec, t)
    BY <1>2, <1>3, LeaseRecordConforms
<1>5. PICK r : r = [kind |-> "write", lease |-> lease[c], expected |-> snap[c].version, rec |-> rec]
    OBVIOUS
<1>6. r \in Requests /\ r.rec = rec /\ r.kind = "write" /\ r.lease = lease[c]
      /\ r.expected = snap[c].version
    BY <1>4, <1>5 DEF FenceTypeOK, Requests
<1>7. snap[c].version = version /\ version # 0 => file.lease = Foreign \/ Lapsed(file, now)
  <2> SUFFICES ASSUME snap[c].version = version, version # 0, file.lease # Foreign
               PROVE  Lapsed(file, now)
      OBVIOUS
  <2>1. old = file /\ file.lease # NoLease
      BY <1>1 DEF SnapInv, FileInv
  <2>2. file.lease \in Leases
      BY <1>2, <2>1 DEF Records
  <2>3. file.expiresAt = file.renewedAt + TTL /\ file.renewedAt <= t
      BY <1>1, <2>1, <2>2 DEF SnapInv, Conforming
  <2>4. ~ImpossibleFutureExpiry(file, t)
      BY <1>2, <2>3 DEF ImpossibleFutureExpiry, Records
  <2>5. file.expiresAt <= t \/ AbandonedRecord(file, t)
      BY <1>1, <1>2, <2>1, <2>4 DEF Busy, Records
  <2>6. AbandonmentDeadline(file) \in Nat /\ file.expiresAt \in Nat
      BY <1>2, DeadlineType DEF Records
  <2> QED BY <1>2, <2>5, <2>6 DEF Lapsed, AbandonedRecord
<1>8. UNCHANGED <<now, serverVars, lease, advertised, mutation>> /\ pc'[c] = "acqWrite"
      /\ pc' = [pc EXCEPT ![c] = "acqWrite"]
    BY <1>1 DEF SendRequest, FenceTypeOK
<1>9. RequestInv(r)'
  <2>1. FenceTypeOK' /\ Advance
      BY <1>1, <1>6, <1>8, <1>3, <1>5 DEF FenceTypeOK, SendRequest, serverVars, NoSnap, NoRequest,
         Absent, Records, Places, Advance, Requesting
  <2>2. Conforming(rec, now)'
      BY <1>2, <1>4, <1>8, <2>1, ConformingKept DEF Conforming
  <2>3. WriteInv(r)'
      BY <1>4, <1>6, <1>7, <1>8, <2>2 DEF WriteInv, serverVars, Lapsed
  <2>4. lease[c] \in Leases /\ lease[c][1] = c /\ lease[c][2] \in Nat
      BY DEF FenceTypeOK, Leases
  <2> QED BY <1>1, <1>6, <1>8, <2>3, <2>4 DEF RequestInv, RemoveInv, serverVars, SnapInv
<1> QED BY <1>1, <1>3, <1>4, <1>5, <1>6, <1>9, SendRequestInv DEF Requesting

(* renewOwned: the record it writes over is its own, and it extends it. *)
LEMMA RenewWriteInv ==
    ASSUME FenceInv, NEW c \in Clients, RenewWrite(c)
    PROVE  FenceInv'
<1> USE DEF FenceInv
<1> DEFINE t == snap[c].serverNow
           old == snap[c].rec
<1>1. PICK place \in {"coverWrite", "renewWrite"} :
          /\ pc[c] \in {"coverRead", "renewRead"} /\ snap[c].ready /\ SnapInv(c)
          /\ OwnedSnapshot(c)
          /\ SendRequest(c, place, "write", LeaseRecord(c, t))
    BY DEF RenewWrite
<1>2. t \in Nat /\ t <= now /\ now \in Nat /\ old \in Records /\ file \in Records
    BY <1>1 DEF FenceTypeOK, SnapInv
<1>3. PICK rec : rec = LeaseRecord(c, t)
    OBVIOUS
<1>4. rec \in Records /\ rec.lease = lease[c] /\ Conforming(rec, t)
    BY <1>2, <1>3, LeaseRecordConforms
<1>5. PICK r : r = [kind |-> "write", lease |-> lease[c], expected |-> snap[c].version, rec |-> rec]
    OBVIOUS
<1>6. r \in Requests /\ r.rec = rec /\ r.kind = "write" /\ r.lease = lease[c]
      /\ r.expected = snap[c].version
    BY <1>4, <1>5 DEF FenceTypeOK, Requests
<1>7. snap[c].version = version /\ version # 0 =>
          file.lease = lease[c] /\ SafeDeadline(rec) >= SafeDeadline(file)
  <2> SUFFICES ASSUME snap[c].version = version, version # 0
               PROVE  file.lease = lease[c] /\ SafeDeadline(rec) >= SafeDeadline(file)
      OBVIOUS
  <2>1. old = file /\ file.lease = lease[c]
      BY <1>1 DEF SnapInv, OwnedSnapshot
  <2>2. lease[c] \in Leases /\ lease[c][1] = c
      BY DEF FenceTypeOK
  <2>3. /\ file.expiresAt = file.renewedAt + TTL /\ file.renewedAt <= t
        /\ file.heartbeat = 0 <=> Heartbeat[c] = 0
        /\ file.heartbeat <= advertised[c]
      BY <1>1, <2>1, <2>2 DEF SnapInv, Conforming
  <2>4. rec.expiresAt = rec.renewedAt + TTL /\ rec.renewedAt = t /\ rec.heartbeat = advertised[c]
      BY <1>3 DEF LeaseRecord
  <2>5. rec.heartbeat = 0 <=> Heartbeat[c] = 0
      BY <2>4 DEF AdvertisedInv
  <2> QED BY <1>2, <1>4, <2>1, <2>3, <2>4, <2>5, RenewalExtends
<1>8. UNCHANGED <<now, serverVars, lease, advertised, mutation>> /\ pc'[c] = place
      /\ pc' = [pc EXCEPT ![c] = place]
    BY <1>1 DEF SendRequest, FenceTypeOK
<1>9. RequestInv(r)'
  <2>1. FenceTypeOK' /\ Advance
      BY <1>1, <1>6, <1>8, <1>3, <1>5 DEF FenceTypeOK, SendRequest, serverVars, NoSnap, NoRequest,
         Absent, Records, Places, Advance, Requesting
  <2>2. Conforming(rec, now)'
      BY <1>2, <1>4, <1>8, <2>1, ConformingKept DEF Conforming
  <2>3. WriteInv(r)'
      BY <1>4, <1>6, <1>7, <1>8, <2>2 DEF WriteInv, serverVars
  <2>4. lease[c] \in Leases /\ lease[c][1] = c /\ lease[c][2] \in Nat
      BY DEF FenceTypeOK, Leases
  <2> QED BY <1>1, <1>6, <1>8, <2>3, <2>4 DEF RequestInv, RemoveInv, serverVars, SnapInv
<1> QED BY <1>1, <1>3, <1>4, <1>5, <1>6, <1>9, SendRequestInv DEF Requesting

(* release: the record it may delete is its own, and the lease is given up. *)
LEMMA ReleaseRemoveInv ==
    ASSUME FenceInv, NEW c \in Clients, ReleaseRemove(c)
    PROVE  FenceInv'
<1> USE DEF FenceInv
<1>1. /\ pc[c] = "relRead" /\ snap[c].ready /\ SnapInv(c) /\ MutationInv(c)
      /\ snap[c].rec.lease = lease[c]
      /\ SendRequest(c, "relRemove", "remove", Absent)
    BY DEF ReleaseRemove
<1>2. Absent \in Records /\ lease[c] \in Leases /\ lease[c][1] = c /\ lease[c][2] \in Nat
      /\ snap[c].version \in Nat
    BY DEF Absent, Records, FenceTypeOK, Leases
<1>3. PICK r : r = [kind |-> "remove", lease |-> lease[c], expected |-> snap[c].version, rec |-> Absent]
    OBVIOUS
<1>4. r \in Requests /\ r.kind = "remove" /\ r.lease = lease[c] /\ r.expected = snap[c].version
    BY <1>2, <1>3 DEF Requests
<1>5. UNCHANGED <<now, serverVars, lease, mutation>> /\ pc'[c] = "relRemove"
    BY <1>1 DEF SendRequest, FenceTypeOK
<1>6. ~mutation[c].open
    BY <1>1 DEF MutationInv
<1>7. snap[c].version # 0 /\ (snap[c].version = version => file.lease = lease[c])
    BY <1>1, <1>2 DEF SnapInv
<1>8. RequestInv(r)'
    BY <1>1, <1>2, <1>4, <1>5, <1>6, <1>7
       DEF RequestInv, WriteInv, RemoveInv, serverVars, SnapInv
<1> QED BY <1>1, <1>2, <1>3, <1>4, <1>6, <1>8, SendRequestInv DEF Requesting

(* A write that went through is read back. *)
LEMMA ReadBackInv ==
    ASSUME FenceInv, NEW c \in Clients, NEW place \in {"acqVerify", "coverVerify", "renewVerify"},
           pc[c] \in {"acqWrite", "coverWrite", "renewWrite"}, ReadBack(c, place)
    PROVE  FenceInv'
<1> USE DEF FenceInv
<1>1. FenceTypeOK'
    BY DEF FenceTypeOK, ReadBack, serverVars, Places, Reading
<1>2. ClientFrame(c)
    BY DEF FenceTypeOK, ReadBack, serverVars, ClientFrame
<1>3. SnapInv(c)'
  <2>1. SnapInv(c) /\ ~snap[c].ready
      BY DEF SnapInv, Reading
  <2> QED BY <2>1 DEF FenceTypeOK, ReadBack, serverVars, SnapInv
<1>4. MutationInv(c)'
  <2>1. MutationInv(c)
      OBVIOUS
  <2> QED BY <2>1 DEF FenceTypeOK, ReadBack, serverVars, MutationInv, Secured
<1>5. network' = network
    BY DEF ReadBack
<1>6. AdvertisedInv(c)'
    BY DEF ReadBack, AdvertisedInv
<1> QED BY <1>1, <1>2, <1>3, <1>4, <1>5, <1>6, ClientFrameInv

-----------------------------------------------------------------------------
(* A mutation settles: its cover is no longer needed. *)
LEMMA MutationSettlesInv ==
    ASSUME FenceInv, NEW c \in Clients, MutationSettles(c)
    PROVE  FenceInv'
<1> USE DEF FenceInv
<1>1. FenceTypeOK'
    BY DEF FenceTypeOK, MutationSettles, serverVars, clientVars, NoMutation
<1>2. ClientFrame(c)
    BY DEF FenceTypeOK, MutationSettles, serverVars, clientVars, ClientFrame
<1>3. SnapInv(c)'
  <2>1. SnapInv(c)
      OBVIOUS
  <2> QED BY <2>1 DEF MutationSettles, serverVars, clientVars, SnapInv, Conforming, Secured
<1>4. MutationInv(c)'
    BY DEF FenceTypeOK, MutationSettles, MutationInv, NoMutation
<1>5. network' = network
    BY DEF MutationSettles
<1>6. AdvertisedInv(c)'
    BY DEF MutationSettles, clientVars, AdvertisedInv
<1> QED BY <1>1, <1>2, <1>3, <1>4, <1>5, <1>6, ClientFrameInv

(* Time passes: assurances and lapses only look at deadlines. *)
LEMMA TickInv ==
    ASSUME FenceInv, ClockTicks
    PROVE  FenceInv'
<1> USE DEF FenceInv
<1>1. now \in Nat /\ now' = now + 1 /\ UNCHANGED <<serverVars, network, clientVars>>
    BY DEF ClockTicks, FenceTypeOK
<1>2. \A c \in Clients : mutation'[c] = IF mutation[c].open /\ mutation[c].until > now
                                        THEN mutation[c] ELSE NoMutation
    BY DEF ClockTicks
<1>3. FenceTypeOK'
    BY <1>1 DEF FenceTypeOK, ClockTicks, serverVars, clientVars, NoMutation
<1>4. Advance
    BY <1>1 DEF Advance, clientVars, FenceTypeOK
<1>5. \A rec \in Records : Conforming(rec, now) => Conforming(rec, now)'
    BY <1>1, <1>3, <1>4, ConformingKept DEF Conforming
<1>6. FileInv'
    BY <1>1, <1>5 DEF FileInv, serverVars, FenceTypeOK
<1>7. \A l : \A d \in Nat : Secured(l, d) => Secured(l, d)'
    BY <1>1 DEF Secured, serverVars
<1>8. ASSUME NEW c \in Clients PROVE AdvertisedInv(c)' /\ SnapInv(c)' /\ MutationInv(c)'
  <2>1. snap[c].rec \in Records /\ snap[c].serverNow \in Nat /\ sentAt[c] \in Nat
        /\ SafeDeadline(snap[c].rec) \in Nat
      BY DeadlineType DEF FenceTypeOK
  <2>2. snap[c].ready => Conforming(snap[c].rec, snap[c].serverNow)'
      BY <1>1, <1>3, <1>4, <2>1, ConformingKept DEF SnapInv, Conforming, clientVars
  <2>3. SnapInv(c)
      OBVIOUS
  <2>4. SnapInv(c)'
    <3>1. snap[c].ready /\ snap[c].rec.lease = lease[c] =>
              Secured(lease[c], SafeDeadline(snap[c].rec))'
        BY <1>1, <1>7, <2>1, <2>3 DEF SnapInv, clientVars, Secured
    <3> QED BY <1>1, <2>1, <2>2, <2>3, <3>1 DEF SnapInv, clientVars, serverVars, Secured
  <2>5. MutationInv(c)'
    <3>1. CASE mutation[c].open /\ mutation[c].until > now
      <4>1. MutationInv(c) /\ mutation'[c] = mutation[c] /\ mutation[c].until \in Nat
          BY <1>2, <3>1 DEF FenceTypeOK
      <4>2. Secured(mutation[c].lease, mutation[c].until + 1)'
          BY <1>1, <3>1, <4>1 DEF MutationInv, Secured, serverVars
      <4> QED BY <1>1, <3>1, <4>1, <4>2 DEF MutationInv, clientVars, Secured
    <3>2. CASE ~(mutation[c].open /\ mutation[c].until > now)
        BY <1>2, <3>2 DEF MutationInv, NoMutation
    <3> QED BY <3>1, <3>2
  <2> QED BY <1>1, <2>4, <2>5 DEF AdvertisedInv, clientVars
<1>9. ASSUME NEW r \in network PROVE RequestInv(r)'
  <2>1. RequestInv(r) /\ r \in Requests /\ r.rec \in Records /\ file \in Records
      BY DEF FenceTypeOK, Requests
  <2>2. Lapsed(file, now) => Lapsed(file, now)'
    <3>1. file.expiresAt \in Nat /\ AbandonmentDeadline(file) \in Nat
        BY <2>1, DeadlineType DEF Records
    <3> QED BY <1>1, <3>1 DEF Lapsed, AbandonedRecord, serverVars
  <2>3. WriteInv(r)'
      BY <1>1, <1>5, <2>1, <2>2 DEF RequestInv, WriteInv, serverVars
  <2>4. r.lease[1] \in Clients
      BY <2>1 DEF RequestInv, Leases
  <2>5. RemoveInv(r)'
      BY <1>1, <1>2, <2>1, <2>4 DEF RequestInv, RemoveInv, serverVars, clientVars, NoMutation
  <2> QED BY <1>1, <2>1, <2>3, <2>5 DEF RequestInv, serverVars, clientVars
<1> QED BY <1>1, <1>3, <1>6, <1>8, <1>9

(* The server applies or refuses a request: whoever still has authority over *)
(* the file keeps it.                                                        *)
LEMMA ServeRequestInv ==
    ASSUME FenceInv, NEW r \in network, ServeRequest(r)
    PROVE  FenceInv'
<1> USE DEF FenceInv
<1>1. /\ r \in Requests /\ RequestInv(r) /\ r.rec \in Records /\ file \in Records
      /\ now \in Nat /\ version \in Nat /\ lastVersion \in Nat /\ r.expected \in Nat
    BY DEF FenceTypeOK, Requests
<1>2. UNCHANGED <<now, pc, lease, attempt, advertised, lost, sentAt, snap, request, mutation>>
      /\ network' = network \ {r}
    BY DEF ServeRequest
<1>3. FenceTypeOK'
  <2>1. reply' \in [Clients -> {"none", "ok", "conflict"}]
      BY DEF ServeRequest, FenceTypeOK
  <2>2. file' \in Records /\ version' \in Nat /\ lastVersion' \in Nat
      BY <1>1 DEF ServeRequest, serverVars, Absent, Records
  <2> QED BY <1>2, <2>1, <2>2 DEF FenceTypeOK
<1>4. Advance
    BY <1>2 DEF Advance, FenceTypeOK
<1>5. \A rec \in Records, t \in Nat : Conforming(rec, t) => Conforming(rec, t)'
    BY <1>3, <1>4, ConformingKept
<1>6. CASE r.expected # version
  <2>1. UNCHANGED serverVars
      BY <1>6 DEF ServeRequest
  <2> QED BY <1>2, <1>3, <2>1, NothingMovesInv

<1>7. CASE r.expected = version /\ r.kind = "write"
  <2>1. file' = r.rec /\ version' = lastVersion + 1 /\ lastVersion' = lastVersion + 1
      BY <1>7 DEF ServeRequest
  <2>2. WriteInv(r) /\ r.lease \in Leases /\ r.rec.lease = r.lease
      BY <1>1, <1>7 DEF RequestInv, WriteInv
  <2>3. ASSUME NEW l \in Leases, NEW d \in Nat, Secured(l, d) PROVE Secured(l, d)'
    <3>1. CASE d <= now
        BY <1>2, <3>1 DEF Secured
    <3>2. CASE d > now
      <4>1. file.lease = l /\ SafeDeadline(file) >= d /\ SafeDeadline(file) \in Nat
            /\ SafeDeadline(r.rec) \in Nat
          BY <1>1, <2>3, <3>2, DeadlineType DEF Secured
      <4>2. version # 0 /\ file.lease # Foreign
          BY <4>1 DEF FileInv
      <4>3. ~Lapsed(file, now)
          BY <1>1, <3>2, <4>1, LapsedHasNoAuthority
      <4>4. file.lease = r.lease /\ SafeDeadline(r.rec) >= SafeDeadline(file)
          BY <1>7, <2>2, <4>2, <4>3 DEF WriteInv
      <4> QED BY <2>1, <2>2, <4>1, <4>4 DEF Secured
    <3> QED BY <1>1, <3>1, <3>2
  <2>4. FileInv'
    <3>1. Conforming(r.rec, now)'
        BY <1>1, <1>2, <1>5, <1>7, <2>2 DEF WriteInv, Conforming
    <3> QED BY <1>1, <1>2, <2>1, <2>2, <3>1 DEF FileInv
  <2>5. ASSUME NEW c \in Clients PROVE AdvertisedInv(c)' /\ SnapInv(c)' /\ MutationInv(c)'
    <3>1. AdvertisedInv(c) /\ SnapInv(c) /\ MutationInv(c)
        OBVIOUS
    <3>2. /\ snap[c].rec \in Records /\ snap[c].serverNow \in Nat /\ snap[c].version \in Nat
          /\ lease[c] \in Leases /\ mutation[c].until \in Nat
          /\ SafeDeadline(snap[c].rec) \in Nat
        BY DeadlineType DEF FenceTypeOK
    <3>3. snap[c].ready => Conforming(snap[c].rec, snap[c].serverNow)'
        BY <1>2, <1>5, <3>1, <3>2 DEF SnapInv, Conforming
    <3>4. snap[c].ready /\ snap[c].rec.lease = lease[c] =>
              Secured(lease[c], SafeDeadline(snap[c].rec))'
        BY <1>2, <2>3, <3>1, <3>2 DEF SnapInv, Secured
    <3>5. SnapInv(c)'
        BY <1>1, <1>2, <2>1, <3>1, <3>2, <3>3, <3>4 DEF SnapInv, Secured
    <3>6. mutation[c].open => Secured(mutation[c].lease, mutation[c].until + 1)'
        BY <1>2, <2>3, <3>1, <3>2 DEF MutationInv, Secured
    <3>7. MutationInv(c)'
        BY <1>2, <3>1, <3>6 DEF MutationInv, Secured
    <3> QED BY <1>2, <3>1, <3>5, <3>7 DEF AdvertisedInv
  <2>6. ASSUME NEW q \in network' PROVE RequestInv(q)'
    <3>1. q \in network /\ RequestInv(q) /\ q \in Requests /\ q.rec \in Records
          /\ q.expected \in Nat /\ q.expected <= lastVersion
        BY <1>2 DEF FenceTypeOK, Requests, RequestInv
    <3>2. q.expected # version' /\ q.expected <= lastVersion'
        BY <1>1, <2>1, <3>1
    <3>3. WriteInv(q)'
        BY <1>1, <1>2, <1>5, <3>1, <3>2 DEF RequestInv, WriteInv, Conforming
    <3>4. RemoveInv(q)'
        BY <1>2, <3>1, <3>2 DEF RequestInv, RemoveInv
    <3> QED BY <1>2, <3>1, <3>2, <3>3, <3>4 DEF RequestInv
  <2> QED BY <1>3, <2>4, <2>5, <2>6
<1>8. CASE r.expected = version /\ r.kind = "remove"
  <2>1. file' = Absent /\ version' = 0 /\ lastVersion' = lastVersion
      BY <1>8 DEF ServeRequest
  <2>2. /\ RemoveInv(r) /\ r.lease \in Leases /\ r.lease[1] \in Clients
        /\ r.expected # 0 /\ file.lease = r.lease
      BY <1>1, <1>8 DEF RequestInv, RemoveInv, Leases
  <2>3. ASSUME NEW l, NEW d \in Nat, Secured(l, d), l # r.lease PROVE Secured(l, d)'
      BY <1>1, <1>2, <2>2, <2>3 DEF Secured
  <2>4. FileInv'
      BY <1>1, <2>1 DEF FileInv, Conforming, Absent
  <2>5. ASSUME NEW c \in Clients PROVE AdvertisedInv(c)' /\ SnapInv(c)' /\ MutationInv(c)'
    <3>1. AdvertisedInv(c) /\ SnapInv(c) /\ MutationInv(c)
        OBVIOUS
    <3>2. /\ snap[c].rec \in Records /\ snap[c].serverNow \in Nat /\ snap[c].version \in Nat
          /\ lease[c] \in Leases /\ lease[c][1] = c /\ mutation[c].until \in Nat
          /\ SafeDeadline(snap[c].rec) \in Nat
        BY DeadlineType DEF FenceTypeOK
    <3>3. snap[c].ready => Conforming(snap[c].rec, snap[c].serverNow)'
        BY <1>2, <1>5, <3>1, <3>2 DEF SnapInv, Conforming
    <3>4. snap[c].ready => lease[c] # r.lease
        BY <1>8, <2>2, <3>1, <3>2 DEF RemoveInv, SnapInv, Reading
    <3>5. snap[c].ready /\ snap[c].rec.lease = lease[c] =>
              Secured(lease[c], SafeDeadline(snap[c].rec))'
        BY <1>2, <2>3, <3>1, <3>2, <3>4 DEF SnapInv, Secured
    <3>6. SnapInv(c)'
        BY <1>1, <1>2, <2>1, <3>1, <3>2, <3>3, <3>5 DEF SnapInv, Secured
    <3>7. mutation[c].open => mutation[c].lease # r.lease
        BY <1>8, <2>2, <3>1 DEF RemoveInv, MutationInv
    <3>8. mutation[c].open => Secured(mutation[c].lease, mutation[c].until + 1)'
      <4> SUFFICES ASSUME mutation[c].open
                   PROVE  Secured(mutation[c].lease, mutation[c].until + 1)'
          OBVIOUS
      <4>1. PICK l, d : l = mutation[c].lease /\ d = mutation[c].until + 1
          OBVIOUS
      <4>2. d \in Nat /\ Secured(l, d) /\ l # r.lease
          BY <3>1, <3>2, <3>7, <4>1 DEF MutationInv
      <4>3. Secured(l, d)'
          BY <2>3, <4>2
      <4> QED BY <1>2, <4>1, <4>3
    <3>9. MutationInv(c)'
        BY <1>2, <3>1, <3>8 DEF MutationInv, Secured
    <3> QED BY <1>2, <3>1, <3>6, <3>9 DEF AdvertisedInv
  <2>6. ASSUME NEW q \in network' PROVE RequestInv(q)'
    <3>1. q \in network /\ RequestInv(q) /\ q \in Requests /\ q.rec \in Records
        BY <1>2 DEF FenceTypeOK, Requests
    <3>2. WriteInv(q)'
        BY <1>1, <1>2, <1>5, <2>1, <3>1 DEF RequestInv, WriteInv, Conforming
    <3>3. RemoveInv(q)'
        BY <1>2, <2>1, <3>1 DEF RequestInv, RemoveInv
    <3> QED BY <1>2, <2>1, <3>1, <3>2, <3>3 DEF RequestInv
  <2> QED BY <1>3, <2>4, <2>5, <2>6
<1> QED BY <1>1, <1>6, <1>7, <1>8 DEF Requests, RequestInv

-----------------------------------------------------------------------------
(* assertHeld's arithmetic: authority left after charging the whole round    *)
(* trip covers the request that follows, wherever in it the read was served. *)
LEMMA AssertCovers ==
    ASSUME FenceInv, NEW c \in Clients, snap[c].ready, snap[c].rec.lease = lease[c],
           SafeAuthorityRemaining(c) > Horizon
    PROVE  Secured(lease[c], now + RequestTimeout + 1)
<1>1. /\ snap[c].rec \in Records /\ snap[c].serverNow \in Nat /\ sentAt[c] \in Nat /\ now \in Nat
      /\ file \in Records
    BY DEF FenceInv, FenceTypeOK
<1>2. SafeDeadline(snap[c].rec) \in Nat /\ SafeDeadline(file) \in Nat
    BY <1>1, DeadlineType
<1>3. sentAt[c] <= snap[c].serverNow /\ Secured(lease[c], SafeDeadline(snap[c].rec))
    BY DEF FenceInv, SnapInv
<1>4. SafeDeadline(snap[c].rec) >= now + RequestTimeout + 1
    BY <1>1, <1>2, <1>3 DEF SafeAuthorityRemaining, ReadAge
<1> QED BY <1>1, <1>2, <1>3, <1>4 DEF Secured

(* The initial file is absent or foreign; nobody relies on anything. *)
LEMMA InitFenceInv == FenceInit => FenceInv
<1> SUFFICES ASSUME FenceInit PROVE FenceInv
    OBVIOUS
<1>1. file \in Records /\ (file = Absent \/ file.lease = Foreign)
    BY DEF FenceInit, Absent, Records
<1>2. version = IF file = Absent THEN 0 ELSE 1
    BY DEF FenceInit
<1>3. FenceTypeOK
  <2>1. lease \in [Clients -> Leases] /\ \A c \in Clients : lease[c][1] = c
      BY DEF FenceInit, Leases
  <2> QED BY <1>1, <1>2, <2>1
          DEF FenceInit, FenceTypeOK, Absent, Records, Requests, NoSnap, NoRequest, NoMutation, Places
<1>4. FileInv
    BY <1>1, <1>2 DEF FenceInit, FileInv, Conforming, Absent
<1>5. ASSUME NEW c \in Clients PROVE AdvertisedInv(c) /\ SnapInv(c) /\ MutationInv(c)
    BY DEF FenceInit, AdvertisedInv, SnapInv, MutationInv, NoSnap, NoMutation
<1> QED BY <1>3, <1>4, <1>5 DEF FenceInv, FenceInit

(* Every step of a client, of the server and of the clock preserves it. *)
LEMMA NextFenceInv == FenceInv /\ [FenceNext]_fenceVars => FenceInv'
<1> SUFFICES ASSUME FenceInv, [FenceNext]_fenceVars PROVE FenceInv'
    OBVIOUS
<1>1. ASSUME NEW c \in Clients, ClientStep(c) PROVE FenceInv'
  <2>0. FenceTypeOK /\ MutationInv(c) /\ AdvertisedInv(c) /\ lease[c] \in Leases /\ lease[c][1] = c
        /\ lease[c][2] \in Nat /\ advertised[c] \in Nat
      BY DEF FenceInv, FenceTypeOK, Leases
  <2>1. ASSUME Acquire(c) PROVE FenceInv'
    <3>1. lease' = [lease EXCEPT ![c] = <<c, lease[c][2] + 1>>]
          /\ attempt' = [attempt EXCEPT ![c] = 1]
          /\ SendRead(c, "acqRead") /\ UNCHANGED <<advertised, lost, mutation>>
        BY <2>1 DEF Acquire
    <3>2. <<c, lease[c][2] + 1>> \in Leases
        BY <2>0 DEF Leases
    <3>3. /\ lease' \in [Clients -> Leases] /\ \A d \in Clients : lease'[d][1] = d
          /\ \A d \in Clients \ {c} : lease'[d] = lease[d]
          /\ lease'[c][2] > lease[c][2]
        BY <2>0, <3>1, <3>2 DEF FenceTypeOK
    <3>4. attempt' \in [Clients -> Nat]
        BY <2>0, <3>1 DEF FenceTypeOK
    <3> QED BY <2>0, <3>1, <3>3, <3>4, SendReadInv DEF FenceTypeOK, Reading, AdvertisedInv
  <2>2. ASSUME AcquireBusy(c) PROVE FenceInv'
      BY <2>2, QuitInv DEF AcquireBusy
  <2>3. ASSUME AcquireWrite(c) PROVE FenceInv'
      BY <2>3, AcquireWriteInv
  <2>4. ASSUME AcquireConflict(c) PROVE FenceInv'
    <3>1. CASE Quit(c)
        BY <3>1, QuitInv
    <3>2. CASE /\ attempt' = [attempt EXCEPT ![c] = @ + 1]
               /\ SendRead(c, "acqRead")
               /\ UNCHANGED <<lease, advertised, lost, mutation>>
      <4>1. attempt' \in [Clients -> Nat]
          BY <2>0, <3>2 DEF FenceTypeOK
      <4>2. "acqRead" \in Reading
          BY DEF Reading
      <4>3. pc[c] \notin {"idle", "relRemove"}
          BY <2>4 DEF AcquireConflict
      <4> QED BY <3>2, <4>1, <4>2, <4>3, OwnReadInv
    <3> QED BY <2>4, <3>1, <3>2 DEF AcquireConflict
  <2>5. ASSUME AcquireWritten(c) PROVE FenceInv'
      BY <2>5, ReadBackInv DEF AcquireWritten
  <2>6. ASSUME AcquireVerify(c) PROVE FenceInv'
      BY <2>0, <2>6, QuitInv, RestInv DEF AcquireVerify, FenceTypeOK
  <2>7. ASSUME BeginOwn(c, "assertRead") \/ BeginOwn(c, "renewRead") PROVE FenceInv'
    <3>1. "assertRead" \in Reading /\ "renewRead" \in Reading
        BY DEF Reading
    <3>2. pc[c] \notin {"idle", "relRemove"} /\ attempt' \in [Clients -> Nat]
          /\ UNCHANGED <<lease, advertised, lost, mutation>>
        BY <2>0, <2>7 DEF BeginOwn, FenceTypeOK
    <3>3. CASE SendRead(c, "assertRead")
        BY <3>1, <3>2, <3>3, OwnReadInv
    <3>4. CASE SendRead(c, "renewRead")
        BY <3>1, <3>2, <3>4, OwnReadInv
    <3> QED BY <2>7, <3>3, <3>4 DEF BeginOwn
  <2>8. ASSUME OperationFails(c), pc[c] \notin {"idle", "relRead", "relRemove"} PROVE FenceInv'
    <3>1. lost' \in [Clients -> BOOLEAN]
        BY <2>0, <2>8 DEF OperationFails, FenceTypeOK
    <3> QED BY <2>8, <3>1, RestInv DEF OperationFails
  <2>9. ASSUME NotOwned(c) \/ RenewConflict(c) \/ RenewUnverified(c) PROVE FenceInv'
      BY <2>8, <2>9 DEF NotOwned, RenewConflict, RenewUnverified
  <2>10. ASSUME AssertPasses(c) PROVE FenceInv'
    <3>1. Secured(lease[c], now + RequestTimeout + 1)
        BY <2>10, AssertCovers DEF AssertPasses, OwnedSnapshot
    <3> QED BY <2>0, <2>10, <3>1, RestInv DEF AssertPasses, FenceTypeOK
  <2>11. ASSUME AssertRenews(c) PROVE FenceInv'
    <3> DEFINE q == (Horizon + AbandonedAfterMissedHeartbeats - 1) \div AbandonedAfterMissedHeartbeats
               new == IF advertised[c] > 0 THEN Longer(advertised[c], q) ELSE 0
    <3>1. q \in Nat
        BY DEF AbandonedAfterMissedHeartbeats
    <3>2. new \in Nat /\ advertised[c] <= new /\ (new = 0 <=> advertised[c] = 0)
        BY <2>0, <3>1 DEF Longer
    <3> HIDE DEF new
    <3>3. advertised' = [advertised EXCEPT ![c] = new]
        BY <2>11 DEF AssertRenews, new
    <3>4. /\ advertised' \in [Clients -> Nat]
          /\ advertised'[c] = new
          /\ \A d \in Clients \ {c} : advertised'[d] = advertised[d]
        BY <2>0, <3>2, <3>3 DEF FenceTypeOK
    <3>5. AdvertisedInv(c)'
        BY <2>0, <3>2, <3>4 DEF AdvertisedInv
    <3> QED BY <2>0, <2>11, <3>2, <3>4, <3>5, SendReadInv DEF AssertRenews, FenceTypeOK, Reading
  <2>12. ASSUME RenewWrite(c) PROVE FenceInv'
      BY <2>12, RenewWriteInv
  <2>13. ASSUME RenewWritten(c) PROVE FenceInv'
      BY <2>13, ReadBackInv DEF RenewWritten
  <2>14. ASSUME RenewVerify(c) PROVE FenceInv'
      BY <2>0, <2>14, RestInv DEF RenewVerify, FenceTypeOK
  <2>15. ASSUME CoverVerify(c) PROVE FenceInv'
    <3>1. Secured(lease[c], now + RequestTimeout + 1)
        BY <2>15, AssertCovers DEF CoverVerify, OwnedSnapshot
    <3> QED BY <2>0, <2>15, <3>1, RestInv DEF CoverVerify, FenceTypeOK
  <2>16. ASSUME BeginRelease(c) PROVE FenceInv'
    <3>1. "relRead" \in Reading
        BY DEF Reading
    <3>2. /\ pc[c] \notin {"idle", "relRemove"} /\ ~mutation[c].open
          /\ SendRead(c, "relRead") /\ attempt' \in [Clients -> Nat]
          /\ UNCHANGED <<lease, advertised, lost, mutation>>
        BY <2>0, <2>16 DEF BeginRelease, FenceTypeOK
    <3> QED BY <3>1, <3>2, OwnReadInv
  <2>17. ASSUME ReleaseRefused(c) \/ ReleaseDone(c) PROVE FenceInv'
      BY <2>17, QuitInv DEF ReleaseRefused, ReleaseDone
  <2>18. ASSUME ReleaseRemove(c) PROVE FenceInv'
      BY <2>18, ReleaseRemoveInv
  <2>19. ASSUME Fail(c) PROVE FenceInv'
      BY <2>8, <2>19, QuitInv DEF Fail
  <2>20. ASSUME Crash(c) PROVE FenceInv'
      BY <2>20, QuitInv DEF Crash
  <2>21. ASSUME MutationSettles(c) PROVE FenceInv'
      BY <2>21, MutationSettlesInv
  <2>22. ASSUME ServeRead(c) PROVE FenceInv'
      BY <2>22, ServeReadInv
  <2> QED BY <1>1, <2>1, <2>2, <2>3, <2>4, <2>5, <2>6, <2>7, <2>9, <2>10, <2>11, <2>12,
             <2>13, <2>14, <2>15, <2>16, <2>17, <2>18, <2>19, <2>20, <2>21, <2>22
          DEF ClientStep
<1>2. ASSUME NEW r \in network, ServeRequest(r) PROVE FenceInv'
    BY <1>2, ServeRequestInv
<1>3. ASSUME ClockTicks PROVE FenceInv'
    BY <1>3, TickInv
<1>4. ASSUME UNCHANGED fenceVars PROVE FenceInv'
  <2>1. FenceTypeOK
      BY DEF FenceInv
  <2>2. FenceTypeOK'
      BY <1>4, <2>1 DEF fenceVars, serverVars, clientVars, FenceTypeOK
  <2> QED BY <1>4, <2>2, NothingMovesInv DEF fenceVars, clientVars
<1> QED BY <1>1, <1>2, <1>3, <1>4 DEF FenceNext

(* Every reachable state of the fence satisfies its inductive invariant. *)
THEOREM FenceCorrect == FenceSpec => []FenceInv
BY InitFenceInv, NextFenceInv, PTL DEF FenceSpec

(* Whatever the devices, delays, losses and crashes: while a mutation let    *)
(* through by assertHeld can land, the file names its lease.                 *)
THEOREM MutationsAreFenced == FenceSpec => []MutationUnderOwnLease
<1>1. FenceInv => MutationUnderOwnLease
  <2> SUFFICES ASSUME FenceInv, NEW c \in Clients, mutation[c].open
               PROVE  file.lease = mutation[c].lease
      BY DEF MutationUnderOwnLease
  <2>1. MutationInv(c) /\ mutation[c].until \in Nat /\ now \in Nat
      BY DEF FenceInv, FenceTypeOK
  <2> QED BY <2>1 DEF MutationInv, Secured
<1> QED BY <1>1, FenceCorrect, PTL

(* ... and so two devices never have provider mutations under way at once.   *)
THEOREM MutationsExclude == FenceSpec => []MutationsExclusive
<1>1. FenceInv /\ MutationUnderOwnLease => MutationsExclusive
    BY DEF FenceInv, MutationInv, MutationUnderOwnLease, MutationsExclusive
<1> QED BY <1>1, FenceCorrect, MutationsAreFenced, PTL

(* A lease is taken over only once its holder is expired or silent: no write *)
(* that was decided earlier and lands late can displace a live holder.       *)
THEOREM TakeoverIsJustified == FenceSpec => TakenOnlyWhenLapsed
<1> DEFINE A == file.lease \in Leases /\ file'.lease # file.lease /\ file' # Absent =>
                    file.expiresAt <= now \/ AbandonedRecord(file, now)
<1>1. FenceInv /\ [FenceNext]_fenceVars => [A]_fenceVars
  <2> SUFFICES ASSUME FenceInv, FenceNext, file.lease \in Leases, file'.lease # file.lease,
                      file' # Absent
               PROVE  file.expiresAt <= now \/ AbandonedRecord(file, now)
      OBVIOUS
  <2>1. CASE UNCHANGED file
      BY <2>1
  <2>2. ASSUME NEW r \in network, ServeRequest(r)
        PROVE  file.expiresAt <= now \/ AbandonedRecord(file, now)
    <3>1. r.kind = "write" /\ r.expected = version /\ file' = r.rec
        BY <2>2 DEF ServeRequest, serverVars
    <3>2. RequestInv(r) /\ version # 0
        BY DEF FenceInv, FileInv
    <3>3. WriteInv(r)
        BY <3>2 DEF RequestInv
    <3> QED BY <3>1, <3>2, <3>3 DEF WriteInv, Lapsed
  <2>3. ASSUME NEW c \in Clients, ClientStep(c) PROVE UNCHANGED file
      BY <2>3 DEF ClientStep, Acquire, AcquireBusy, AcquireWrite, AcquireConflict,
         AcquireWritten, AcquireVerify, BeginOwn, NotOwned, AssertPasses, AssertRenews,
         RenewWrite, RenewConflict, RenewWritten, RenewUnverified, RenewVerify, CoverVerify,
         BeginRelease, ReleaseRefused, ReleaseRemove, ReleaseDone, Fail, Crash,
         MutationSettles, ServeRead, OperationFails, SendRead, SendRequest, Rest, Quit,
         ReadBack, serverVars
  <2>4. ClockTicks => UNCHANGED file
      BY DEF ClockTicks, serverVars
  <2> QED BY <2>1, <2>2, <2>3, <2>4 DEF FenceNext
<1> QED BY <1>1, FenceCorrect, PTL DEF FenceSpec, TakenOnlyWhenLapsed

(* A remove, however late it lands, deletes only its own lease's record.     *)
THEOREM ReleaseIsPeerSafe == FenceSpec => RemovesOnlyOwnRecord
<1> DEFINE A == file # Absent /\ file' = Absent =>
                    \E r \in network : r.kind = "remove" /\ r.lease = file.lease
<1>1. FenceInv /\ [FenceNext]_fenceVars => [A]_fenceVars
  <2> SUFFICES ASSUME FenceInv, FenceNext, file # Absent, file' = Absent
               PROVE  \E r \in network : r.kind = "remove" /\ r.lease = file.lease
      OBVIOUS
  <2>1. ASSUME NEW r \in network, ServeRequest(r)
        PROVE  r.kind = "remove" /\ r.lease = file.lease
    <3>1. RequestInv(r) /\ r.kind \in {"none", "write", "remove"} /\ r.expected = version
        BY <2>1 DEF FenceInv, FenceTypeOK, Requests, ServeRequest, serverVars
    <3>2. CASE r.kind = "write"
      <4>1. r.rec.lease \in Leases /\ file' = r.rec
          BY <2>1, <3>1, <3>2 DEF RequestInv, WriteInv, ServeRequest
      <4> QED BY <4>1 DEF Absent
    <3>3. CASE r.kind = "remove"
        BY <3>1, <3>3 DEF RequestInv, RemoveInv
    <3> QED BY <3>1, <3>2, <3>3 DEF RequestInv
  <2>2. ASSUME NEW c \in Clients, ClientStep(c) PROVE UNCHANGED file
      BY <2>2 DEF ClientStep, Acquire, AcquireBusy, AcquireWrite, AcquireConflict,
         AcquireWritten, AcquireVerify, BeginOwn, NotOwned, AssertPasses, AssertRenews,
         RenewWrite, RenewConflict, RenewWritten, RenewUnverified, RenewVerify, CoverVerify,
         BeginRelease, ReleaseRefused, ReleaseRemove, ReleaseDone, Fail, Crash,
         MutationSettles, ServeRead, OperationFails, SendRead, SendRequest, Rest, Quit,
         ReadBack, serverVars
  <2>3. ClockTicks => UNCHANGED file
      BY DEF ClockTicks, serverVars
  <2> QED BY <2>1, <2>2, <2>3 DEF FenceNext
<1> QED BY <1>1, FenceCorrect, PTL DEF FenceSpec, RemovesOnlyOwnRecord

=============================================================================
