------------------------------ MODULE AutoSync ------------------------------
(***************************************************************************)
(* packages/core/src/auto-sync-controller.ts: when the applications sync   *)
(* on their own.                                                           *)
(*                                                                         *)
(* Triggers (edits after a debounce, window focus and blur, a heartbeat,   *)
(* the user) become requests; a request waits for the cool-down of the     *)
(* last failure and for the minimum interval, both on one timer, and joins *)
(* a cycle in flight as its follow-up (sync-orchestrator.ts, without a     *)
(* delay).                                                                 *)
(*                                                                         *)
(* Times are counted relative to now, so that they stay bounded: a timer   *)
(* is what it has left, the last sync is what has passed since.  A cycle's *)
(* performSync publishes the edits made before its last freshness check.   *)
(* Mobile stands for the options that the mobile applications set          *)
(* (mobile-sync-triggers.ts).                                              *)
(***************************************************************************)
EXTENDS Integers

CONSTANTS
    Mobile,              \* adaptive pacing, overtaken retries dropped, no heartbeat
    MinInterval,         \* cadence().minIntervalMs
    FocusMinInterval,    \* focusMinIntervalMs
    FocusDedupe,         \* FOCUS_TRIGGER_DEDUPE_MS
    DebounceFirst,       \* debounceFirstChangeMs
    DebounceContinuous,  \* debounceContinuousChangeMs
    CooldownBase,        \* autoFailureCooldownMs
    CooldownMax,         \* maxFailureCooldownMs
    RetryAfters,         \* the delays a backend may ask for; 0: it asks for none
    InitialDelay,        \* initialSyncDelayMs
    PeriodicInterval,    \* periodicSyncIntervalMs
    AdaptiveMultiplier,  \* adaptivePacing
    AdaptiveMax,
    Long                 \* the longest time that is told apart from longer ones

ASSUME TimesAssumption ==
    /\ Mobile \in BOOLEAN
    /\ RetryAfters \subseteq Nat
    /\ CooldownBase \in Nat \ {0} /\ CooldownMax \in Nat /\ CooldownBase <= CooldownMax
    /\ \A d \in {MinInterval, FocusMinInterval, FocusDedupe, DebounceFirst,
                 DebounceContinuous, InitialDelay, PeriodicInterval, AdaptiveMultiplier,
                 AdaptiveMax, Long} : d \in Nat
    /\ Long >= MinInterval /\ Long >= AdaptiveMax /\ Long > FocusMinInterval

VARIABLES
    debounce,        \* syncDebounceTimer
    throttle,        \* syncThrottleTimer, of the interval and of the cool-down
    initial,         \* initialSyncTimer
    periodic,        \* periodicSyncTimer
    sinceSync,       \* time since lastAutoSyncAt
    sinceFocus,      \* time since lastFocusTriggerAt
    cooldown,        \* time until autoSyncRetryAfter, or NoCooldown
    failures,        \* consecutiveAutoSyncFailures, as far as it lengthens the cool-down
    stretch,         \* the interval that lastCycleDurationMs stretches to
    cycle,           \* the cycle in flight
    queued,          \* its follow-up
    suspended,       \* isSuspended()
    requestedWhileSuspended,
    disposed,
    unsynced,        \* there are edits no running cycle will publish
    carried,         \* there are edits the running cycle will publish
    userWaits,       \* history: a user's request that no cycle has started for
    asked            \* history: the time the backend asked to be left alone, what is left of it

timers == <<debounce, initial, periodic>>
pacing == <<sinceSync, sinceFocus, cooldown, failures, stretch>>
work == <<unsynced, carried>>
vars == <<timers, throttle, pacing, cycle, queued, suspended, requestedWhileSuspended,
          disposed, work, userWaits, asked>>

NoTimer == -1
Fired == -2        \* the id of a debounce that has fired: not cleared on mobile
NoCooldown == -1   \* autoSyncRetryAfter = 0

Armed(timer) == timer >= 0

NoCycle == [phase |-> "none", manual |-> FALSE, since |-> 0, suspended |-> FALSE]
SettledCycle == [NoCycle EXCEPT !.phase = "settled"]
NoRequest == [min |-> -1, manual |-> FALSE]

Requests == [min : {0, MinInterval}, manual : BOOLEAN]

InFlight == cycle.phase # "none"

(* The cycle has yet to hear of its outcome, after which its start is of no  *)
(* more use.                                                                 *)
Reaching == cycle.phase \in {"gates", "syncing", "checked"}

Init ==
    /\ debounce = NoTimer
    /\ throttle = NoTimer
    /\ initial = IF Mobile THEN NoTimer ELSE InitialDelay
    /\ periodic = IF Mobile THEN NoTimer ELSE PeriodicInterval
    /\ sinceSync = Long
    /\ sinceFocus = Long
    /\ cooldown = NoCooldown
    /\ failures = 0
    /\ stretch = 0
    /\ cycle = NoCycle
    /\ queued = NoRequest
    /\ suspended = FALSE
    /\ requestedWhileSuspended = FALSE
    /\ disposed = FALSE
    /\ unsynced \in BOOLEAN
    /\ carried = FALSE
    /\ userWaits = FALSE
    /\ asked = 0

-----------------------------------------------------------------------------
(* Requests *)

Smaller(a, b) == IF a <= b THEN a ELSE b
Larger(a, b) == IF a >= b THEN a ELSE b

(* resolveEffectiveMinIntervalMs *)
EffectiveMinInterval(min) ==
    IF ~Mobile \/ min = 0 THEN min
    ELSE Larger(min, stretch)

Cooling(request) == ~request.manual /\ cooldown > 0

TooSoon(request) == sinceSync < EffectiveMinInterval(request.min)

(* The throttle timer is not replaced by a later wait. *)
ArmedFor(timer, wait) == IF Armed(timer) THEN timer ELSE wait

(* The first steps of runCycle, up to its first await.  `timer` is the       *)
(* throttle timer; the action that calls may just have cleared it.           *)
RunCycle(request, timer) ==
    \/ /\ Cooling(request)
       /\ throttle' = ArmedFor(timer, cooldown)
       /\ cycle' = NoCycle
       /\ UNCHANGED userWaits
    \/ /\ ~Cooling(request)
       /\ TooSoon(request)
       /\ throttle' = ArmedFor(timer, EffectiveMinInterval(request.min) - sinceSync)
       /\ cycle' = NoCycle
       /\ UNCHANGED userWaits
    \/ /\ ~Cooling(request)
       /\ ~TooSoon(request)
       /\ throttle' = timer
       /\ cycle' = [phase |-> "gates", manual |-> request.manual, since |-> 0,
                    suspended |-> suspended]
       /\ userWaits' = FALSE

(* autoSyncOrchestrator.run *)
Run(request, timer) ==
    IF InFlight
    THEN /\ queued' = request
         /\ throttle' = timer
         /\ userWaits' = (userWaits \/ request.manual)
         /\ UNCHANGED cycle
    ELSE RunCycle(request, timer) /\ UNCHANGED queued

(* requestAutoSync of an active runtime *)
RequestAutoSync(min, internalRetry, timer) ==
    /\ requestedWhileSuspended' = (requestedWhileSuspended \/ (suspended /\ InFlight))
    /\ IF internalRetry /\ Mobile /\ InFlight
       THEN throttle' = timer /\ UNCHANGED <<cycle, queued, userWaits>>
       ELSE IF cooldown > 0
       THEN throttle' = ArmedFor(timer, cooldown) /\ UNCHANGED <<cycle, queued, userWaits>>
       ELSE Run([min |-> min, manual |-> FALSE], timer)

(* requestSync(0): the user's *)
RequestSync ==
    /\ ~disposed
    /\ Run([min |-> 0, manual |-> TRUE], throttle)
    /\ UNCHANGED <<timers, pacing, suspended, requestedWhileSuspended, disposed, work, asked>>

-----------------------------------------------------------------------------
(* Triggers *)

(* A change of the store: handleDataChange.  Edits are what is to be synced. *)
Edit ==
    /\ ~disposed
    /\ unsynced' = TRUE
    /\ debounce' = IF debounce = NoTimer THEN DebounceFirst ELSE DebounceContinuous
    /\ UNCHANGED <<initial, periodic, throttle, pacing, cycle, queued, suspended,
                   requestedWhileSuspended, disposed, carried, userWaits, asked>>

DebounceFires ==
    /\ ~Mobile
    /\ debounce = 0
    /\ debounce' = NoTimer
    /\ RequestAutoSync(MinInterval, FALSE, throttle)
    /\ UNCHANGED <<initial, periodic, pacing, suspended, disposed, work, asked>>

ThrottleFires ==
    /\ throttle = 0
    /\ IF disposed
       THEN throttle' = NoTimer /\ UNCHANGED <<cycle, queued, requestedWhileSuspended, userWaits>>
       ELSE RequestAutoSync(0, TRUE, NoTimer)
    /\ UNCHANGED <<timers, pacing, suspended, disposed, work, asked>>

InitialFires ==
    /\ initial = 0
    /\ initial' = NoTimer
    /\ RequestAutoSync(MinInterval, FALSE, throttle)
    /\ UNCHANGED <<debounce, periodic, pacing, suspended, disposed, work, asked>>

(* Mutation of PeriodicFires: a heartbeat that goes by is the last one. *)
PeriodicEndsPaused(paused) ==
    /\ periodic = 0
    /\ periodic' = IF paused THEN NoTimer ELSE PeriodicInterval
    /\ IF paused THEN UNCHANGED <<throttle, cycle, queued, requestedWhileSuspended, userWaits>>
       ELSE RequestAutoSync(MinInterval, FALSE, throttle)
    /\ UNCHANGED <<debounce, initial, pacing, suspended, disposed, work, asked>>

(* The heartbeat; it only goes by while a task is being edited. *)
PeriodicFires(paused) ==
    /\ periodic = 0
    /\ periodic' = PeriodicInterval
    /\ IF paused THEN UNCHANGED <<throttle, cycle, queued, requestedWhileSuspended, userWaits>>
       ELSE RequestAutoSync(MinInterval, FALSE, throttle)
    /\ UNCHANGED <<debounce, initial, pacing, suspended, disposed, work, asked>>

HandleFocus ==
    /\ ~disposed
    /\ sinceFocus >= FocusDedupe
    /\ sinceSync > FocusMinInterval
    /\ sinceFocus' = 0
    /\ RequestAutoSync(MinInterval, FALSE, throttle)
    /\ UNCHANGED <<timers, sinceSync, cooldown, failures, stretch, suspended, disposed,
                   work, asked>>

HandleBlur ==
    /\ ~disposed
    /\ unsynced \/ carried
    /\ RequestAutoSync(MinInterval, FALSE, throttle)
    /\ UNCHANGED <<timers, pacing, suspended, disposed, work, asked>>

(* A cycle in flight goes on by itself. *)
Dispose ==
    /\ ~disposed
    /\ disposed' = TRUE
    /\ debounce' = NoTimer
    /\ throttle' = NoTimer
    /\ initial' = NoTimer
    /\ periodic' = NoTimer
    /\ queued' = NoRequest
    /\ userWaits' = FALSE
    /\ UNCHANGED <<pacing, cycle, suspended, requestedWhileSuspended, work, asked>>

-----------------------------------------------------------------------------
(* The rest of runCycle *)

GatesPass ==
    /\ cycle.phase = "gates"
    /\ cycle' = [cycle EXCEPT !.phase = "syncing"]
    /\ sinceSync' = cycle.since
    /\ UNCHANGED <<timers, throttle, sinceFocus, cooldown, failures, stretch, queued,
                   suspended, requestedWhileSuspended, disposed, work, userWaits, asked>>

(* syncEncryptionSuspension, of which the user's runs take no notice, or     *)
(* canSync; both are the desktop's.                                          *)
GatesStop ==
    /\ cycle.phase = "gates"
    /\ ~Mobile
    /\ cycle' = SettledCycle
    /\ UNCHANGED <<timers, throttle, pacing, queued, suspended, requestedWhileSuspended,
                   disposed, work, userWaits, asked>>

(* performSync checks for the last time that the store has not changed. *)
LastFreshnessCheck ==
    /\ cycle.phase = "syncing"
    /\ cycle' = [cycle EXCEPT !.phase = "checked"]
    /\ carried' = unsynced
    /\ unsynced' = FALSE
    /\ UNCHANGED <<timers, throttle, pacing, queued, suspended, requestedWhileSuspended,
                   disposed, userWaits, asked>>

(* Adaptive pacing at the end of a cycle: the interval counts from now, and  *)
(* a follow-up asked for in the background is left to the next trigger.      *)
AfterSync ==
    IF Mobile
    THEN /\ stretch' = Smaller(cycle.since * AdaptiveMultiplier, AdaptiveMax)
         /\ sinceSync' = 0
         /\ IF cycle.suspended /\ requestedWhileSuspended
            THEN requestedWhileSuspended' = FALSE /\ queued' = NoRequest
            ELSE /\ queued' = IF queued = NoRequest THEN NoRequest
                              ELSE [min |-> MinInterval, manual |-> FALSE]
                 /\ UNCHANGED requestedWhileSuspended
    ELSE UNCHANGED <<stretch, sinceSync, queued, requestedWhileSuspended>>

SyncSucceeds ==
    /\ cycle.phase = "checked"
    /\ carried' = FALSE
    /\ cooldown' = NoCooldown
    /\ failures' = 0
    /\ asked' = 0
    /\ throttle' = NoTimer
    /\ AfterSync
    /\ cycle' = SettledCycle
    /\ UNCHANGED <<timers, sinceFocus, suspended, disposed, unsynced, userWaits>>

(* Mutation of CooldownAfter: the ceiling is applied to the backend's wish. *)
CooldownCapped(attempt, retryAfter) ==
    Smaller(CooldownMax,
            (IF retryAfter = 0 THEN CooldownBase ELSE retryAfter) * 2 ^ (attempt - 1))

(* resolveSyncFailureCooldownMs *)
CooldownAfter(attempt, retryAfter) ==
    IF retryAfter = 0
    THEN Smaller(CooldownMax, CooldownBase * 2 ^ (attempt - 1))
    ELSE Smaller(Larger(CooldownMax, retryAfter), retryAfter * 2 ^ (attempt - 1))

(* Attempts beyond this one change no cool-down. *)
AttemptCap == CooldownMax

(* performSync answers with a failure or rejects: it carries nothing. *)
SyncGivesUp ==
    /\ cycle.phase \in {"syncing", "checked"}
    /\ cycle' = SettledCycle
    /\ unsynced' = (unsynced \/ carried)
    /\ carried' = FALSE

(* Mutation of SyncFails: a timer armed earlier is kept. *)
SyncFailsKeepsTimer(retryAfter) ==
    /\ SyncGivesUp
    /\ failures' = Smaller(failures + 1, AttemptCap)
    /\ cooldown' = Larger(cooldown, CooldownAfter(failures', retryAfter))
    /\ throttle' = ArmedFor(throttle, cooldown')
    /\ asked' = Larger(asked, retryAfter)
    /\ AfterSync
    /\ UNCHANGED <<timers, sinceFocus, suspended, disposed, userWaits>>

SyncFails(retryAfter) ==
    /\ SyncGivesUp
    /\ failures' = Smaller(failures + 1, AttemptCap)
    /\ cooldown' = Larger(cooldown, CooldownAfter(failures', retryAfter))
    /\ throttle' = cooldown'
    /\ asked' = Larger(asked, retryAfter)
    /\ AfterSync
    /\ UNCHANGED <<timers, sinceFocus, suspended, disposed, userWaits>>

(* isIgnorableFailure: the mobile device is offline. *)
SyncOffline ==
    /\ Mobile
    /\ SyncGivesUp
    /\ AfterSync
    /\ UNCHANGED <<timers, throttle, sinceFocus, cooldown, failures, suspended, disposed,
                   userWaits, asked>>

(* Mutation of Drain: the follow-up stays queued. *)
DrainKeepsQueue ==
    /\ cycle.phase = "settled"
    /\ IF disposed \/ queued = NoRequest
       THEN cycle' = NoCycle /\ UNCHANGED <<throttle, userWaits>>
       ELSE RunCycle(queued, throttle)
    /\ UNCHANGED <<timers, pacing, queued, suspended, requestedWhileSuspended, disposed, work, asked>>

(* The orchestrator's finally(): the follow-up starts, if one is queued. *)
Drain ==
    /\ cycle.phase = "settled"
    /\ queued' = NoRequest
    /\ IF disposed \/ queued = NoRequest
       THEN cycle' = NoCycle /\ UNCHANGED <<throttle, userWaits>>
       ELSE RunCycle(queued, throttle)
    /\ UNCHANGED <<timers, pacing, suspended, requestedWhileSuspended, disposed, work, asked>>

-----------------------------------------------------------------------------
(* Time *)

Less(time) == IF time > 0 THEN time - 1 ELSE time
More(time) == Smaller(time + 1, Long)

Tick ==
    /\ debounce' = Less(debounce)
    /\ throttle' = Less(throttle)
    /\ initial' = Less(initial)
    /\ periodic' = Less(periodic)
    /\ cooldown' = Less(cooldown)
    /\ asked' = Less(asked)
    /\ sinceSync' = More(sinceSync)
    /\ sinceFocus' = More(sinceFocus)
    /\ cycle' = IF Reaching THEN [cycle EXCEPT !.since = More(@)] ELSE cycle
    /\ UNCHANGED <<failures, stretch, queued, suspended, requestedWhileSuspended,
                   disposed, work, userWaits>>

DesktopNext ==
    \/ Edit
    \/ DebounceFires
    \/ ThrottleFires
    \/ InitialFires
    \/ \E paused \in BOOLEAN : PeriodicFires(paused)
    \/ HandleFocus
    \/ HandleBlur
    \/ RequestSync
    \/ Dispose
    \/ GatesPass
    \/ GatesStop
    \/ LastFreshnessCheck
    \/ SyncSucceeds
    \/ \E retryAfter \in RetryAfters : SyncFails(retryAfter)
    \/ Drain
    \/ Tick

(* Time passes, timers fire, cycles go on; the editor is closed, the backend *)
(* reachable and a sync successful again and again.                          *)
DesktopFairness ==
    /\ WF_vars(Tick)
    /\ WF_vars(ThrottleFires)
    /\ WF_vars(DebounceFires)
    /\ WF_vars(\E paused \in BOOLEAN : PeriodicFires(paused))
    /\ SF_vars(PeriodicFires(FALSE))
    /\ SF_vars(GatesPass)
    /\ SF_vars(LastFreshnessCheck)
    /\ SF_vars(SyncSucceeds)
    /\ WF_vars(Drain)

DesktopSpec == Init /\ [][DesktopNext]_vars /\ DesktopFairness

-----------------------------------------------------------------------------
(* No failure holds the controller back longer than the ceiling, or than a   *)
(* backend asked for, and no timer is armed for longer than the interval.    *)
WithinCooldown(time) == time <= CooldownMax \/ \E delay \in RetryAfters : time <= delay
WithinWait(time) == WithinCooldown(time) \/ time <= MinInterval \/ time <= AdaptiveMax

(* The controller's state is well formed: only one cycle and one follow-up,  *)
(* no follow-up without a cycle, no wait beyond what was asked for.          *)
TypeOK ==
    /\ debounce \in -2..Larger(DebounceFirst, DebounceContinuous)
    /\ throttle \in Int /\ throttle >= -1 /\ WithinWait(throttle)
    /\ initial \in -1..InitialDelay
    /\ periodic \in -1..PeriodicInterval
    /\ sinceSync \in 0..Long
    /\ sinceFocus \in 0..Long
    /\ cooldown \in Int /\ cooldown >= -1 /\ WithinCooldown(cooldown)
    /\ failures \in 0..AttemptCap
    /\ stretch \in 0..AdaptiveMax
    /\ cycle \in [phase : {"none", "gates", "syncing", "checked", "settled"},
                  manual : BOOLEAN, since : 0..Long, suspended : BOOLEAN]
    /\ queued \in Requests \cup {NoRequest}
    /\ queued # NoRequest => InFlight
    /\ {suspended, requestedWhileSuspended, disposed, unsynced, carried, userWaits}
           \subseteq BOOLEAN
    /\ asked \in Nat

(* "Never retry sooner than CloudKit asked": whatever timer, follow-up or    *)
(* trigger it comes from, an automatic cycle that reaches the backend does   *)
(* so after the delay the backend asked for.                                 *)
NeverSoonerThanAsked ==
    cycle.phase \in {"gates", "syncing", "checked"} /\ ~cycle.manual => asked = 0

(* "Arm the retry now instead of waiting for another edit, focus change, or  *)
(* heartbeat to discover the cooldown": while a cool-down lasts the retry is *)
(* armed for its end, whatever was armed, cleared or requested meanwhile.    *)
RetryArmed == cooldown > 0 /\ ~disposed => throttle = cooldown

(* AutoSyncController.requestSync, "A user-initiated run: bypasses the       *)
(* failure cooldown": a user's request always has a cycle to wait for.       *)
(* A claim the code does not keep (README, section 4); no run checks it.     *)
UserRunNotHeldBack == userWaits => InFlight

(* "A manual run can recover before a scheduled automatic retry. Its         *)
(* successful cycle already includes the pending local work."                *)
(* A claim the code does not keep (README, section 4); no run checks it.     *)
RecoveryIncludesPending ==
    [][SyncSucceeds /\ Armed(throttle) /\ unsynced => Armed(debounce) \/ queued # NoRequest]_vars

(* If the edits stop, all of them are published in the end: debounce, pacing,*)
(* cool-down, pauses and failed gates delay a sync but lose none.            *)
EditsSynced ==
    \/ []<><<Edit>>_vars
    \/ <>disposed
    \/ <>[](~unsynced /\ ~carried)

(* The pacing of the controller: whatever arms, replaces or clears a timer,  *)
(* no automatic run comes sooner than asked for, and a failure's retry stays *)
(* armed for the end of its cool-down.                                       *)
ControllerInv == TypeOK /\ NeverSoonerThanAsked /\ RetryArmed
=============================================================================
