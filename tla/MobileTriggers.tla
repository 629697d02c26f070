--------------------------- MODULE MobileTriggers ---------------------------
(***************************************************************************)
(* packages/core/src/mobile-sync-triggers.ts around the controller: the    *)
(* application goes to the background and comes back, aborts the cycle in  *)
(* flight, and asks for a sync only if the payload changed.                *)
(*                                                                         *)
(* The sync service runs on its own, too: the user's button, and the       *)
(* follow-up of an aborted cycle (mobile-sync-service.ts); the controller  *)
(* hears only of their successes.                                          *)
(***************************************************************************)
EXTENDS AutoSync

CONSTANTS
    ForegroundMinInterval,   \* foregroundMinIntervalMs
    AppStateDedupe           \* APP_STATE_TRIGGER_DEDUPE_MS

ASSUME MobileAssumption ==
    /\ ForegroundMinInterval \in Nat /\ AppStateDedupe \in Nat
    /\ ForegroundMinInterval < Long /\ AppStateDedupe <= Long

VARIABLES
    seen,           \* lastAutoSyncPayloadFingerprint is that of the present payload
    sinceTrigger,   \* time since lastAppStateSyncTriggerAt
    firing,         \* a debounced change awaits refreshCadence
    resuming,       \* so does the check of a resume
    aborted         \* the cycle in flight was aborted

triggers == <<seen, sinceTrigger, firing, resuming, aborted>>
mobileVars == <<vars, triggers>>

MobileInit ==
    /\ Init
    /\ seen = TRUE
    /\ sinceTrigger = AppStateDedupe
    /\ firing = FALSE
    /\ resuming = FALSE
    /\ aborted = FALSE

MobileEdit ==
    /\ Edit
    /\ seen' = FALSE
    /\ UNCHANGED <<sinceTrigger, firing, resuming, aborted>>

(* The debounce keeps its id, and syncs only a payload not seen before. *)
MobileDebounceFires ==
    /\ debounce = 0
    /\ debounce' = Fired
    /\ firing' = (firing \/ ~seen)
    /\ seen' = TRUE
    /\ UNCHANGED <<initial, periodic, throttle, pacing, cycle, queued, suspended,
                   requestedWhileSuspended, disposed, work, userWaits, asked, sinceTrigger,
                   resuming, aborted>>

FireDebounced ==
    /\ firing
    /\ firing' = FALSE
    /\ RequestAutoSync(MinInterval, FALSE, throttle)
    /\ UNCHANGED <<timers, pacing, suspended, disposed, work, asked, seen, sinceTrigger,
                   resuming, aborted>>

(* Mutation of Dedupes: a payload seen before is never asked for again. *)
DedupesForEver == seen

(* shouldDedupeAppStateSyncTrigger *)
Dedupes == seen /\ sinceTrigger < AppStateDedupe

(* handleSuspend drops the timers of pacing, not that of a failure's retry. *)
AfterSuspend == IF cooldown = NoCooldown THEN NoTimer ELSE throttle

Leave(timer) ==
    /\ ~suspended
    /\ suspended' = TRUE
    /\ debounce' = NoTimer
    /\ aborted' = (aborted \/ cycle.phase \in {"syncing", "checked"})
    /\ seen' = TRUE
    /\ IF Dedupes
       THEN /\ throttle' = timer
            /\ UNCHANGED <<cycle, queued, requestedWhileSuspended, userWaits, sinceTrigger>>
       ELSE /\ RequestAutoSync(0, FALSE, timer)
            /\ sinceTrigger' = 0
    /\ UNCHANGED <<initial, periodic, pacing, disposed, work, asked, firing, resuming>>

(* Leaving the foreground. *)
AppLeaves == Leave(AfterSuspend)

(* Coming back: a request from the background runs now, otherwise the        *)
(* interval is checked once the cadence is known.  appState is assigned      *)
(* last: the request counts as one from the background itself, and is        *)
(* remembered again while a cycle is in flight.                              *)
AppResumes ==
    /\ suspended
    /\ suspended' = FALSE
    /\ IF requestedWhileSuspended
       THEN /\ requestedWhileSuspended' = InFlight
            /\ IF cooldown > 0
               THEN throttle' = ArmedFor(throttle, cooldown) /\ UNCHANGED <<cycle, queued, userWaits>>
               ELSE Run([min |-> 0, manual |-> FALSE], throttle)
            /\ UNCHANGED resuming
       ELSE /\ resuming' = TRUE
            /\ UNCHANGED <<throttle, cycle, queued, requestedWhileSuspended, userWaits>>
    /\ UNCHANGED <<timers, pacing, disposed, work, asked, seen, sinceTrigger, firing, aborted>>

CheckResume ==
    /\ resuming
    /\ resuming' = FALSE
    /\ IF sinceSync <= ForegroundMinInterval
       THEN UNCHANGED <<throttle, cycle, queued, requestedWhileSuspended, userWaits, seen, sinceTrigger>>
       ELSE /\ seen' = TRUE
            /\ IF Dedupes
               THEN UNCHANGED <<throttle, cycle, queued, requestedWhileSuspended, userWaits, sinceTrigger>>
               ELSE RequestAutoSync(0, FALSE, throttle) /\ sinceTrigger' = 0
    /\ UNCHANGED <<timers, pacing, suspended, disposed, work, asked, firing, aborted>>

(* handleCloudKitChange, and a request at start-up or back on line. *)
ExternalRequest(min) ==
    /\ RequestAutoSync(min, FALSE, throttle)
    /\ UNCHANGED <<timers, pacing, suspended, disposed, work, asked, seen, sinceTrigger,
                   firing, resuming, aborted>>

(* An aborted cycle reports success and leaves its edits to a follow-up of   *)
(* the service's own.                                                        *)
SyncAborted ==
    /\ aborted
    /\ SyncGivesUp
    /\ cooldown' = NoCooldown
    /\ failures' = 0
    /\ asked' = 0
    /\ throttle' = NoTimer
    /\ AfterSync
    /\ UNCHANGED <<timers, sinceFocus, suspended, disposed, userWaits, seen, sinceTrigger,
                   firing, resuming, aborted>>

(* notifyExternalSyncSuccess, after a sync that the controller did not start;*)
(* it may or may not have seen the latest edit.                              *)
ExternalSyncSucceeds(sawEdits) ==
    /\ unsynced' = (unsynced /\ ~sawEdits)
    /\ cooldown' = NoCooldown
    /\ failures' = 0
    /\ asked' = 0
    /\ throttle' = NoTimer
    /\ UNCHANGED <<timers, sinceSync, sinceFocus, stretch, cycle, queued, suspended,
                   requestedWhileSuspended, disposed, carried, userWaits, seen, sinceTrigger,
                   firing, resuming, aborted>>

(* The controller's steps that the triggers only look on at. *)
ControllerStep ==
    /\ \/ ThrottleFires
       \/ GatesPass
       \/ LastFreshnessCheck
       \/ SyncSucceeds
       \/ \E retryAfter \in RetryAfters : SyncFails(retryAfter)
       \/ SyncOffline
    /\ UNCHANGED triggers

MobileDrain ==
    /\ Drain
    /\ aborted' = FALSE
    /\ UNCHANGED <<seen, sinceTrigger, firing, resuming>>

MobileTick ==
    /\ Tick
    /\ sinceTrigger' = Smaller(sinceTrigger + 1, AppStateDedupe)
    /\ UNCHANGED <<seen, firing, resuming, aborted>>

MobileNext ==
    \/ MobileEdit
    \/ MobileDebounceFires
    \/ FireDebounced
    \/ AppLeaves
    \/ AppResumes
    \/ CheckResume
    \/ \E min \in {0, MinInterval} : ExternalRequest(min)
    \/ SyncAborted
    \/ \E sawEdits \in BOOLEAN : ExternalSyncSucceeds(sawEdits)
    \/ ControllerStep
    \/ MobileDrain
    \/ MobileTick

(* As on the desktop; instead of a heartbeat, the application is left and    *)
(* resumed again and again.                                                  *)
MobileFairness ==
    /\ WF_mobileVars(MobileTick)
    /\ WF_mobileVars(ThrottleFires /\ UNCHANGED triggers)
    /\ WF_mobileVars(MobileDebounceFires)
    /\ WF_mobileVars(FireDebounced)
    /\ SF_mobileVars(AppLeaves)
    /\ SF_mobileVars(AppResumes)
    /\ WF_mobileVars(CheckResume)
    /\ WF_mobileVars(GatesPass /\ UNCHANGED triggers)
    /\ SF_mobileVars(LastFreshnessCheck /\ UNCHANGED triggers)
    /\ SF_mobileVars(SyncSucceeds /\ UNCHANGED triggers)
    /\ WF_mobileVars(MobileDrain)

MobileSpec == MobileInit /\ [][MobileNext]_mobileVars /\ MobileFairness

-----------------------------------------------------------------------------
(* AutoSyncControllerOptions.isSuspended: "A request that arrives while a    *)
(* cycle started in that state is remembered but not chained onto", and      *)
(* takePendingSuspendedRequest: "Mobile runs it on the next foreground".     *)
(* A request that has not run yet stays remembered, or queued.               *)
(* A claim the code does not keep (README, section 4); no run checks it.     *)
RememberedUntilRun ==
    [][requestedWhileSuspended /\ queued # NoRequest =>
           requestedWhileSuspended' \/ queued' # NoRequest]_mobileVars

=============================================================================
