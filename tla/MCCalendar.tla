----------------------------- MODULE MCCalendar -----------------------------
(***************************************************************************)
(* The calendar on the device, with its two machines side by side: the     *)
(* making, recolouring and deleting of Mindwtr's own calendar              *)
(* (MindwtrCalendar), and the push of tasks into the calendar that is      *)
(* there (CalendarPush).  The machine of a behaviour is chosen at its      *)
(* start.                                                                  *)
(***************************************************************************)
EXTENDS MindwtrCalendar

CONSTANTS c1, c2, c3, blue, green, t1, t2, k1, k2

MCCalls == {c1, c2, c3}
MCColors == {blue, green}
AllOps == {"sync", "color", "delete"}

(* Three operations at once, two with failures and deaths of the app, on    *)
(* both systems; two recolorings on Android; iOS without deletions.         *)
AndroidTogether ==
  [os |-> "android", ops |-> AllOps, colors |-> {green}, calls |-> MCCalls,
   made |-> 3, faults |-> 0, removals |-> 0]
AndroidFaults ==
  [os |-> "android", ops |-> {"sync", "delete"}, colors |-> {}, calls |-> {c1, c2},
   made |-> 3, faults |-> 2, removals |-> 1]
AndroidColors ==
  [os |-> "android", ops |-> {"sync", "color"}, colors |-> MCColors, calls |-> {c1, c2},
   made |-> 3, faults |-> 0, removals |-> 0]
IosTogether == [AndroidTogether EXCEPT !.os = "ios"]
IosFaults ==
  [os |-> "ios", ops |-> AllOps, colors |-> MCColors, calls |-> {c1, c2},
   made |-> 2, faults |-> 2, removals |-> 1]
IosPush ==
  [os |-> "ios", ops |-> {"sync"}, colors |-> {}, calls |-> {c1, c2},
   made |-> 3, faults |-> 2, removals |-> 0]

MCPhones == {AndroidTogether, AndroidFaults, AndroidColors, IosTogether, IosFaults, IosPush}

-----------------------------------------------------------------------------
MCTasks == {t1, t2}
MCCalendars == {k1, k2}
AnyCall == {"update", "drop", "forget", "create", "record", "crash"}

Deaths == [failing |-> {"crash"}, edits |-> 2, faults |-> 1, choices |-> 1, gone |-> 0]
Failures == [failing |-> AnyCall, edits |-> 1, faults |-> 2, choices |-> 1, gone |-> 1]
Vanishing == [failing |-> AnyCall, edits |-> 2, faults |-> 1, choices |-> 0, gone |-> 1]

MCUses == {Deaths, Failures, Vanishing}

VARIABLES
    pStore, pEvents, pEntries, pEnabled, pTarget, pWatching, pChanged,
    pTimer, pQueue, pRun, pCreated, pOrphans, pClean, pUse, pEdits, pFaults,
    pChoices, pGone

Push ==
    INSTANCE CalendarPush WITH
        Tasks <- MCTasks, Calendars <- MCCalendars, Uses <- MCUses,
        store <- pStore, events <- pEvents, entries <- pEntries,
        enabled <- pEnabled, target <- pTarget, watching <- pWatching,
        changed <- pChanged, timer <- pTimer, queue <- pQueue, run <- pRun,
        created <- pCreated, orphans <- pOrphans, clean <- pClean,
        use <- pUse, edits <- pEdits, faults <- pFaults, choices <- pChoices,
        gone <- pGone

ASSUME MCPushAssumption == Push!PushConstants

-----------------------------------------------------------------------------
VARIABLE machine

pushVars ==
    <<pStore, pEvents, pEntries, pEnabled, pTarget, pWatching, pChanged,
      pTimer, pQueue, pRun, pCreated, pOrphans, pClean, pUse, pEdits,
      pFaults, pChoices, pGone>>
allVars == <<vars, pushVars, machine>>

CalendarInit ==
    /\ machine \in {"calendar", "push"}
    /\ Init /\ (machine = "push" => phone = IosPush)
    /\ Push!Init /\ (machine = "calendar" => pUse = Deaths /\ pTarget = k1)

CalendarNext ==
    \/ machine = "calendar" /\ Next /\ UNCHANGED <<pushVars, machine>>
    \/ machine = "push" /\ Push!Next /\ UNCHANGED <<vars, machine>>

(* The fairness of each machine, of its own steps. *)
CalendarFairness ==
    /\ \A c \in Calls : WF_vars(machine = "calendar" /\ Step(c) /\ UNCHANGED phone)
    /\ WF_vars(machine = "calendar" /\ Repeat /\ UNCHANGED phone)
    /\ WF_pushVars(machine = "push" /\ Push!Scheduled /\ UNCHANGED pUse)
    /\ WF_pushVars(machine = "push" /\ Push!Works /\ UNCHANGED pUse)

CalendarSpec == CalendarInit /\ [][CalendarNext]_allVars /\ CalendarFairness

-----------------------------------------------------------------------------
(* The properties of CalendarPush, under the names the run uses.            *)

(* No event of a task is out of reach of its row, and none is doubled. *)
PushInv == Push!PushInv

(* An undisturbed full run makes the calendar agree with the store. *)
FullRunRepairs == Push!FullRunRepairs

(* Edits reach the calendar in the end. *)
Mirrors == Push!Mirrors
=============================================================================
