---------------------------- MODULE CalendarPush ----------------------------
(***************************************************************************)
(* The push of tasks into a device calendar.  A watcher of the store       *)
(* collects the tasks that changed, a debounce timer puts a partial run of *)
(* them on the queue, and a start of the app, switching the push on and a  *)
(* new target calendar each put a full run there.  Runs are serialized; a  *)
(* run works on the tasks as they were when it began, several at a time,   *)
(* one call of the device or of the map of pushed events per step.         *)
(*                                                                         *)
(* A task is a version and whether it belongs into the calendar, does not, *)
(* or is no longer in the store.  The calendar itself (MindwtrCalendar)    *)
(* and the projected occurrence of a recurring task, which is pushed like  *)
(* a task, are left out.                                                   *)
(***************************************************************************)
EXTENDS Integers, FiniteSets, Sequences

CONSTANTS
  Tasks,
  Calendars,   \* the calendars a user may choose
  None,
  Uses         \* what may happen to it, see IsUse

(* The calls that may fail, or "crash", and the bounds: edits, failures,   *)
(* changes of the settings, events the user deletes.                       *)
IsUse(u) ==
  /\ u.failing \subseteq {"update", "drop", "forget", "create", "record", "crash"}
  /\ u.edits \in Nat /\ u.faults \in Nat /\ u.choices \in Nat /\ u.gone \in Nat

PushConstants == \A u \in Uses : IsUse(u)

VARIABLES
  store,     \* the tasks
  events,    \* the events on the device: id, task, version, calendar
  entries,   \* the calendar_sync rows: the event and the calendar of a task
  enabled, target,
  watching,  \* the store subscription is on
  changed, timer,
  queue,     \* the runs to come: full, or of some tasks
  run,       \* the run in progress, or None
  created,   \* events created so far
  orphans,   \* events whose creation was not recorded
  clean,     \* nothing failed and nothing changed since the run began
  use,       \* the member of Uses at hand
  edits, faults, choices, gone

vars == <<store, events, entries, enabled, target, watching, changed, timer, queue, run,
          created, orphans, clean, use, edits, faults, choices, gone>>

device == <<events, entries, created, orphans>>
settings == <<enabled, target, watching, choices>>

Statuses == {"pushed", "other", "absent"}

Full == [full |-> TRUE, ids |-> {}]
Partial(ids) == [full |-> FALSE, ids |-> ids]

Init ==
  /\ use \in Uses
  /\ store = [t \in Tasks |-> [version |-> 0, status |-> "absent"]]
  /\ events = {}
  /\ entries = [t \in Tasks |-> None]
  /\ enabled = TRUE
  /\ target \in Calendars
  /\ watching = TRUE
  /\ changed = {}
  /\ timer = FALSE
  /\ queue = <<Full>>
  /\ run = None
  /\ created = 0
  /\ orphans = {}
  /\ clean = TRUE
  /\ edits = 0 /\ faults = 0 /\ choices = 0 /\ gone = 0

----------------------------------------------------------------------------
(* The watcher, the debounce timer and the queue.                          *)

(* A task is edited, completed, reopened or removed; the watcher sees it.  *)
Edit(t, status) ==
  /\ edits < use.edits
  /\ edits' = edits + 1
  /\ store' = [store EXCEPT ![t] = [version |-> edits + 1, status |-> status]]
  /\ changed' = IF watching THEN changed \cup {t} ELSE changed
  /\ timer' = (timer \/ watching)
  /\ clean' = FALSE
  /\ UNCHANGED <<device, settings, queue, run, faults, gone>>

(* Mutation of TimerFires: changes due during a run are dropped. *)
TimerFiresIdle ==
  /\ timer
  /\ timer' = FALSE
  /\ queue' = IF run = None THEN Append(queue, Partial(changed)) ELSE queue
  /\ changed' = {}
  /\ UNCHANGED <<store, device, settings, run, clean, edits, faults, gone>>

TimerFires ==
  /\ timer
  /\ timer' = FALSE
  /\ queue' = Append(queue, Partial(changed))
  /\ changed' = {}
  /\ UNCHANGED <<store, device, settings, run, clean, edits, faults, gone>>

(* Mutation of SwitchOff: the timer goes on. *)
SwitchOffPending ==
  /\ enabled /\ choices < use.choices
  /\ enabled' = FALSE
  /\ watching' = FALSE
  /\ choices' = choices + 1
  /\ UNCHANGED <<store, device, target, queue, run, changed, timer, clean, edits, faults, gone>>

SwitchOff ==
  /\ enabled /\ choices < use.choices
  /\ enabled' = FALSE
  /\ watching' = FALSE
  /\ changed' = {}
  /\ timer' = FALSE
  /\ choices' = choices + 1
  /\ UNCHANGED <<store, device, target, queue, run, clean, edits, faults, gone>>

SwitchOn ==
  /\ ~enabled
  /\ enabled' = TRUE
  /\ watching' = TRUE
  /\ queue' = Append(queue, Full)
  /\ UNCHANGED <<store, device, target, choices, changed, timer, run, clean, edits, faults, gone>>

ChooseTarget(c) ==
  /\ c # target /\ choices < use.choices
  /\ target' = c
  /\ queue' = IF enabled THEN Append(queue, Full) ELSE queue
  /\ choices' = choices + 1
  /\ clean' = FALSE
  /\ UNCHANGED <<store, device, enabled, watching, changed, timer, run, edits, faults, gone>>

----------------------------------------------------------------------------
(* A run: the store, the target and, for a full run, the map are read when *)
(* it begins.  job[t] is the next step for the task, event[t] the event to *)
(* record.                                                                 *)

shouldRemove(task) == task.status # "pushed"

Scope(job) == IF job.full THEN {t \in Tasks : store[t].status # "absent"} ELSE job.ids

Begins(full, scope) ==
  [full |-> full, stale |-> FALSE, target |-> target, tasks |-> store, map |-> entries,
   job |-> [t \in Tasks |-> IF t \in scope THEN "begin" ELSE "done"],
   event |-> [t \in Tasks |-> None]]

Begin ==
  /\ run = None /\ queue # <<>>
  /\ queue' = Tail(queue)
  /\ run' = IF enabled THEN Begins(Head(queue).full, Scope(Head(queue))) ELSE None
  /\ clean' = Head(queue).full
  /\ UNCHANGED <<store, device, settings, changed, timer, edits, faults, gone>>

Entry(t) == IF run.full /\ ~run.stale THEN run.map[t] ELSE entries[t]
Removing(t) == run.stale \/ shouldRemove(run.tasks[t])

At(t, step) == run # None /\ run.job[t] = step
Goes(t, step) == run' = [run EXCEPT !.job[t] = step]

(* Mutation of FirstStep: the event in the old calendar stays. *)
FirstStepNew(t) ==
  IF Removing(t) THEN IF Entry(t) = None THEN "done" ELSE "drop"
  ELSE IF Entry(t) # None /\ Entry(t).calendar = run.target THEN "update" ELSE "create"

(* syncCalendarPushTask and removeCalendarTask: what there is to do.  An   *)
(* event in another calendar is dropped first, like one to be removed.     *)
FirstStep(t) ==
  IF Removing(t) THEN IF Entry(t) = None THEN "done" ELSE "drop"
  ELSE IF Entry(t) = None THEN "create"
  ELSE IF Entry(t).calendar = run.target THEN "update" ELSE "drop"

Plan(t) ==
  /\ At(t, "begin")
  /\ Goes(t, FirstStep(t))
  /\ UNCHANGED <<store, device, settings, changed, timer, queue, clean, edits, faults, gone>>

(* A call has its effect; then the next one follows, or it fails all the   *)
(* same and the task is left as it is.                                     *)
Call(t, step, next) ==
  /\ At(t, step)
  /\ \/ run' = next /\ UNCHANGED <<clean, faults>>
     \/ /\ step \in use.failing /\ faults < use.faults
        /\ Goes(t, "done")
        /\ faults' = faults + 1
        /\ clean' = FALSE
  /\ UNCHANGED <<store, settings, changed, timer, queue, edits, gone>>

Then(t, step, event) == [run EXCEPT !.job[t] = step, !.event[t] = event]

(* An event that is missing is created again instead of updated.           *)
Update(t) ==
  LET old == {e \in events : e.id = Entry(t).event} IN
  /\ Call(t, "update", IF old = {} THEN Then(t, "forget", None)
                                   ELSE Then(t, "record", Entry(t).event))
  /\ events' = (events \ old) \cup {[e EXCEPT !.version = run.tasks[t].version] : e \in old}
  /\ UNCHANGED <<entries, created, orphans>>

(* An event that is missing counts as deleted.                             *)
Drop(t) ==
  /\ Call(t, "drop", Then(t, "forget", None))
  /\ events' = {e \in events : e.id # Entry(t).event}
  /\ UNCHANGED <<entries, created, orphans>>

Forget(t) ==
  /\ Call(t, "forget", Then(t, IF Removing(t) THEN "done" ELSE "create", None))
  /\ entries' = [entries EXCEPT ![t] = None]
  /\ UNCHANGED <<events, created, orphans>>

Create(t) ==
  /\ Call(t, "create", Then(t, "record", created + 1))
  /\ created' = created + 1
  /\ events' = events \cup {[id |-> created + 1, task |-> t, version |-> run.tasks[t].version,
                             calendar |-> run.target]}
  /\ orphans' = orphans \cup {created + 1}
  /\ UNCHANGED entries

Record(t) ==
  /\ Call(t, "record", Then(t, "done", None))
  /\ entries' = [entries EXCEPT ![t] = [event |-> run.event[t], calendar |-> run.target]]
  /\ orphans' = orphans \ {run.event[t]}
  /\ UNCHANGED <<events, created>>

(* A call fails without effect.                                            *)
CallFails(t) ==
  /\ run # None /\ run.job[t] \in use.failing /\ faults < use.faults
  /\ Goes(t, "done")
  /\ faults' = faults + 1
  /\ clean' = FALSE
  /\ UNCHANGED <<store, device, settings, changed, timer, queue, edits, gone>>

(* A full run then removes the rows of tasks it did not push.              *)
Worked == run # None /\ \A t \in Tasks : run.job[t] = "done"

(* Mutation of Stale: rows the run did not push stay. *)
StaleNever(t) == FALSE

Stale(t) == entries[t] # None /\ shouldRemove(run.tasks[t])

RemoveStale ==
  /\ Worked /\ run.full /\ ~run.stale
  /\ run' = [run EXCEPT !.stale = TRUE,
                        !.job = [t \in Tasks |-> IF Stale(t) THEN "begin" ELSE "done"]]
  /\ UNCHANGED <<store, device, settings, changed, timer, queue, clean, edits, faults, gone>>

Finish ==
  /\ Worked /\ (run.full => run.stale)
  /\ run' = None
  /\ UNCHANGED <<store, device, settings, changed, timer, queue, clean, edits, faults, gone>>

----------------------------------------------------------------------------
(* The device.                                                             *)

(* The user deletes an event in the calendar app.                          *)
EventGone ==
  /\ gone < use.gone
  /\ \E e \in events : events' = events \ {e}
  /\ gone' = gone + 1
  /\ clean' = FALSE
  /\ UNCHANGED <<store, entries, created, orphans, settings, changed, timer, queue, run, edits,
                 faults>>

(* The app dies and starts again: with the push on, it watches the store   *)
(* and makes a full run.                                                   *)
Restart ==
  /\ "crash" \in use.failing /\ faults < use.faults
  /\ faults' = faults + 1
  /\ watching' = enabled
  /\ queue' = IF enabled THEN <<Full>> ELSE <<>>
  /\ changed' = {}
  /\ timer' = FALSE
  /\ run' = None
  /\ clean' = FALSE
  /\ UNCHANGED <<store, device, enabled, target, choices, edits, gone>>

----------------------------------------------------------------------------
Sync(t) == Plan(t) \/ Update(t) \/ Drop(t) \/ Forget(t) \/ Create(t) \/ Record(t)

Choose == SwitchOff \/ SwitchOn \/ \E c \in Calendars : ChooseTarget(c)

Next ==
  /\ \/ \E t \in Tasks : Sync(t) \/ CallFails(t) \/ \E status \in Statuses : Edit(t, status)
     \/ TimerFires \/ Begin \/ RemoveStale \/ Finish
     \/ Choose \/ EventGone \/ Restart
  /\ UNCHANGED use

(* The timer fires, the queue goes on and the device answers.              *)
Scheduled == TimerFires \/ Begin
Works == RemoveStale \/ Finish \/ \E t \in Tasks : Sync(t)
Fairness == WF_vars(Scheduled /\ UNCHANGED use) /\ WF_vars(Works /\ UNCHANGED use)

Spec == Init /\ [][Next]_vars /\ Fairness

----------------------------------------------------------------------------
(* Properties                                                              *)

(* The types; tasks wait only while the timer runs, and the timer only     *)
(* while the store is watched, which it is while the push is on            *)
(* (cancelPending, stopCalendarPushSync).                                  *)
TypeOK ==
  /\ \A t \in Tasks : store[t].status \in Statuses /\ store[t].version \in 0..edits
  /\ \A e \in events : e.id \in 1..created /\ e.task \in Tasks /\ e.calendar \in Calendars
  /\ \A t \in Tasks : entries[t] # None => entries[t].event \in 1..created
  /\ orphans \subseteq 1..created
  /\ changed # {} => timer
  /\ timer => watching
  /\ watching = enabled

Of(t) == {e \in events : e.task = t}

(* An event on the device is the one its task is mapped to, unless its     *)
(* creation was cut short before it was recorded: no event is out of       *)
(* reach, and neither two runs, nor a call that fails, nor a new target    *)
(* calendar makes a second one (createCalendarPushScheduler,               *)
(* syncCalendarPushTask).                                                  *)
EventsFindable ==
  \A e \in events : e.id \notin orphans => entries[e.task] # None /\ entries[e.task].event = e.id

Mirrored ==
  \A t \in Tasks :
    LET own == {e \in Of(t) : e.id \notin orphans} IN
    IF shouldRemove(store[t]) THEN own = {} /\ entries[t] = None
    ELSE \E e \in own : e.version = store[t].version /\ e.calendar = target

(* Whatever earlier failures, deaths and edits left behind, one full run   *)
(* during which nothing fails or changes makes the calendar agree with the *)
(* store (runCalendarPushFullSync).                                        *)
FullRunRepairs == [][Finish /\ run.full /\ clean => Mirrored']_vars

(* Edits, also those made during a run or before a death of the app, reach *)
(* the calendar (startCalendarPushSync, scheduleDebounced).                *)
Mirrors == <>[](enabled /\ use.failing \subseteq {"crash"} /\ use.gone = 0 => Mirrored)

(* The scheduler's work and the map of events, between any two calls.        *)
PushInv == TypeOK /\ EventsFindable
============================================================================
