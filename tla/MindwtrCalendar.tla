-------------------------- MODULE MindwtrCalendar --------------------------
(***************************************************************************)
(* The calendar Mindwtr makes on a phone, and owns: created by a push run, *)
(* recoloured and deleted from the settings screen.  Three promises        *)
(* (pendingEnsure, pendingDelete, pendingColor) order the operations, and  *)
(* a note on disk, written before the calendar is created, lets a later    *)
(* run finish a creation the first one did not.                            *)
(*                                                                         *)
(* Every step is one call of the device or of its storage, after which     *)
(* another operation may run, and which may fail, with or without its      *)
(* effect, or be the last before the app dies.  The events pushed, the     *)
(* calendar chosen by the user and the sandbox are left out; a source for  *)
(* new calendars that is missing is a failing list of calendars.           *)
(***************************************************************************)
EXTENDS Integers, FiniteSets, Sequences

CONSTANTS
  Calls,       \* at most this many calls at a time
  Colors,
  FirstColor,  \* the colour stored at first
  None,
  Phones       \* phones and what is done with them, see IsPhone

(* The system, the operations used, the calls at a time, the colours       *)
(* picked, and the bounds: calendars created, failing calls and deaths of  *)
(* the app, times the user deletes the calendar in another app.            *)
IsPhone(p) ==
  /\ p.os \in {"android", "ios"}
  /\ p.ops \subseteq {"sync", "color", "delete"}
  /\ p.calls \subseteq Calls /\ p.colors \subseteq Colors
  /\ p.made \in Nat /\ p.faults \in Nat /\ p.removals \in Nat

ASSUME CalendarAssumption == FirstColor \in Colors /\ \A p \in Phones : IsPhone(p)

VARIABLES
  cals,     \* the calendars of the device, by identifier
  made,     \* the calendars created so far: the last identifier and marker
  disk,     \* calendar-id, pending-calendar, creation-intent, color
  call,     \* the state of each call
  pend,     \* pendingEnsure, pendingDelete, pendingColor
  queue,    \* the scheduler's queue of push runs
  goal,     \* "any", "push" or "clean": what the user will stay with
  dropped,  \* a deletion removed the calendar and has not finished
  answer,   \* the last answer of an operation, until another one starts
  phone,    \* the member of Phones at hand
  faults,
  removals

vars == <<cals, made, disk, call, pend, queue, goal, dropped, answer, phone, faults,
          removals>>

Os == phone.os
Ops == phone.ops

----------------------------------------------------------------------------
(* Calendars.  A title or a name is the number of its unique marker, or    *)
(* Managed for the plain "Mindwtr".  Another install has a calendar with   *)
(* the plain title, and a marker of its own in the name.                   *)

Managed == 0
Other == 0
OtherCalendar == [name |-> -1, title |-> Managed, color |-> FirstColor]

Own == DOMAIN cals \ {Other}

With(list, id, cal) == [i \in DOMAIN list \cup {id} |-> IF i = id THEN cal ELSE list[i]]
Without(list, id) == [i \in DOMAIN list \ {id} |-> list[i]]

Idle == [op |-> "none", pc |-> "idle", ret |-> "none", for |-> "none", wait |-> None, color |-> None,
         paint |-> None, saved |-> None, intent |-> None, list |-> <<>>, id |-> None]

Init ==
  /\ phone \in Phones
  /\ cals = [i \in {Other} |-> OtherCalendar]
  /\ made = 0
  /\ disk = [saved |-> None, marker |-> None, intent |-> None, color |-> FirstColor]
  /\ call = [c \in Calls |-> Idle]
  /\ pend = [ensure |-> None, delete |-> None, color |-> None]
  /\ queue = <<>>
  /\ goal = "any"
  /\ dropped = FALSE
  /\ answer = [op |-> "none", value |-> None]
  /\ faults = 0
  /\ removals = 0

At(c, label) == call[c].pc = label /\ call[c].wait = None

Fault == faults < phone.faults /\ faults' = faults + 1

(* The call continues as r: nothing else about the calls changes.          *)
Becomes(c, r) ==
  /\ call' = [call EXCEPT ![c] = r]
  /\ UNCHANGED <<pend, queue, answer, dropped>>

Goes(c, label) == Becomes(c, [call[c] EXCEPT !.pc = label])

(* The promise of an operation settles: those who await it go on.          *)
Settled(calls, promise) ==
  [d \in Calls |-> IF calls[d].wait = promise THEN [calls[d] EXCEPT !.wait = None]
                                              ELSE calls[d]]

----------------------------------------------------------------------------
(* How operations end.                                                     *)

(* recolor: the answer is the colour that was stored, for the calendar at  *)
(* hand or the one made next, or None: an error, or false since a creation *)
(* that was cut short could not be finished (iOS).  A recolor during a     *)
(* deletion answers false at once and is no step, see StartColor.          *)
ColorEnds(c, value, slot) ==
  /\ call' = Settled([call EXCEPT ![c] = Idle], <<"color", c>>)
  /\ pend' = [pend EXCEPT !.color = IF @ = c THEN None ELSE @]
  /\ queue' = slot
  /\ answer' = [op |-> "color", value |-> value]
  /\ UNCHANGED dropped

(* Mutation of DeleteEnds: the promise is not cleared. *)
DeleteEndsPending(c, value) ==
  /\ call' = Settled([call EXCEPT ![c] = Idle], <<"delete", c>>)
  /\ answer' = [op |-> "delete", value |-> value]
  /\ dropped' = (dropped /\ value = None)
  /\ UNCHANGED <<pend, queue>>

DeleteEnds(c, value) ==
  /\ call' = Settled([call EXCEPT ![c] = Idle], <<"delete", c>>)
  /\ pend' = [pend EXCEPT !.delete = None]
  /\ answer' = [op |-> "delete", value |-> value]
  /\ dropped' = (/\ value = None
                 /\ \/ dropped
                    \/ call[c].pc = "dDelete" /\ call[c].id \notin DOMAIN cals')
  /\ UNCHANGED queue

(* ensureMindwtrCalendarUnsafe answers r, an identifier or null, to the    *)
(* push run, to a recolor that finished a creation, to one that recreates  *)
(* the calendar, or to the push run at the end of that one.                *)
EnsureAnswers(c, r) ==
  \/ /\ call[c].ret = "sync"
     /\ call' = Settled([call EXCEPT ![c] = Idle], <<"ensure", c>>)
     /\ pend' = [pend EXCEPT !.ensure = None]
     /\ queue' = Tail(queue)
     /\ UNCHANGED <<answer, dropped>>
  \/ /\ call[c].ret = "intent"
     /\ IF r = None THEN ColorEnds(c, None, queue) ELSE Goes(c, "cRead")
  \/ /\ call[c].ret = "recreate"
     /\ IF r = None
        THEN /\ call' = [call EXCEPT ![c].pc = "cStore", ![c].ret = "deferred"]
             /\ queue' = Tail(queue)
             /\ UNCHANGED <<pend, answer, dropped>>
        ELSE Goes(c, "rStore")
  \/ /\ call[c].ret = "full"
     /\ call' = Settled(Settled([call EXCEPT ![c] = Idle], <<"ensure", c>>), <<"color", c>>)
     /\ pend' = [pend EXCEPT !.color = IF @ = c THEN None ELSE @, !.ensure = None]
     /\ queue' = Tail(queue)
     /\ answer' = [op |-> "color", value |-> call[c].color]
     /\ UNCHANGED dropped

(* deleteMindwtrCalendarUnsafe is done: for itself, or for a recolor that  *)
(* makes the calendar again.                                               *)
DeleteAnswers(c) ==
  IF call[c].op = "delete" THEN DeleteEnds(c, TRUE)
  ELSE Becomes(c, [call[c] EXCEPT !.pc = "eRead", !.ret = "recreate"])

(* An error: an ensure answers null, a deletion rejects, a recolor rejects *)
(* and leaves the queue if it holds it.                                    *)
InEnsure(c) ==
  \/ call[c].pc \in {"eRead", "eAdopt", "eList", "eClear", "eMark", "eCreate", "eBind", "eSave", "eTitle", "eDone"}
  \/ call[c].pc \in {"aSave", "aClear"} /\ call[c].for = "ensure"

Fails(c) ==
  IF InEnsure(c) THEN EnsureAnswers(c, None)
  ELSE IF call[c].op = "delete" THEN DeleteEnds(c, None)
  ELSE ColorEnds(c, None, IF queue # <<>> /\ Head(queue) = c THEN Tail(queue) ELSE queue)

----------------------------------------------------------------------------
(* The kinds of step: a look at the device or its storage, which goes on   *)
(* as A; a write of a key; a change of a calendar.  A write or a change    *)
(* may also have its effect and fail.                                      *)

Looks(c, label, A) ==
  /\ At(c, label)
  /\ UNCHANGED <<cals, made, disk, faults>>
  /\ A

MayFail(c, A) == (UNCHANGED faults /\ A) \/ (Fault /\ Fails(c))

Writes(c, label, keys, A) ==
  /\ At(c, label)
  /\ disk' = keys
  /\ UNCHANGED <<cals, made>>
  /\ MayFail(c, A)

Changes(c, label, calendars, A) ==
  /\ At(c, label)
  /\ cals' = calendars
  /\ UNCHANGED disk
  /\ MayFail(c, A)

(* findIntentCalendar: the calendar of an unfinished creation, None when   *)
(* it is not there, or a conflict.                                         *)

IntentMatches(list, intent) == {i \in DOMAIN list : list[i].title = intent.title}

IntentConflicts(list, intent, saved) ==
  \/ Cardinality(IntentMatches(list, intent)) > 1
  \/ intent.id # None /\ \E i \in IntentMatches(list, intent) : i # intent.id
  \/ saved \in DOMAIN list /\ saved # intent.id

IntentCalendar(list, intent) ==
  IF intent.id # None THEN (IF intent.id \in DOMAIN list THEN intent.id ELSE None)
  ELSE IF IntentMatches(list, intent) = {} THEN None
  ELSE CHOOSE i \in IntentMatches(list, intent) : TRUE

(* Mutation of Marked: the title is taken for the marker. *)
MarkedByTitle(list) ==
  {i \in DOMAIN list : disk.marker # None /\ list[i].title = Managed}

Marked(list) == {i \in DOMAIN list : disk.marker # None /\ list[i].name = disk.marker}

(* adoptPendingCalendar: the calendar whose name carries this install's    *)
(* marker is saved, then the marker removed; without one the caller goes   *)
(* on as A.                                                                *)
Adopts(c, label, for, A) ==
  Looks(c, label,
    LET marked == Marked(call[c].list) IN
    IF marked = {} THEN A
    ELSE Becomes(c, [call[c] EXCEPT !.pc = "aSave", !.for = for, !.id = CHOOSE i \in marked : TRUE]))

AdoptionSaves(c) ==
  Writes(c, "aSave", [disk EXCEPT !.saved = call[c].id], Goes(c, "aClear"))

AdoptionClears(c) ==
  Writes(c, "aClear", [disk EXCEPT !.marker = None],
    CASE call[c].for = "ensure" -> EnsureAnswers(c, call[c].id)
      [] call[c].for = "delete" -> Goes(c, "dDelete")
      [] call[c].for = "color"  -> Goes(c, "cTarget"))

ReadKeys(c, next) ==
  Becomes(c, [call[c] EXCEPT !.pc = next, !.saved = disk.saved,
                             !.intent = IF Os = "ios" THEN disk.intent ELSE None])

----------------------------------------------------------------------------
(* ensureMindwtrCalendarUnsafe                                             *)

EnsureReads(c) == Looks(c, "eRead", ReadKeys(c, "eList"))

(* The colour of a new calendar: the stored one, unless it is made to      *)
(* change the colour.                                                      *)
Paint(c) == IF call[c].ret = "recreate" THEN call[c].color ELSE disk.color

(* An unfinished creation is recovered, or its create repeated; a bound    *)
(* one whose calendar is gone is left alone.                               *)
Recovers(c) ==
  LET me == call[c]
      found == IntentCalendar(cals, me.intent)
  IN
  IF \/ IntentConflicts(cals, me.intent, me.saved)
     \/ found = None /\ me.intent.id # None
  THEN EnsureAnswers(c, None)
  ELSE IF found = None THEN Becomes(c, [me EXCEPT !.pc = "eCreate", !.paint = Paint(c)])
  ELSE Becomes(c, [me EXCEPT !.pc = IF me.intent.id = None THEN "eBind" ELSE "eSave", !.id = found])

(* Mutation of MarkerLeft: nobody removes it. *)
MarkerKept == FALSE

(* A death after the calendar was saved left the marker.                   *)
MarkerLeft == disk.marker # None

EnsureLists(c) ==
  LET me == call[c] IN
  Looks(c, "eList",
    IF me.intent # None THEN Recovers(c)
    ELSE IF me.saved \in DOMAIN cals
    THEN (IF MarkerLeft THEN Becomes(c, [me EXCEPT !.pc = "eClear", !.id = me.saved])
          ELSE EnsureAnswers(c, me.saved))
    ELSE Becomes(c, [me EXCEPT !.pc = IF Os = "android" THEN "eAdopt" ELSE "eMark", !.list = cals]))

EnsureAdopts(c) == Adopts(c, "eAdopt", "ensure", Goes(c, "eMark"))

(* The note that makes a creation recognisable: the marker a retry takes   *)
(* again (Android), the unique title (iOS).  The colour is read before it. *)
Note == IF Os = "android" /\ disk.marker # None THEN disk.marker ELSE made + 1

(* Mutation of Noted: nothing is written before the creation. *)
NotedNever(mark) == disk

Noted(mark) == IF Os = "android" THEN [disk EXCEPT !.marker = mark]
               ELSE [disk EXCEPT !.intent = [title |-> mark, id |-> None]]

EnsureMarks(c) ==
  Writes(c, "eMark", Noted(Note),
    Becomes(c, [call[c] EXCEPT !.pc = "eCreate", !.paint = Paint(c),
                               !.intent = [title |-> Note, id |-> None]]))

(* createCalendar, whose answer may be lost.                               *)
EnsureCreates(c) ==
  LET mark == call[c].intent.title
      new == IF Os = "android"
             THEN [name |-> mark, title |-> Managed, color |-> call[c].paint]
             ELSE [name |-> None, title |-> mark, color |-> call[c].paint]
  IN
  /\ Changes(c, "eCreate", With(cals, made + 1, new),
       Becomes(c, [call[c] EXCEPT !.pc = IF Os = "ios" THEN "eBind" ELSE "eSave", !.id = made + 1]))
  /\ made' = made + 1

(* The identifier goes to the intent, then to the saved calendar; then the *)
(* calendar gets its plain title and the intent ends (iOS), or the marker  *)
(* ends.  A calendar recovered under its plain title keeps it.             *)
EnsureBinds(c) ==
  Writes(c, "eBind", [disk EXCEPT !.intent = [call[c].intent EXCEPT !.id = call[c].id]],
    Goes(c, "eSave"))

EnsureSaves(c) ==
  Writes(c, "eSave", [disk EXCEPT !.saved = call[c].id],
    Goes(c, IF Os = "android" THEN "eClear"
            ELSE IF cals[call[c].id].title = Managed THEN "eDone" ELSE "eTitle"))

EnsureTitles(c) ==
  /\ Changes(c, "eTitle", [cals EXCEPT ![call[c].id].title = Managed], Goes(c, "eDone"))
  /\ UNCHANGED made

EnsureFinishes(c) ==
  \/ Writes(c, "eDone", [disk EXCEPT !.intent = None], EnsureAnswers(c, call[c].id))
  \/ Writes(c, "eClear", [disk EXCEPT !.marker = None], EnsureAnswers(c, call[c].id))

----------------------------------------------------------------------------
(* deleteMindwtrCalendarUnsafe                                             *)

DeleteReads(c) == Looks(c, "dRead", ReadKeys(c, "dList"))

(* The calendar of an unfinished creation must be there to be deleted.     *)
DeleteLists(c) ==
  LET me == call[c]
      found == IntentCalendar(cals, me.intent)
  IN
  Looks(c, "dList",
    IF me.intent # None
    THEN (IF IntentConflicts(cals, me.intent, me.saved) \/ found = None THEN Fails(c)
          ELSE Becomes(c, [me EXCEPT !.pc = "dDelete", !.id = found]))
    ELSE IF me.saved \in DOMAIN cals THEN Becomes(c, [me EXCEPT !.pc = "dDelete", !.id = me.saved])
    ELSE Becomes(c, [me EXCEPT !.pc = "dAdopt", !.list = cals]))

(* Mutation of DeleteAdopts: a deletion needs a calendar. *)
DeleteAdoptsOrFails(c) == Adopts(c, "dAdopt", "delete", Fails(c))

DeleteAdopts(c) == Adopts(c, "dAdopt", "delete", Goes(c, "dMarker"))

(* The device may answer the deletion with an error: a list without the    *)
(* calendar proves it done all the same, a list that fails does not.       *)
Dropped(c) ==
  /\ call' = [call EXCEPT ![c].pc = "dMarker"]
  /\ dropped' = (call[c].op = "delete")
  /\ UNCHANGED <<pend, queue, answer>>

DeleteDrops(c) ==
  /\ Changes(c, "dDelete", Without(cals, call[c].id), Dropped(c))
  /\ UNCHANGED made

(* Then the keys go, the note of an unfinished creation last.              *)
DeleteClears(c) ==
  \/ Writes(c, "dMarker", [disk EXCEPT !.marker = None], Goes(c, "dSaved"))
  \/ Writes(c, "dSaved", [disk EXCEPT !.saved = None],
       IF call[c].intent # None THEN Goes(c, "dIntent") ELSE DeleteAnswers(c))
  \/ Writes(c, "dIntent", [disk EXCEPT !.intent = None], DeleteAnswers(c))

----------------------------------------------------------------------------
(* updateMindwtrCalendarColorUnsafe                                        *)

ColorRecovers(c) ==
  Looks(c, "cIntent",
    IF Os = "ios" /\ disk.intent # None
    THEN Becomes(c, [call[c] EXCEPT !.pc = "eRead", !.ret = "intent"])
    ELSE Goes(c, "cRead"))

ColorReads(c) == Looks(c, "cRead", ReadKeys(c, "cList"))

ColorLists(c) ==
  Looks(c, "cList",
    Becomes(c, [call[c] EXCEPT !.list = cals, !.id = call[c].saved,
                  !.pc = IF call[c].saved \in DOMAIN cals THEN "cTarget" ELSE "cAdopt"]))

ColorAdopts(c) == Adopts(c, "cAdopt", "color", Goes(c, "cStore"))

(* Nothing to change; a calendar to update in place (iOS); or a calendar   *)
(* to make again, on the queue (Android).                                  *)
ColorDecides(c) ==
  Looks(c, "cTarget",
    IF call[c].list[call[c].id].color = call[c].color THEN Goes(c, "cStore")
    ELSE IF Os = "ios" THEN Goes(c, "cUpdate")
    ELSE /\ call' = [call EXCEPT ![c].pc = "queued"]
         /\ queue' = Append(queue, c)
         /\ UNCHANGED <<pend, answer, dropped>>)

ColorUpdates(c) ==
  /\ Changes(c, "cUpdate", [cals EXCEPT ![call[c].id].color = call[c].color], Goes(c, "cStore"))
  /\ UNCHANGED made

ColorStores(c) ==
  Writes(c, "cStore", [disk EXCEPT !.color = call[c].color], ColorEnds(c, call[c].color, queue))

(* recreateManagedMindwtrCalendar, once the queue comes to it: delete,     *)
(* create, store the colour, push everything.                              *)
RecreateBegins(c) ==
  /\ call[c].op = "color" /\ queue # <<>> /\ Head(queue) = c
  /\ Looks(c, "queued", Goes(c, "dRead"))

RecreateStores(c) ==
  Writes(c, "rStore", [disk EXCEPT !.color = call[c].color], Goes(c, "rFull"))

RecreatePushes(c) ==
  Looks(c, "rFull",
    IF pend.delete # None THEN ColorEnds(c, call[c].color, Tail(queue))
    ELSE /\ pend' = [pend EXCEPT !.ensure = c]
         /\ call' = [call EXCEPT ![c].pc = "eRead", ![c].ret = "full"]
         /\ UNCHANGED <<queue, answer, dropped>>)

----------------------------------------------------------------------------
(* The calls, and the promises that order them.                            *)

Running == {c \in Calls : call[c].pc # "idle"}
Quiet == Running = {}

Promise(kind, c) == IF c = None THEN None ELSE <<kind, c>>

(* phone.made bounds the calendars the calls can make.                        *)
MayStart(c, op, choice) ==
  /\ op \in Ops
  /\ goal \in {"any", choice}
  /\ call[c].pc = "idle"
  /\ goal = "any" => made + Cardinality(Running) < phone.made
  /\ UNCHANGED <<cals, made, disk, goal, dropped, faults, removals>>

(* A push run is put on the queue.                                         *)
StartSync(c) ==
  /\ MayStart(c, "sync", "push")
  /\ call' = [call EXCEPT ![c] = [Idle EXCEPT !.op = "sync", !.pc = "queued", !.ret = "sync"]]
  /\ queue' = Append(queue, c)
  /\ UNCHANGED <<pend, answer>>

(* Mutation of AwaitsColor: a recolor is not awaited. *)
AwaitsColorNever == None
(* Mutation of AwaitsColor: on Android too. *)
AwaitsColorAlways == Promise("color", pend.color)
AwaitsColor == IF Os = "ios" THEN Promise("color", pend.color) ELSE None

(* Its turn: ensureMindwtrCalendar.  Only runs on the queue ask for the    *)
(* calendar, so no other promise of it is pending.                         *)
SyncRuns(c) ==
  /\ call[c].op = "sync" /\ queue # <<>> /\ Head(queue) = c
  /\ Looks(c, "queued",
       IF pend.delete # None THEN EnsureAnswers(c, None)
       ELSE /\ pend' = [pend EXCEPT !.ensure = c]
            /\ call' = [call EXCEPT ![c].pc = IF AwaitsColor = None THEN "eRead" ELSE "eWait",
                                    ![c].wait = AwaitsColor]
            /\ UNCHANGED <<queue, answer, dropped>>)

EnsureWaited(c) ==
  Looks(c, "eWait", IF pend.delete # None THEN EnsureAnswers(c, None) ELSE Goes(c, "eRead"))

(* Mutation of StartDelete: nothing is awaited. *)
StartDeleteAtOnce(c) ==
  /\ MayStart(c, "delete", "clean")
  /\ pend.delete = None
  /\ pend' = [pend EXCEPT !.delete = c]
  /\ call' = [call EXCEPT ![c] = [Idle EXCEPT !.op = "delete", !.pc = "dRead"]]
  /\ answer' = [op |-> "none", value |-> None]
  /\ UNCHANGED queue

(* deleteMindwtrCalendar waits for the ensure, then for the recolor.       *)
StartDelete(c) ==
  /\ MayStart(c, "delete", "clean")
  /\ pend.delete = None
  /\ pend' = [pend EXCEPT !.delete = c]
  /\ call' = [call EXCEPT ![c] = [Idle EXCEPT !.op = "delete",
       !.pc = IF pend.ensure # None THEN "dWait" ELSE "dRead",
       !.wait = IF pend.ensure # None THEN Promise("ensure", pend.ensure)
                ELSE Promise("color", pend.color)]]
  /\ answer' = [op |-> "none", value |-> None]
  /\ UNCHANGED queue

DeleteWaited(c) ==
  Looks(c, "dWait",
    Becomes(c, [call[c] EXCEPT !.pc = "dRead", !.wait = Promise("color", pend.color)]))

(* updateMindwtrCalendarColor waits for the recolor before it, then for    *)
(* the ensure.  While a deletion is pending it answers false at once.      *)
StartColor(c) ==
  /\ MayStart(c, "color", "any")
  /\ pend.delete = None
  /\ pend' = [pend EXCEPT !.color = c]
  /\ \E color \in phone.colors :
       call' = [call EXCEPT ![c] = [Idle EXCEPT !.op = "color", !.color = color,
         !.pc = IF pend.color # None THEN "cWait" ELSE "cIntent",
         !.wait = IF pend.color # None THEN Promise("color", pend.color)
                  ELSE Promise("ensure", pend.ensure)]]
  /\ answer' = [op |-> "none", value |-> None]
  /\ UNCHANGED queue

ColorWaited(c) ==
  Looks(c, "cWait",
    Becomes(c, [call[c] EXCEPT !.pc = "cIntent", !.wait = Promise("ensure", pend.ensure)]))

----------------------------------------------------------------------------
(* What may go wrong.                                                      *)

(* A call of the device or of its storage fails without effect.            *)
CallFails(c) ==
  /\ call[c].wait = None
  /\ call[c].pc \notin {"idle", "queued", "eWait", "dWait", "cWait", "rFull"}
  /\ Fault
  /\ UNCHANGED <<cals, made, disk>>
  /\ Fails(c)

(* The app dies and starts again.                                          *)
Restart ==
  /\ ~Quiet
  /\ Fault
  /\ call' = [c \in Calls |-> Idle]
  /\ pend' = [ensure |-> None, delete |-> None, color |-> None]
  /\ queue' = <<>>
  /\ answer' = [op |-> "none", value |-> None]
  /\ UNCHANGED <<cals, made, disk, goal, dropped, removals>>

(* The user deletes the calendar in another app, between two operations.   *)
Removed ==
  /\ Quiet /\ goal = "any" /\ removals < phone.removals
  /\ \E id \in Own : cals' = Without(cals, id)
  /\ removals' = removals + 1
  /\ UNCHANGED <<made, disk, call, pend, queue, goal, dropped, answer, faults>>

(* The user keeps the push on, or stays with deleting the calendar.        *)
Decide ==
  /\ goal = "any"
  /\ \/ "sync" \in Ops /\ goal' = "push"
     \/ "delete" \in Ops /\ goal' = "clean"
  /\ UNCHANGED <<cals, made, disk, call, pend, queue, dropped, answer, faults, removals>>

----------------------------------------------------------------------------
EnsureSteps(c) ==
  \/ EnsureWaited(c) \/ EnsureReads(c) \/ EnsureLists(c) \/ EnsureAdopts(c)
  \/ EnsureMarks(c) \/ EnsureCreates(c) \/ EnsureBinds(c) \/ EnsureSaves(c)
  \/ EnsureTitles(c) \/ EnsureFinishes(c) \/ AdoptionSaves(c) \/ AdoptionClears(c)

DeleteSteps(c) ==
  \/ DeleteWaited(c) \/ DeleteReads(c) \/ DeleteLists(c) \/ DeleteAdopts(c)
  \/ DeleteDrops(c) \/ DeleteClears(c)

ColorSteps(c) ==
  \/ ColorWaited(c) \/ ColorRecovers(c) \/ ColorReads(c) \/ ColorLists(c)
  \/ ColorAdopts(c) \/ ColorDecides(c) \/ ColorUpdates(c) \/ ColorStores(c)
  \/ RecreateBegins(c) \/ RecreateStores(c) \/ RecreatePushes(c)

Step(c) ==
  /\ SyncRuns(c) \/ EnsureSteps(c) \/ DeleteSteps(c) \/ ColorSteps(c) \/ CallFails(c)
  /\ UNCHANGED <<goal, removals>>

Start(c) == StartSync(c) \/ StartDelete(c) \/ StartColor(c)

Next ==
  /\ (\E c \in phone.calls : Start(c) \/ Step(c)) \/ Restart \/ Removed \/ Decide
  /\ UNCHANGED phone

Finished ==
  /\ Cardinality(Own) = 1
  /\ disk.saved \in Own /\ cals[disk.saved].title = Managed
  /\ disk.marker = None /\ disk.intent = None

Cleared == disk.saved = None /\ disk.marker = None /\ disk.intent = None

(* The event loop runs what is due and the device answers.  A user who     *)
(* stays with a wish repeats it: each start of the app is a push run, a    *)
(* deletion that failed is asked for again.                                *)
Repeat ==
  /\ Quiet
  /\ \/ goal = "push" /\ ~Finished /\ \E c \in phone.calls : StartSync(c)
     \/ goal = "clean" /\ ~(Own = {} /\ Cleared) /\ \E c \in phone.calls : StartDelete(c)

Fairness ==
  /\ \A c \in Calls : WF_vars(Step(c) /\ UNCHANGED phone)
  /\ WF_vars(Repeat /\ UNCHANGED phone)

Spec == Init /\ [][Next]_vars /\ Fairness

----------------------------------------------------------------------------
(* Properties                                                              *)

Maybe(S) == S \cup {None}

(* The types, and what the service keeps between its steps: a promise is   *)
(* pending exactly while its operation runs, and the queue holds the calls *)
(* that wait for it or have it.                                            *)
TypeOK ==
  /\ DOMAIN cals \subseteq 0..made
  /\ \A i \in DOMAIN cals : cals[i].color \in Colors /\ cals[i].title \in 0..made
  /\ disk.saved \in Maybe(1..made) /\ disk.color \in Colors
  /\ Os = "android" => disk.intent = None
  /\ Os = "ios" => disk.marker = None
  /\ pend.ensure # None =>
       call[pend.ensure].op = "sync" \/ call[pend.ensure].ret = "full"
  /\ \A c \in Calls : /\ (call[c].op = "delete") = (pend.delete = c)
                      /\ call[c].op = "sync" => \E i \in 1..Len(queue) : queue[i] = c
  /\ pend.color = None => \A c \in Calls : call[c].op # "color"
  /\ goal \in {"any", "push", "clean"}

(* However creations, recolorings and deletions are cut short, repeated or *)
(* interleaved, this install never has two calendars on the device         *)
(* (ensureMindwtrCalendarUnsafe, adoptPendingCalendar, findIntentCalendar).*)
(* On Android a recoloring cut short is excepted: what it leaves is not    *)
(* adopted.                                                                *)
OneCalendar ==
  Os = "ios" \/ phone.faults = 0 \/ "color" \notin Ops => Cardinality(Own) <= 1

(* The calendar another install made under the same title is never adopted,*)
(* changed or deleted (resolveOwnedCalendar).                              *)
OthersUntouched == /\ Other \in DOMAIN cals /\ cals[Other] = OtherCalendar
                   /\ disk.saved # Other

(* A deletion that resolves leaves no calendar of this install and no note *)
(* of one, whatever ran before or beside it (deleteMindwtrCalendar).       *)
DeletionComplete ==
  [][answer' # answer /\ answer'.op = "delete" /\ answer'.value # None
       => Own' = {} /\ Cleared']_vars

(* Once a recolor has stored the picked colour and has answered, the       *)
(* calendar the app has, or the one it makes next, shows it                *)
(* (updateMindwtrCalendarColorUnsafe).  It says nothing of one that        *)
(* rejected, or answered false with nothing stored.  On Android a push run *)
(* may make the calendar in the old colour meanwhile.                      *)
PickedColorShown ==
  Os = "ios" /\ Quiet /\ answer.op = "color" /\ answer.value # None
    => /\ disk.color = answer.value
       /\ \A i \in Own : cals[i].color = answer.value

(* The promises and the queue never make the operations wait in a circle:  *)
(* while any runs, one of them can go on (ensureMindwtrCalendar,           *)
(* deleteMindwtrCalendar, updateMindwtrCalendarColor).  On iOS two         *)
(* recolorings and a push run can.                                         *)
NoCircularWait ==
  Os = "android" /\ ~Quiet =>
    \E c \in Running : call[c].wait = None /\ (call[c].pc = "queued" => Head(queue) = c)

(* While the push stays on, its runs come to exactly one calendar with its *)
(* plain title, saved, and no unfinished creation left                     *)
(* (ensureMindwtrCalendarUnsafe).  On iOS a deletion cut short stops them. *)
PushSettles ==
  goal = "push" /\ (Os = "android" \/ "delete" \notin Ops) ~> Finished

(* A deletion that removed the calendar and was cut short after it is      *)
(* finished by repeating it (deleteMindwtrCalendarUnsafe, on Android).     *)
DeletionFinishes == Os = "android" /\ goal = "clean" /\ dropped ~> Own = {} /\ Cleared

(* Between any two steps of the operations, whatever failed before: this     *)
(* install has one calendar at most, nobody else's is touched, a picked      *)
(* colour is shown, and nobody waits in a circle.                            *)
CalendarInv == TypeOK /\ OneCalendar /\ OthersUntouched /\ PickedColorShown /\ NoCircularWait

(* Operations that are repeated reach their end: one calendar for the push,  *)
(* none after a deletion.                                                    *)
OperationsSettle == DeletionComplete /\ PushSettles /\ DeletionFinishes
============================================================================
