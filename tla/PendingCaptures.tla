-------------------------- MODULE PendingCaptures ----------------------------
(***************************************************************************)
(* drainPendingCaptureQueue: the Watch, widgets and shortcuts leave one    *)
(* file per capture or command in a directory, and the app turns each into *)
(* a store write when it next runs.  Per item: store write, durable save,  *)
(* record of the command, deletion of the file.  Any of these calls may    *)
(* fail, and the process may die between any two of them.                  *)
(*                                                                         *)
(* On the native host a drain is one call of the engine, journaled until   *)
(* nothing of it is owed.  An edit is let through while no failed drain is *)
(* on record and then waits for the engine, so a drain may fail, or its    *)
(* failure be cleared for another try, in between.  The React Native app   *)
(* does not hold edits back.                                               *)
(***************************************************************************)
EXTENDS Naturals, Sequences, FiniteSets, SequencesExt

CONSTANTS
    Items,          \* queue files, numbered in the order of their names
    Tasks,          \* tasks the commands are about
    Uses            \* hosts and what happens on them, see IsUse

(* A "shortcut" capture has no UUID.  "widget" and "watch" check a task off. *)
AllKinds == {"capture", "shortcut", "audio", "widget", "watch", "defer", "malformed"}
Calls == {"read", "recordRead", "write", "throw", "transcribe", "save", "recordWrite", "delete", "audioDelete"}

(* What is queued, whether the host is the native one, the calls that may *)
(* fail, and the bounds: files, failed calls, deaths of the process, edits.   *)
IsUse(u) ==
    /\ u.kinds \subseteq AllKinds /\ u.editsWait \in BOOLEAN /\ u.faulty \subseteq Calls
    /\ u.items \subseteq Items /\ u.faults \in Nat /\ u.crashes \in Nat /\ u.edits \in Nat

ASSUME CapturesConstants ==
    /\ Items \subseteq Nat \ {0} /\ IsFiniteSet(Items) /\ Tasks # {}
    /\ \A u \in Uses : IsUse(u)

VARIABLES
    item,           \* what each file holds: kind, task, time of the tap (0: not made yet)
    place,          \* "unused", "sent", "queued" or "gone"
    clock,          \* of the taps
    wav,            \* items whose recording is on disk
    memory, disk,   \* the store, and what of it is saved
    record,         \* the last command applied to each task, on disk
    pc,             \* the drain's next call, "idle" if none runs
    todo,           \* its entries
    seen,           \* the record as this drain holds it
    outcome,        \* of the command at the head
    recorded,
    unfinished,     \* what failures have left of this drain: "owed" if written, or "queued"
    replay,         \* this drain is one the journal has kept
    entry,          \* the journal holds a drain
    host,           \* "booting", "open", "failed" (drain), "owing" (with that on record)
    asked,          \* the task of an edit that waits for the engine
    faults, crashes, edits,
    use,            \* the member of Uses at hand
    void,           \* history: commands that found nothing to do
    missed          \* history: files that the latest drain has passed over

queueVars == <<item, place, clock, wav>>
drain == <<todo, seen, outcome, recorded, unfinished, replay, missed>>
hostVars == <<entry, host, asked>>
bounds == <<crashes, edits>>
vars == <<queueVars, memory, disk, record, pc, drain, hostVars, faults, bounds, void, use>>

None == [tap |-> 0, id |-> 0]
Commands == {"widget", "watch", "defer"}
Kind(i) == item[i].kind
IsCommand(i) == Kind(i) \in Commands
EditsWait == use.editsWait
HasUuid(i) == Kind(i) \notin {"shortcut"}
Cur == Head(todo)

EmptyStore ==
    [task |-> [t \in Tasks |-> [status |-> "next", start |-> 0]],
     made |-> [i \in Items |-> "none"],        \* the task a capture has made
     project |-> [i \in Items |-> "none"],     \* the +Project it has made
     applied |-> {},        \* history: items that have had their effect
     overruled |-> {}]      \* history: commands whose task the user has changed since, see Overruled
NotRead == [state |-> "unread", of |-> [t \in Tasks |-> None]]

(* The native host drains before it shows a screen. *)
Booted == IF EditsWait THEN "booting" ELSE "open"

Init ==
    /\ use \in Uses
    /\ item = [i \in Items |-> [kind |-> "malformed", task |-> CHOOSE t \in Tasks : TRUE, tap |-> 0]]
    /\ place = [i \in Items |-> "unused"] /\ clock = 0 /\ wav = {}
    /\ memory = EmptyStore /\ disk = EmptyStore /\ record = [t \in Tasks |-> None]
    /\ pc = "idle" /\ todo = <<>> /\ seen = NotRead /\ outcome = "" /\ recorded = TRUE
    /\ unfinished = {} /\ replay = FALSE /\ missed = {}
    /\ entry = FALSE /\ host = Booted /\ asked = {}
    /\ faults = 0 /\ crashes = 0 /\ edits = 0 /\ void = {}

Fault(call) == call \in use.faulty /\ faults < use.faults /\ faults' = faults + 1
NoFault == UNCHANGED faults

------------------------------------------------------------------------------
(* Outside the app *)

(* PendingCaptureWriter: a file is written aside, and a recording is in its   *)
(* place before it.  Names are UUIDs, so their order is not that of the taps. *)
Tap(i, kind, t) ==
    /\ place[i] = "unused" /\ clock' = clock + 1
    /\ item' = [item EXCEPT ![i] = [kind |-> kind, task |-> t, tap |-> clock + 1]]
    /\ place' = [place EXCEPT ![i] = "sent"]
    /\ wav' = IF kind = "audio" THEN wav \cup {i} ELSE wav
    /\ UNCHANGED <<memory, disk, record, pc, drain, hostVars, faults, bounds, void>>

(* A whole file is renamed into the queue.  A Watch delivers late and out of  *)
(* order, and its receipts on the phone let no redelivery through.            *)
Deliver(i) ==
    /\ place[i] = "sent" /\ place' = [place EXCEPT ![i] = "queued"]
    /\ UNCHANGED <<item, clock, wav, memory, disk, record, pc, drain, hostVars, faults, bounds, void>>

(* InboxViewModel.perform: on the native host a failed drain that is on record *)
(* stops the edit, which otherwise waits for the engine.                      *)
Ask(t) ==
    /\ EditsWait /\ host \in {"open", "failed"} /\ asked = {}
    /\ edits < use.edits /\ edits' = edits + 1 /\ asked' = {t}
    /\ UNCHANGED <<queueVars, memory, disk, record, pc, drain, entry, host, faults, crashes, void>>

MayEdit == edits < use.edits /\ edits' = edits + 1 /\ UNCHANGED asked
(* The commands that an edit of t overrules: the native host lets it go on    *)
(* with no failed drain on record, and the latest has not passed them over.   *)
Overruled(t) ==
    {i \in memory.applied \ missed :
        EditsWait /\ host = "open" /\ IsCommand(i) /\ item[i].task = t}
(* The user changes a task, *)
EditTask(t) ==
    /\ \/ ~EditsWait /\ MayEdit
       \/ t \in asked /\ pc = "idle" /\ asked' = {} /\ UNCHANGED edits
    /\ \E new \in [status : {"next", "done", "deleted"}, start : {0, memory.task[t].start}] :
          /\ new # memory.task[t]
          /\ memory' = [memory EXCEPT !.task[t] = new, !.overruled = @ \cup Overruled(t)]
    /\ UNCHANGED <<queueVars, disk, record, pc, drain, entry, host, faults, crashes, void>>
(* ... or deletes what a capture has made. *)
DeleteMade(i) ==
    /\ MayEdit /\ (EditsWait => pc = "idle")
    /\ \/ memory.made[i] = "live" /\ memory' = [memory EXCEPT !.made[i] = "deleted"]
       \/ memory.project[i] = "live" /\ memory' = [memory EXCEPT !.project[i] = "deleted"]
    /\ UNCHANGED <<queueVars, disk, record, pc, drain, entry, host, faults, crashes, void>>

(* The store saves by itself, too. *)
Save ==
    /\ disk # memory /\ disk' = memory
    /\ UNCHANGED <<queueVars, memory, record, pc, drain, hostVars, faults, bounds, void>>

Crash ==
    /\ crashes < use.crashes /\ crashes' = crashes + 1
    /\ memory' = disk
    /\ pc' = "idle" /\ todo' = <<>> /\ seen' = NotRead
    /\ unfinished' = {} /\ replay' = FALSE /\ missed' = {}
    /\ host' = Booted /\ asked' = {}
    /\ UNCHANGED <<queueVars, disk, record, outcome, recorded, entry, faults, edits, void>>

------------------------------------------------------------------------------
(* The drain *)

(* The files in the order of their names, but Watch commands take the places *)
(* of Watch commands in the order of their taps: one order.                  *)
IsWatchCommand(i) == Kind(i) \in {"watch", "defer"}
DrainOrders(files) ==
    {s \in SetToSeqs(files) : \A k \in DOMAIN s :
        IF IsWatchCommand(s[k])
        THEN \A m \in 1..(k - 1) : IsWatchCommand(s[m]) => item[s[m]].tap < item[s[k]].tap
        ELSE Cardinality({i \in files : i < s[k]}) = k - 1}

(* The native host replays what the journal holds before it drains anew; with  *)
(* a failed drain on record there is only the replay.                         *)
MayDrain ==
    /\ pc = "idle"
    /\ IF entry THEN host \in {"booting", "owing"}
                ELSE host \in {"booting", "open"} /\ \E i \in Items : place[i] = "queued"

(* A file that cannot be read stays for a later drain. *)
StartDrain ==
    /\ MayDrain
    /\ seen' = NotRead /\ recorded' = TRUE
    /\ replay' = entry /\ entry' = EditsWait
    /\ LET files == {i \in Items : place[i] = "queued"} IN
       \/ /\ todo' \in DrainOrders(files) /\ unfinished' = {} /\ missed' = {} /\ NoFault
       \/ \E i \in files : /\ todo' \in DrainOrders(files \ {i})
                           /\ unfinished' = {"queued"} /\ missed' = {i} /\ Fault("read")
    /\ pc' = "item"
    /\ UNCHANGED <<queueVars, memory, disk, record, outcome, host, asked, bounds, void>>

Owed == "owed" \in unfinished
(* Mutation of HostAfter: a failed drain is not put on record. *)
HostAfterForgets(failed) == IF host = "booting" /\ failed THEN "booting" ELSE "open"
(* What the host does with the answer.  A replay is over unless something is  *)
(* owed, which lets edits through and is followed by a drain.                 *)
HostAfter(failed) ==
    CASE ~EditsWait -> host
      [] replay /\ ~Owed -> IF host = "booting" THEN "booting" ELSE "open"
      [] ~failed -> "open"
      [] host = "open" -> "failed"
      [] OTHER -> "owing"
(* ingestPendingCaptures answers: SAVE_FAILED if something is owed, which is  *)
(* when the journal keeps the drain, ACTION_FAILED if something is left.      *)
Finish(failed) ==
    /\ pc' = "idle" /\ todo' = <<>>
    /\ entry' = (EditsWait /\ Owed) /\ host' = HostAfter(failed)
EndDrain ==
    /\ pc = "item" /\ todo = <<>> /\ Finish(unfinished # {})
    /\ UNCHANGED <<queueVars, memory, disk, record, seen, outcome, recorded, unfinished, replay, missed,
                   asked, faults, bounds, void>>

(* Between drains: the host has booted; the failure of a drain is put on      *)
(* record (StartOrder.afterReplay); and one of which the journal holds no     *)
(* more is cleared for another drain (recover).                               *)
HostGoesOn ==
    /\ pc = "idle"
    /\ \/ /\ host = "booting" /\ ~entry /\ \A i \in Items : place[i] # "queued"
          /\ host' = "open"
       \/ host = "failed" /\ host' = "owing"
       \/ host = "owing" /\ ~entry /\ host' = "open"
    /\ UNCHANGED <<queueVars, memory, disk, record, pc, drain, entry, asked, faults, bounds, void>>

NextItem == pc' = "item" /\ todo' = Tail(todo)
(* A voice capture that is left queued is not reported. *)
Unfinished(state) ==
    NextItem /\ unfinished' = IF Kind(Cur) = "audio" THEN unfinished ELSE unfinished \cup {state}
(* What a step for the item at the head leaves alone unless it says otherwise. *)
Elsewhere == UNCHANGED <<item, clock, hostVars, bounds, replay>>
PassedOver(files) == missed' = missed \cup files

(* A write that is refused leaves the item queued; one that throws ends the drain. *)
WriteRefused ==
    /\ UNCHANGED <<memory, void, outcome>>
    /\ \/ Fault("write") /\ Unfinished("queued") /\ PassedOver({Cur}) /\ UNCHANGED <<entry, host>>
       \/ Fault("throw") /\ Finish(TRUE) /\ PassedOver(Range(todo)) /\ UNCHANGED unfinished

------------------------------------------------------------------------------
(* Commands: applyPendingCompletion and applyPendingDefer *)

ReadRecord ==
    /\ pc = "item" /\ todo # <<>> /\ IsCommand(Cur) /\ seen.state = "unread"
    /\ \/ seen' = [state |-> "read", of |-> record] /\ NoFault
       \/ seen' = [NotRead EXCEPT !.state = "failed"] /\ Fault("recordRead")
    /\ Elsewhere
    /\ UNCHANGED <<place, wav, memory, disk, record, pc, todo, outcome, recorded, unfinished, missed, void>>

(* An unreadable record keeps the commands queued. *)
NoRecord ==
    /\ pc = "item" /\ todo # <<>> /\ IsCommand(Cur) /\ seen.state = "failed"
    /\ Unfinished("queued") /\ PassedOver({Cur}) /\ Elsewhere
    /\ UNCHANGED <<place, wav, memory, disk, record, seen, outcome, recorded, faults, void>>

(* Mutation of Skip: only the very same command is recognised. *)
SkipReplayOnly(i) == seen.of[item[i].task].id = i
(* skipOf: a replay of the last command, or one tapped before it *)
Skip(i) ==
    LET last == seen.of[item[i].task]
    IN  last.id = i \/ item[i].tap < last.tap

(* Mutation of Effect: a status of its own for what is put off. *)
EffectDeferred(i) ==
    [memory EXCEPT !.task[item[i].task].status = IF Kind(i) = "defer" THEN "deferred" ELSE "done",
                   !.applied = @ \cup {i}]
Effect(i) ==
    LET t == item[i].task IN
    [memory EXCEPT !.task[t] = IF Kind(i) = "defer" THEN [@ EXCEPT !.start = item[i].tap]
                               ELSE [@ EXCEPT !.status = "done"],
                   !.applied = @ \cup {i}]
(* A task that is gone is left alone, and a defer leaves a finished one alone. *)
NothingToDo(i) ==
    LET t == memory.task[item[i].task]
    IN  t.status = "deleted" \/ (Kind(i) = "defer" /\ t.status = "done")

ApplyCommand ==
    /\ pc = "item" /\ todo # <<>> /\ IsCommand(Cur) /\ seen.state = "read"
    /\ \/ /\ Skip(Cur) /\ outcome' = "skipped" /\ pc' = "save"
          /\ NoFault /\ UNCHANGED <<memory, void, todo, unfinished, missed, entry, host>>
       \/ /\ ~Skip(Cur) /\ NothingToDo(Cur) /\ outcome' = "void" /\ pc' = "save"
          /\ void' = void \cup {Cur}
          /\ NoFault /\ UNCHANGED <<memory, todo, unfinished, missed, entry, host>>
       \/ /\ ~Skip(Cur) /\ ~NothingToDo(Cur)
          /\ \/ /\ memory' = Effect(Cur)
                /\ outcome' = "applied" /\ pc' = "save"
                /\ NoFault /\ UNCHANGED <<void, todo, unfinished, missed, entry, host>>
             \/ memory.task # Effect(Cur).task /\ WriteRefused
    /\ UNCHANGED <<item, clock, bounds, place, wav, disk, record, seen, recorded, replay, asked>>

------------------------------------------------------------------------------
(* Captures *)

IsCapture(i) == Kind(i) \in {"capture", "shortcut", "audio"}
(* A capture that is stored under its id is a replay. *)
Stored(i) == HasUuid(i) /\ memory.made[i] # "none"

(* captureAddProject: a +Project is named by its capture, so that a replay   *)
(* finds it; one deleted since is not used again.                            *)
WithProject(i) ==
    IF Kind(i) = "capture" /\ memory.project[i] = "none"
    THEN [memory EXCEPT !.project[i] = "live"] ELSE memory

(* A voice capture is transcribed first. *)
Assemble ==
    /\ pc = "item" /\ todo # <<>> /\ IsCapture(Cur)
    /\ outcome' = "" /\ recorded' = TRUE
    /\ \/ /\ Stored(Cur) /\ pc' = "save" /\ NoFault
          /\ UNCHANGED <<memory, todo, unfinished>>
       \/ /\ ~Stored(Cur) /\ Kind(Cur) = "audio" /\ Fault("transcribe")
          /\ NextItem /\ UNCHANGED <<memory, unfinished>>
       \/ /\ ~Stored(Cur) /\ NoFault /\ pc' = "addTask"
          /\ memory' = WithProject(Cur)
          /\ UNCHANGED <<todo, unfinished>>
    /\ Elsewhere
    /\ UNCHANGED <<place, wav, disk, record, seen, missed, void>>

AddTask ==
    /\ pc = "addTask"
    /\ \/ /\ memory' = [memory EXCEPT !.made[Cur] = "live", !.applied = @ \cup {Cur}]
          /\ pc' = "save"
          /\ NoFault /\ UNCHANGED <<todo, unfinished, missed, entry, host, void, outcome>>
       \/ WriteRefused
    /\ UNCHANGED <<item, clock, bounds, place, wav, disk, record, seen, recorded, replay, asked>>

Discard ==
    /\ pc = "item" /\ todo # <<>> /\ Kind(Cur) = "malformed" /\ NextItem
    /\ \/ place' = [place EXCEPT ![Cur] = "gone"] /\ NoFault
       \/ Fault("delete") /\ UNCHANGED place
    /\ Elsewhere
    /\ UNCHANGED <<wav, memory, disk, record, seen, outcome, recorded, unfinished, missed, void>>

------------------------------------------------------------------------------
(* What every item ends with *)

AfterSave == IF outcome = "applied" THEN "remember" ELSE "delete"
(* Mutation of FlushPendingSave: a failed save does not stop the item. *)
FlushBestEffort ==
    /\ pc = "save" /\ pc' = AfterSave
    /\ \/ disk' = memory /\ NoFault
       \/ Fault("save") /\ UNCHANGED disk
    /\ Elsewhere
    /\ UNCHANGED <<place, wav, memory, record, todo, seen, outcome, recorded, unfinished, missed, void>>
FlushPendingSave ==
    /\ pc = "save"
    /\ \/ /\ disk' = memory /\ pc' = AfterSave
          /\ NoFault /\ UNCHANGED <<todo, unfinished>>
       \/ Fault("save") /\ Unfinished("owed") /\ UNCHANGED disk
    /\ Elsewhere
    /\ UNCHANGED <<place, wav, memory, record, seen, outcome, recorded, missed, void>>

(* A record that does not reach the disk still removes the file. *)
Remember ==
    /\ pc = "remember" /\ pc' = "delete"
    /\ seen' = [seen EXCEPT !.of[item[Cur].task] = [tap |-> item[Cur].tap, id |-> Cur]]
    /\ \/ record' = seen'.of /\ recorded' = TRUE /\ NoFault
       \/ Fault("recordWrite") /\ recorded' = FALSE /\ UNCHANGED record
    /\ Elsewhere
    /\ UNCHANGED <<place, wav, memory, disk, todo, outcome, unfinished, missed, void>>

(* A command whose record did not reach the disk is owed. *)
Unrecorded == IF IsCommand(Cur) /\ ~recorded THEN {"owed"} ELSE {}
(* Mutation of Delete: the recording goes first. *)
DeleteAudioFirst ==
    /\ pc = "delete"
    /\ \/ /\ place' = [place EXCEPT ![Cur] = "gone"] /\ wav' = wav \ {Cur} /\ NoFault
          /\ NextItem /\ unfinished' = unfinished \cup Unrecorded
       \/ Fault("delete") /\ Unfinished("owed") /\ wav' = wav \ {Cur} /\ UNCHANGED place
    /\ recorded' = TRUE /\ Elsewhere
    /\ UNCHANGED <<memory, disk, record, seen, outcome, missed, void>>
(* Mutation of Delete: a skipped command is kept. *)
DeleteApplied ==
    /\ pc = "delete" /\ NextItem /\ NoFault /\ recorded' = TRUE
    /\ place' = IF outcome = "skipped" THEN place ELSE [place EXCEPT ![Cur] = "gone"]
    /\ Elsewhere
    /\ UNCHANGED <<wav, memory, disk, record, seen, outcome, unfinished, missed, void>>
(* The queue file goes before its recording. *)
Delete ==
    /\ pc = "delete" /\ UNCHANGED wav
    /\ \/ /\ place' = [place EXCEPT ![Cur] = "gone"] /\ NoFault
          /\ IF Kind(Cur) = "audio" THEN pc' = "deleteAudio" /\ UNCHANGED todo ELSE NextItem
          /\ unfinished' = unfinished \cup Unrecorded
       \/ Fault("delete") /\ Unfinished("owed") /\ UNCHANGED place
    /\ recorded' = TRUE /\ Elsewhere
    /\ UNCHANGED <<memory, disk, record, seen, outcome, missed, void>>
DeleteAudio ==
    /\ pc = "deleteAudio" /\ NextItem
    /\ \/ wav' = wav \ {Cur} /\ NoFault
       \/ Fault("audioDelete") /\ UNCHANGED wav
    /\ Elsewhere
    /\ UNCHANGED <<place, memory, disk, record, seen, outcome, recorded, unfinished, missed, void>>

------------------------------------------------------------------------------
Drain ==
    \/ StartDrain \/ EndDrain \/ ReadRecord \/ NoRecord \/ ApplyCommand \/ Assemble \/ AddTask
    \/ Discard \/ FlushPendingSave \/ Remember \/ Delete \/ DeleteAudio
Step ==
    \/ \E i \in use.items, kind \in use.kinds, t \in Tasks : Tap(i, kind, t)
    \/ \E i \in Items : Deliver(i)
    \/ \E t \in Tasks : Ask(t) \/ EditTask(t)
    \/ \E i \in Items : DeleteMade(i)
    \/ Save \/ Crash \/ HostGoesOn \/ Drain

Next == Step /\ UNCHANGED use

(* The app is opened again and again, a drain that has begun goes on, and the *)
(* native host tries a failed one again.                                      *)
Fairness == WF_vars((HostGoesOn \/ Drain) /\ UNCHANGED use)

Spec == Init /\ [][Next]_vars /\ Fairness

------------------------------------------------------------------------------
TypeOK ==
    /\ \A i \in Items : item[i].kind \in AllKinds /\ item[i].task \in Tasks /\ item[i].tap \in 0..clock
    /\ place \in [Items -> {"unused", "sent", "queued", "gone"}]
    /\ \A s \in {memory, disk} :
          /\ \A t \in Tasks : s.task[t].status \in {"next", "done", "deleted"} /\ s.task[t].start \in 0..clock
          /\ s.made \in [Items -> {"none", "live", "deleted"}]
          /\ s.project \in [Items -> {"none", "live", "deleted"}]
    /\ pc \in {"idle", "item", "addTask", "save", "remember", "delete", "deleteAudio"}
    /\ pc \notin {"idle", "item"} => todo # <<>>
    /\ outcome \in {"", "applied", "skipped", "void"} /\ seen.state \in {"unread", "read", "failed"}
    /\ memory.overruled \subseteq memory.applied /\ memory.applied \cup void \subseteq Items
    /\ \A b \in {recorded, replay, entry} : b \in BOOLEAN
    /\ unfinished \subseteq {"owed", "queued"} /\ missed \subseteq Items /\ asked \subseteq Tasks
    /\ host \in {"booting", "open", "failed", "owing"}
    /\ faults <= use.faults /\ crashes <= use.crashes /\ edits <= use.edits

(* "A queue file is deleted only after the store saved its write": whatever   *)
(* fails, a capture whose file is gone has a task on disk, and so has a       *)
(* command its effect, unless there was nothing to do or a later command on   *)
(* the same task has had its effect.                                          *)
NothingIsLost ==
    \A i \in Items : place[i] = "gone" /\ Kind(i) # "malformed" =>
        \/ IsCapture(i) /\ disk.made[i] # "none"
        \/ i \in disk.applied \cup void
        \/ \E j \in disk.applied : /\ IsCommand(i) /\ IsCommand(j)
                            /\ item[j].task = item[i].task /\ item[j].tap > item[i].tap

(* The drain writes the store for item i. *)
DrainWrites(i) ==
    /\ todo # <<>> /\ Cur = i
    /\ pc \in {"item", "addTask"} /\ pc' \in {"addTask", "save"} /\ pc' # pc
    /\ \/ memory'.task # memory.task \/ memory'.made # memory.made
       \/ memory'.project # memory.project

(* "A kill between them replays the item, and the replay writes nothing": no  *)
(* drain stores a capture twice or brings back what the user has deleted.     *)
(* "Until its replay, a reopen would be undone by that item's retry": nor     *)
(* does it write again a command that has had its effect and that an edit has *)
(* overruled since, wherever the host let that edit go on with no failed      *)
(* drain on record.  A shortcut has no UUID and may be stored twice.          *)
ReplayWritesNothing ==
    [][\A i \in memory.applied :
          i \in memory.overruled \/ Kind(i) \in {"capture", "audio"} => ~DrainWrites(i)]_vars

(* The commands on a task that nobody edits, however late and in whatever     *)
(* order the Watch delivers them: when they are all taken, the newest has had *)
(* its way, though a defer comes too late for a task that is done.            *)
NewestWins ==
    \A t \in Tasks :
        LET mine == {i \in Items : place[i] # "unused" /\ IsCommand(i) /\ item[i].task = t}
        IN  edits = 0 /\ "recordWrite" \notin use.faulty /\ (\A i \in mine : place[i] = "gone") =>
               \A i \in mine : (\A j \in mine : item[j].tap <= item[i].tap) =>
                  \/ memory.task[t].status = "done" /\ \E j \in mine : Kind(j) # "defer"
                  \/ Kind(i) = "defer" /\ memory.task[t].start = item[i].tap

(* "The queue must be gone before its WAV": a voice capture that may have to  *)
(* be transcribed again still has its recording.                              *)
RecordingIsKept == \A i \in Items : Kind(i) = "audio" /\ place[i] \in {"sent", "queued"} => i \in wav

(* Every queued item is taken in the end, whatever failed before: again and   *)
(* again nothing is queued.                                                   *)
EventuallyTaken == []<>(\A i \in Items : place[i] # "queued")

(* Whatever fails, dies or arrives late, a queued item is not lost, nor      *)
(* overruled by an older one, nor its recording deleted before it.           *)
CapturesInv == TypeOK /\ NothingIsLost /\ NewestWins /\ RecordingIsKept
==============================================================================
