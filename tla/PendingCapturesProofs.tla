----------------------- MODULE PendingCapturesProofs -------------------------
(***************************************************************************)
(* PendingCaptures for every number of files, tasks and failures.          *)
(***************************************************************************)
EXTENDS PendingCaptures, FiniteSetTheorems, SequenceTheorems, TLAPS

-----------------------------------------------------------------------------
Store ==
    [task : [Tasks -> [status : {"next", "done", "deleted"}, start : Nat]],
     made : [Items -> {"none", "live", "deleted"}],
     project : [Items -> {"none", "live", "deleted"}],
     applied : SUBSET Items, overruled : SUBSET Items]
Record == [Tasks -> [tap : Nat, id : Items \cup {0}]]

FilesTyped ==
    /\ item \in [Items -> [kind : AllKinds, task : Tasks, tap : Nat]]
    /\ place \in [Items -> {"unused", "sent", "queued", "gone"}]
    /\ wav \subseteq Items
StoresTyped == memory \in Store /\ disk \in Store /\ record \in Record /\ void \subseteq Items
DrainTyped ==
    /\ pc \in {"idle", "item", "addTask", "save", "remember", "delete", "deleteAudio"}
    /\ todo \in Seq(Items) /\ seen \in [state : {"unread", "read", "failed"}, of : Record]
    /\ outcome \in {"", "applied", "skipped", "void"}
    /\ recorded \in BOOLEAN /\ replay \in BOOLEAN
    /\ unfinished \subseteq {"owed", "queued"} /\ missed \subseteq Items
HostTyped ==
    /\ entry \in BOOLEAN /\ host \in {"booting", "open", "failed", "owing"} /\ asked \subseteq Tasks
    /\ asked # {} => edits # 0
CountersTyped ==
    /\ use \in Uses /\ clock \in Nat
    /\ faults \in 0..use.faults /\ crashes \in 0..use.crashes /\ edits \in 0..use.edits
Typed == FilesTyped /\ StoresTyped /\ DrainTyped /\ HostTyped /\ CountersTyped

Used(i) == place[i] # "unused"

(* Every file has a tap of its own, and what it holds stays. *)
TapsDiffer ==
    /\ \A i \in Items : item[i].tap <= clock
    /\ \A i \in Items : Used(i) => item[i].tap > 0 /\ Kind(i) \in use.kinds
    /\ \A i, j \in Items : Used(i) /\ Used(j) /\ item[i].tap = item[j].tap => i = j

(* The drain works through queued files, each of them once; only a recording *)
(* is deleted after its file.                                                *)
WorksThroughQueue ==
    /\ pc \notin {"idle", "item"} => todo # <<>>
    /\ pc = "idle" => todo = <<>>
    /\ \A k \in 1..Len(todo) :
          /\ place[todo[k]] = IF pc = "deleteAudio" /\ k = 1 THEN "gone" ELSE "queued"
          /\ \A m \in 1..Len(todo) : todo[k] = todo[m] => k = m

(* Only files that have been queued have left anything in the store. *)
StoreOf(s) ==
    /\ s.overruled \subseteq s.applied
    /\ \A t \in Tasks : s.task[t].start <= clock
    /\ \A i \in s.applied : place[i] \in {"queued", "gone"}
    /\ \A i \in s.applied : IsCapture(i) => s.made[i] # "none"

(* Disk is the store of an earlier moment. *)
DiskFollows ==
    /\ StoreOf(memory) /\ StoreOf(disk)
    /\ disk.applied \subseteq memory.applied /\ disk.overruled \subseteq memory.overruled
    /\ \A i \in Items : disk.made[i] # "none" => memory.made[i] # "none"

(* A record names a command on that task whose effect is on disk. *)
Proves(r) ==
    \A t \in Tasks :
        \/ r[t] = None
        \/ /\ r[t].id \in disk.applied /\ IsCommand(r[t].id)
           /\ item[r[t].id].task = t /\ item[r[t].id].tap = r[t].tap
RecordsProve ==
    /\ Proves(record) /\ Proves(seen.of)
    /\ seen.state = "read" => \A t \in Tasks : record[t].tap <= seen.of[t].tap

(* The item at the head, and what has happened to it so far. *)
Taken(s, i) ==
    \/ IsCapture(i) /\ s.made[i] # "none"
    \/ outcome = "applied" /\ i \in s.applied
    \/ outcome = "void" /\ i \in void
    \/ outcome = "skipped" /\ Skip(i)
HeadProgresses ==
    /\ pc \in {"save", "remember", "delete"} =>
          /\ Kind(Cur) # "malformed"
          /\ IsCommand(Cur) => seen.state = "read" /\ outcome # ""
          /\ IsCapture(Cur) => outcome = ""
          /\ Taken(memory, Cur)
    /\ pc \in {"remember", "delete"} => Taken(disk, Cur)
    /\ pc = "addTask" => IsCapture(Cur) /\ outcome = ""
                         /\ (HasUuid(Cur) => memory.made[Cur] = "none")
    /\ pc = "remember" => outcome = "applied"
    /\ pc \in {"save", "remember"} /\ outcome = "applied" => item[Cur].tap >= seen.of[item[Cur].task].tap
    /\ pc = "deleteAudio" => Kind(Cur) = "audio"

CapturesBase ==
    /\ Typed /\ TapsDiffer /\ WorksThroughQueue /\ DiskFollows /\ RecordsProve /\ HeadProgresses
    /\ NothingIsLost /\ RecordingIsKept

-----------------------------------------------------------------------------
(* Nobody edits, and every record reaches the disk. *)
Undisturbed == edits = 0 /\ "recordWrite" \notin use.faulty

(* The task is done by a command, or put off by one from r on. *)
Ruled(s, t, r) ==
    \/ s.task[t].status = "done"
    \/ \E j \in Items : /\ Used(j) /\ Kind(j) = "defer" /\ item[j].task = t
                        /\ s.task[t].start = item[j].tap /\ r <= item[j].tap
(* ... and by this one, or one after it. *)
HasRuled(s, i) ==
    \/ s.task[item[i].task].status = "done"
    \/ Kind(i) = "defer" /\ s.task[item[i].task].start = item[i].tap

CommandsRule(s) ==
    \A t \in Tasks :
        /\ s.task[t].status # "deleted"
        /\ s.task[t].status = "done" =>
              \E j \in Items : Used(j) /\ Kind(j) \in {"widget", "watch"} /\ item[j].task = t
        /\ record[t] # None => Ruled(s, t, record[t].tap)

Overtaken(i) ==
    \/ Kind(i) = "defer" /\ disk.task[item[i].task].status = "done"
    \/ item[i].tap <= record[item[i].task].tap

(* In memory and on disk; disk is not ahead, nor is the record it holds. *)
StoreRules ==
    /\ CommandsRule(memory) /\ CommandsRule(disk)
    /\ \A t \in Tasks : disk.task[t].status = "done" => memory.task[t].status = "done"
    /\ seen.state = "read" => seen.of = record
(* The item at the head, from its effect to the record of it. *)
HeadRules ==
    /\ pc \in {"save", "remember"} /\ outcome = "applied" => HasRuled(memory, Cur)
    /\ pc = "remember" => HasRuled(disk, Cur)
    /\ pc = "save" /\ outcome = "void" => Kind(Cur) = "defer" /\ memory.task[item[Cur].task].status = "done"
    /\ pc = "delete" /\ IsCommand(Cur) => Overtaken(Cur)
TakenRule == \A i \in Items : place[i] = "gone" /\ IsCommand(i) => Overtaken(i)
NewestRule == Undisturbed => StoreRules /\ HeadRules /\ TakenRule

-----------------------------------------------------------------------------
(* A command that no drain will take again. *)
Settled(i) == place[i] = "gone" \/ item[i].tap <= record[item[i].task].tap
InTodo(i) == \E k \in 1..Len(todo) : todo[k] = i

EditsFindSettled ==
    /\ ~EditsWait => memory.overruled = {}
    /\ EditsWait =>
          /\ \A i \in memory.overruled : Settled(i)
          /\ pc = "idle" /\ host = "open" => ~entry
          /\ pc = "idle" /\ ~entry /\ host # "booting" =>
                \A i \in memory.applied : IsCommand(i) => i \in missed \/ Settled(i)
          /\ pc # "idle" /\ ~Owed =>
                \A i \in memory.applied : IsCommand(i) => i \in missed \/ InTodo(i) \/ Settled(i)
    /\ \A i \in memory.overruled : IsCommand(i)

-----------------------------------------------------------------------------
(* The head of the entries, and what is left without it. *)
LEMMA HeadAndRest ==
    ASSUME Typed, todo # <<>>
    PROVE  /\ Cur \in Items /\ Cur = todo[1] /\ 1 \in 1..Len(todo) /\ Len(todo) \in Nat
           /\ Tail(todo) \in Seq(Items)
           /\ Len(Tail(todo)) = Len(todo) - 1
           /\ \A k \in 1..Len(Tail(todo)) : k + 1 \in 1..Len(todo) /\ Tail(todo)[k] = todo[k + 1]
<1>1. todo \in Seq(Items)
  BY DEF Typed, DrainTyped
<1>2. Cur = todo[1] /\ Len(todo) \in Nat \ {0}
  BY <1>1 DEF Cur
<1>3. /\ Cur \in Items /\ Tail(todo) \in Seq(Items) /\ Len(Tail(todo)) = Len(todo) - 1
      /\ \A k \in 1..Len(Tail(todo)) : Tail(todo)[k] = todo[k + 1]
  BY <1>1, HeadTailProperties DEF Cur
<1> QED BY <1>2, <1>3

(* A drain's entries are the files that are queued, each of them once. *)
LEMMA EntriesOfDrain ==
    ASSUME Typed, NEW files \in SUBSET Items, NEW s \in DrainOrders(files)
    PROVE  /\ s \in Seq(Items) /\ Len(s) \in Nat
           /\ \A k \in 1..Len(s) : s[k] \in files
           /\ \A k, m \in 1..Len(s) : s[k] = s[m] => k = m
           /\ \A i \in files : \E k \in 1..Len(s) : s[k] = i
<1>1. IsFiniteSet(files) /\ Cardinality(files) \in Nat
  BY CapturesConstants, FS_Subset, FS_CardinalityType
<1> DEFINE n == Cardinality(files)
<1>2. /\ s \in [1..n -> files]
      /\ \A k, m \in 1..n : k # m => s[k] # s[m]
  BY DEF DrainOrders, SetToSeqs
<1>3. s \in Seq(files) /\ Len(s) = n
  BY <1>1, <1>2
<1>4. s \in Seq(Items)
  BY <1>1, <1>2
<1>5. s \in Surjection(1..n, files)
  <2>1. s \in Injection(1..n, files)
    BY <1>2 DEF Injection, IsInjective
  <2>2. IsFiniteSet(1..n) /\ Cardinality(1..n) = n
    BY <1>1, FS_Interval
  <2> QED BY <1>1, <2>1, <2>2, FS_Injection
<1> QED BY <1>1, <1>2, <1>3, <1>4, <1>5 DEF Surjection

LEMMA InitTyped == Init => Typed
<1> SUFFICES ASSUME Init PROVE Typed
  OBVIOUS
<1>1. use \in Uses /\ IsUse(use)
  BY CapturesConstants DEF Init
<1>2. (CHOOSE t \in Tasks : TRUE) \in Tasks
  BY CapturesConstants
<1>3. item \in [Items -> [kind : AllKinds, task : Tasks, tap : Nat]]
  BY <1>2 DEF Init, AllKinds
<1>4. EmptyStore \in Store
  BY DEF EmptyStore, Store
<1>5. [t \in Tasks |-> None] \in Record
  BY DEF None, Record
<1>6. NotRead \in [state : {"unread", "read", "failed"}, of : Record]
  BY <1>5 DEF NotRead
<1>7. faults \in 0..use.faults /\ crashes \in 0..use.crashes /\ edits \in 0..use.edits
  <2>1. use.faults \in Nat /\ use.crashes \in Nat /\ use.edits \in Nat
    BY <1>1 DEF IsUse
  <2>2. faults = 0 /\ crashes = 0 /\ edits = 0
    BY DEF Init
  <2> QED BY <2>1, <2>2
<1>8. todo \in Seq(Items)
  <2>1. todo = <<>>
    BY DEF Init
  <2> QED BY <2>1
<1>9. host \in {"booting", "open", "failed", "owing"} /\ asked = {}
  BY DEF Init, Booted
<1> QED
  BY <1>1, <1>3, <1>4, <1>5, <1>6, <1>7, <1>8, <1>9
  DEF Init, Typed, FilesTyped, StoresTyped, DrainTyped, HostTyped, CountersTyped

(* Its entries get fewer from item to item. *)
LEMMA NextItemTyped ==
    ASSUME Typed, todo # <<>>, NextItem
    PROVE  todo' \in Seq(Items) /\ pc' = "item"
  BY HeadAndRest DEF NextItem

(* Failed calls are counted, and a record that is not there is empty. *)
LEMMA FaultTyped ==
    ASSUME Typed, NEW call, NoFault \/ Fault(call)
    PROVE  faults' \in 0..use.faults
<1>1. use.faults \in Nat /\ faults \in 0..use.faults
  BY CapturesConstants DEF Typed, CountersTyped, IsUse
<1> QED BY <1>1 DEF NoFault, Fault

LEMMA EmptyRecordTyped ==
    /\ None \in [tap : Nat, id : Items \cup {0}]
    /\ NotRead \in [state : {"unread", "read", "failed"}, of : Record]
    /\ \A r \in Record : [state |-> "read", of |-> r] \in [state : {"unread", "read", "failed"}, of : Record]
    /\ [NotRead EXCEPT !.state = "failed"] \in [state : {"unread", "read", "failed"}, of : Record]
  BY DEF NotRead, None, Record

(* An edit is asked for, or the host goes on between two drains. *)
HostMoves == HostGoesOn \/ \E t \in Tasks : Ask(t)
LEMMA HostMovesAlone ==
    ASSUME HostMoves
    PROVE  UNCHANGED <<item, place, clock, wav, memory, disk, record, pc, todo, seen, outcome, recorded,
                       unfinished, replay, missed, entry, faults, crashes, void>>
<1>1. HostGoesOn => UNCHANGED <<item, place, clock, wav, memory, disk, record, pc, todo, seen, outcome, recorded,
                                unfinished, replay, missed, entry, faults, crashes, void>>
  BY DEF HostGoesOn, queueVars, drain, bounds
<1>2. ASSUME NEW t \in Tasks, Ask(t)
      PROVE  UNCHANGED <<item, place, clock, wav, memory, disk, record, pc, todo, seen, outcome, recorded,
                         unfinished, replay, missed, entry, faults, crashes, void>>
  BY <1>2 DEF Ask, queueVars, drain
<1> QED BY <1>1, <1>2 DEF HostMoves

(* What the host makes of an answer, and what a failure leaves of the drain. *)
LEMMA AnswerTyped ==
    ASSUME Typed, NEW failed \in BOOLEAN, Finish(failed)
    PROVE  /\ todo' \in Seq(Items) /\ pc' = "idle" /\ entry' \in BOOLEAN
           /\ host' \in {"booting", "open", "failed", "owing"}
<1>1. EditsWait \in BOOLEAN /\ replay \in BOOLEAN /\ host \in {"booting", "open", "failed", "owing"}
  BY CapturesConstants DEF Typed, CountersTyped, DrainTyped, HostTyped, IsUse, EditsWait
<1>2. HostAfter(failed) \in {"booting", "open", "failed", "owing"}
  BY <1>1 DEF HostAfter, Owed
<1> QED BY <1>2 DEF Finish

LEMMA FailureTyped ==
    ASSUME Typed, NEW state \in {"owed", "queued"}, Unfinished(state)
    PROVE  unfinished' \subseteq {"owed", "queued"}
  BY DEF Unfinished, Typed, DrainTyped

LEMMA RefusalTyped ==
    ASSUME Typed, todo # <<>>, WriteRefused
    PROVE  /\ unfinished' \subseteq {"owed", "queued"} /\ missed' \subseteq Items
           /\ entry' \in BOOLEAN /\ host' \in {"booting", "open", "failed", "owing"}
<1>1. /\ unfinished \subseteq {"owed", "queued"} /\ missed \subseteq Items /\ todo \in Seq(Items)
      /\ entry \in BOOLEAN /\ host \in {"booting", "open", "failed", "owing"} /\ Cur \in Items
  BY HeadAndRest DEF Typed, DrainTyped, HostTyped
<1>2. Range(todo) \subseteq Items
  BY <1>1 DEF Range
<1>3. CASE Unfinished("queued") /\ PassedOver({Cur}) /\ UNCHANGED <<entry, host>>
  BY <1>1, <1>3, FailureTyped DEF PassedOver
<1>4. CASE Finish(TRUE) /\ PassedOver(Range(todo)) /\ UNCHANGED unfinished
  BY <1>1, <1>2, <1>4, AnswerTyped DEF PassedOver
<1> QED BY <1>3, <1>4 DEF WriteRefused

LEMMA KeptTyped ==
    ASSUME Typed
    PROVE  /\ UNCHANGED <<pc, drain>> => DrainTyped'
           /\ UNCHANGED <<hostVars, edits>> => HostTyped'
           /\ UNCHANGED <<hostVars, bounds>> => HostTyped'
<1>1. UNCHANGED <<pc, drain>> => DrainTyped'
  BY DEF Typed, DrainTyped, drain
<1>2. UNCHANGED <<hostVars, edits>> => HostTyped'
  BY DEF Typed, HostTyped, hostVars
<1>3. bounds' = bounds => edits' = edits
  BY DEF bounds
<1> QED BY <1>1, <1>2, <1>3

(* No step spoils a type. *)
LEMMA StepTyped ==
    ASSUME Typed, pc \notin {"idle", "item"} => todo # <<>>, [Next]_vars
    PROVE  Typed'
<1>0. /\ use \in Uses /\ EditsWait \in BOOLEAN /\ use.items \subseteq Items /\ use.kinds \subseteq AllKinds
      /\ use.faults \in Nat /\ use.crashes \in Nat /\ use.edits \in Nat
      /\ clock \in Nat /\ faults \in 0..use.faults /\ crashes \in 0..use.crashes /\ edits \in 0..use.edits
  BY CapturesConstants DEF Typed, CountersTyped, IsUse, EditsWait
<1>1. ASSUME NEW i \in use.items, NEW kind \in use.kinds, NEW t \in Tasks, Tap(i, kind, t), UNCHANGED use
      PROVE  Typed'
  <2>1. clock' \in Nat /\ clock + 1 \in Nat
    BY <1>0, <1>1 DEF Tap
  <2>2. i \in Items /\ kind \in AllKinds
    BY <1>0
  <2>3. FilesTyped'
    BY <1>1, <2>1, <2>2 DEF Tap, Typed, FilesTyped
  <2>4. DrainTyped' /\ HostTyped'
    BY <1>1, KeptTyped DEF Tap
  <2> QED BY <1>1, <2>1, <2>3, <2>4 DEF Tap, Typed, StoresTyped, CountersTyped, bounds
<1>2. ASSUME NEW i \in Items, Deliver(i), UNCHANGED use PROVE Typed'
  <2>1. DrainTyped' /\ HostTyped'
    BY <1>2, KeptTyped DEF Deliver
  <2> QED BY <1>2, <2>1 DEF Deliver, Typed, FilesTyped, StoresTyped, CountersTyped, bounds
<1>3. ASSUME NEW t \in Tasks, EditTask(t), UNCHANGED use PROVE Typed'
  <2>1. edits' \in 0..use.edits
    BY <1>0, <1>3 DEF EditTask, MayEdit
  <2>2. memory' \in Store
    <3>1. PICK new \in [status : {"next", "done", "deleted"}, start : {0, memory.task[t].start}] :
            memory' = [memory EXCEPT !.task[t] = new, !.overruled = @ \cup Overruled(t)]
      BY <1>3 DEF EditTask
    <3>2. memory.task[t].start \in Nat
      BY DEF Typed, StoresTyped, Store
    <3>3. new \in [status : {"next", "done", "deleted"}, start : Nat]
      BY <3>2
    <3>4. memory \in Store /\ Overruled(t) \in SUBSET Items
      BY DEF Typed, StoresTyped, Store, Overruled
    <3> QED BY <3>1, <3>3, <3>4 DEF Store
  <2>3. asked' \subseteq Tasks /\ (asked' # {} => edits' # 0)
    BY <1>0, <1>3 DEF EditTask, MayEdit, Typed, HostTyped
  <2>4. DrainTyped'
    BY <1>3, KeptTyped DEF EditTask
  <2>5. HostTyped'
    BY <1>3, <2>3 DEF EditTask, Typed, HostTyped
  <2> QED
    BY <1>3, <2>1, <2>2, <2>4, <2>5
    DEF EditTask, Typed, FilesTyped, StoresTyped, CountersTyped, queueVars
<1>4. ASSUME NEW i \in Items, DeleteMade(i), UNCHANGED use PROVE Typed'
  <2>1. edits' \in 0..use.edits
    BY <1>0, <1>4 DEF DeleteMade, MayEdit
  <2>2. memory' = [memory EXCEPT !.made[i] = "deleted"] \/ memory' = [memory EXCEPT !.project[i] = "deleted"]
    BY <1>4 DEF DeleteMade
  <2>3. memory' \in Store
    <3>1. memory \in Store
      BY DEF Typed, StoresTyped
    <3>2. CASE memory' = [memory EXCEPT !.made[i] = "deleted"]
      BY <3>1, <3>2 DEF Store
    <3>3. CASE memory' = [memory EXCEPT !.project[i] = "deleted"]
      BY <3>1, <3>3 DEF Store
    <3> QED BY <2>2, <3>2, <3>3
  <2>4. DrainTyped'
    BY <1>4, KeptTyped DEF DeleteMade
  <2>5. HostTyped'
    BY <1>0, <1>4 DEF DeleteMade, MayEdit, Typed, HostTyped
  <2> QED
    BY <1>4, <2>1, <2>3, <2>4, <2>5
    DEF DeleteMade, Typed, FilesTyped, StoresTyped, CountersTyped, queueVars
<1>5. CASE Save /\ UNCHANGED use
  <2>1. DrainTyped' /\ HostTyped'
    BY <1>5, KeptTyped DEF Save
  <2> QED BY <1>5, <2>1 DEF Save, Typed, FilesTyped, StoresTyped, CountersTyped, queueVars, bounds
<1>6. CASE Crash /\ UNCHANGED use
  <2>1. crashes' \in 0..use.crashes
    BY <1>0, <1>6 DEF Crash
  <2>2. todo' \in Seq(Items) /\ host' \in {"booting", "open"}
    BY <1>6 DEF Crash, Booted
  <2> QED
    BY <1>6, <2>1, <2>2, EmptyRecordTyped
    DEF Crash, Typed, FilesTyped, StoresTyped, DrainTyped, HostTyped, CountersTyped, queueVars
<1>7. CASE StartDrain /\ UNCHANGED use
  <2> DEFINE files == {i \in Items : place[i] = "queued"}
  <2>1. /\ \A s \in DrainOrders(files) : s \in Seq(Items)
        /\ \A i \in files : \A s \in DrainOrders(files \ {i}) : s \in Seq(Items)
    <3>1. \A f \in SUBSET Items : (\A s \in DrainOrders(f) : s \in Seq(Items))
      BY EntriesOfDrain
    <3> HIDE DEF DrainOrders
    <3> QED BY <3>1
  <2>2. todo' \in Seq(Items) /\ unfinished' \subseteq {"owed", "queued"} /\ missed' \subseteq Items
    BY <1>7, <2>1 DEF StartDrain
  <2>3. faults' \in 0..use.faults
    <3>1. NoFault \/ Fault("read")
      BY <1>7 DEF StartDrain
    <3> QED BY <3>1, FaultTyped
  <2>4. HostTyped'
    BY <1>0, <1>7 DEF StartDrain, Typed, HostTyped, bounds
  <2>5. DrainTyped'
    <3>1. UNCHANGED outcome /\ pc' = "item" /\ recorded' = TRUE /\ replay' = entry /\ seen' = NotRead
      BY <1>7 DEF StartDrain
    <3>2. replay' \in BOOLEAN
      BY <3>1 DEF Typed, HostTyped
    <3> QED BY <2>2, <3>1, <3>2, EmptyRecordTyped DEF Typed, DrainTyped
  <2> QED
    BY <1>7, <2>3, <2>4, <2>5
    DEF StartDrain, Typed, FilesTyped, StoresTyped, CountersTyped, queueVars, bounds
<1>8. CASE EndDrain /\ UNCHANGED use
  <2>1. /\ todo' \in Seq(Items) /\ pc' = "idle" /\ entry' \in BOOLEAN
        /\ host' \in {"booting", "open", "failed", "owing"}
    BY <1>8, AnswerTyped DEF EndDrain
  <2> QED
    BY <1>8, <2>1
    DEF EndDrain, Typed, FilesTyped, StoresTyped, DrainTyped, HostTyped, CountersTyped, queueVars, bounds
<1>9. CASE ReadRecord /\ UNCHANGED use
  <2>1. faults' \in 0..use.faults
    BY <1>9, FaultTyped DEF ReadRecord
  <2>2. seen' \in [state : {"unread", "read", "failed"}, of : Record]
    BY <1>9, EmptyRecordTyped DEF ReadRecord, Typed, StoresTyped
  <2> QED
    BY <1>9, <2>1, <2>2
    DEF ReadRecord, Typed, FilesTyped, StoresTyped, DrainTyped, HostTyped, CountersTyped, hostVars, bounds, Elsewhere
<1>10. CASE NoRecord /\ UNCHANGED use
  <2>1. todo' \in Seq(Items) /\ pc' = "item"
    BY <1>10, NextItemTyped DEF NoRecord, Unfinished
  <2>2. unfinished' \subseteq {"owed", "queued"}
    BY <1>10, FailureTyped DEF NoRecord
  <2>3. missed' \subseteq Items
    BY <1>10, HeadAndRest DEF NoRecord, PassedOver, Typed, DrainTyped
  <2> QED
  BY <1>10, <2>1, <2>2, <2>3
  DEF NoRecord, Typed, FilesTyped, StoresTyped, DrainTyped, HostTyped, CountersTyped, hostVars, bounds, Elsewhere
<1>11. CASE ApplyCommand /\ UNCHANGED use
  <2>1. faults' \in 0..use.faults
    BY <1>11, FaultTyped DEF ApplyCommand, WriteRefused
  <2>2. Cur \in Items /\ item[Cur].task \in Tasks /\ item[Cur].tap \in Nat
    BY <1>11, HeadAndRest DEF ApplyCommand, Typed, FilesTyped
  <2>3. Effect(Cur) \in Store
    <3> DEFINE t == item[Cur].task
               old == memory.task[t]
               new == IF Kind(Cur) = "defer" THEN [old EXCEPT !.start = item[Cur].tap]
                      ELSE [old EXCEPT !.status = "done"]
    <3>1. old \in [status : {"next", "done", "deleted"}, start : Nat]
      BY <2>2 DEF Typed, StoresTyped, Store
    <3>2. new \in [status : {"next", "done", "deleted"}, start : Nat]
      BY <2>2, <3>1
    <3> HIDE DEF new
    <3>3. PICK f : f = [memory.task EXCEPT ![t] = new]
      OBVIOUS
    <3>4. f \in [Tasks -> [status : {"next", "done", "deleted"}, start : Nat]]
      BY <2>2, <3>2, <3>3 DEF Typed, StoresTyped, Store
    <3>5. Effect(Cur) = [memory EXCEPT !.task = f, !.applied = memory.applied \cup {Cur}]
      BY <3>3 DEF Effect, new
    <3>6. PICK a \in SUBSET Items : a = memory.applied \cup {Cur}
      BY <2>2 DEF Typed, StoresTyped, Store
    <3>7. memory \in Store
      BY DEF Typed, StoresTyped
    <3>8. [memory EXCEPT !.task = f, !.applied = a] \in Store
      BY <3>4, <3>7 DEF Store
    <3> QED BY <3>5, <3>6, <3>8
  <2>4. memory' \in Store /\ void' \subseteq Items
    BY <1>11, <2>2, <2>3 DEF ApplyCommand, WriteRefused, Typed, StoresTyped
  <2>5. todo' \in Seq(Items) /\ pc' \in {"item", "save", "idle"}
    <3>1. \/ todo' = todo /\ pc' = "save"
          \/ todo' = <<>> /\ pc' = "idle"
          \/ todo' = Tail(todo) /\ pc' = "item"
      BY <1>11 DEF ApplyCommand, WriteRefused, Unfinished, NextItem, Finish
    <3>2. todo \in Seq(Items)
      BY DEF Typed, DrainTyped
    <3>3. Tail(todo) \in Seq(Items)
      BY <1>11, HeadAndRest DEF ApplyCommand
    <3>4. <<>> \in Seq(Items)
      OBVIOUS
    <3> QED BY <3>1, <3>2, <3>3, <3>4, Zenon
  <2>6. outcome' \in {"", "applied", "skipped", "void"}
    BY <1>11 DEF ApplyCommand, WriteRefused, Typed, DrainTyped
  <2>7. /\ unfinished' \subseteq {"owed", "queued"} /\ missed' \subseteq Items
        /\ entry' \in BOOLEAN /\ host' \in {"booting", "open", "failed", "owing"}
    BY <1>11, RefusalTyped DEF ApplyCommand, Typed, DrainTyped, HostTyped
  <2> QED
    BY <1>11, <2>1, <2>4, <2>5, <2>6, <2>7
    DEF ApplyCommand, Typed, FilesTyped, StoresTyped, DrainTyped, HostTyped, CountersTyped, hostVars, bounds
<1>12. CASE Assemble /\ UNCHANGED use
  <2>1. faults' \in 0..use.faults
    BY <1>12, FaultTyped DEF Assemble
  <2>2. Cur \in Items
    BY <1>12, HeadAndRest DEF Assemble
  <2>3. memory' \in Store
    <3>1. memory' = memory \/ memory' = [memory EXCEPT !.project[Cur] = "live"]
      BY <1>12 DEF Assemble, WithProject
    <3>2. memory \in Store
      BY DEF Typed, StoresTyped
    <3>3. [memory EXCEPT !.project[Cur] = "live"] \in Store
      BY <2>2, <3>2 DEF Store
    <3> QED BY <3>1, <3>2, <3>3
  <2>4. todo' \in Seq(Items) /\ pc' \in {"item", "save", "addTask"}
    BY <1>12, NextItemTyped DEF Assemble, Typed, DrainTyped
  <2> QED
    BY <1>12, <2>1, <2>3, <2>4
    DEF Assemble, Typed, FilesTyped, StoresTyped, DrainTyped, HostTyped, CountersTyped, hostVars, bounds, Elsewhere
<1>13. CASE AddTask /\ UNCHANGED use /\ todo # <<>>
  <2>1. faults' \in 0..use.faults
    BY <1>13, FaultTyped DEF AddTask, WriteRefused
  <2>2. Cur \in Items
    BY <1>13, HeadAndRest
  <2>3. memory' \in Store
    <3>1. memory' = memory \/ memory' = [memory EXCEPT !.made[Cur] = "live", !.applied = @ \cup {Cur}]
      BY <1>13 DEF AddTask, WriteRefused
    <3>2. memory.applied \cup {Cur} \in SUBSET Items
      BY <2>2 DEF Typed, StoresTyped, Store
    <3>3. ASSUME NEW a \in SUBSET Items
          PROVE  [memory EXCEPT !.made[Cur] = "live", !.applied = a] \in Store
      BY DEF Typed, StoresTyped, Store
    <3> QED BY <3>1, <3>2, <3>3 DEF Typed, StoresTyped
  <2>4. todo' \in Seq(Items) /\ pc' \in {"item", "save", "idle"}
    <3>1. \/ todo' = todo /\ pc' = "save"
          \/ todo' = <<>> /\ pc' = "idle"
          \/ todo' = Tail(todo) /\ pc' = "item"
      BY <1>13 DEF AddTask, WriteRefused, Unfinished, NextItem, Finish
    <3>2. todo \in Seq(Items)
      BY DEF Typed, DrainTyped
    <3>3. Tail(todo) \in Seq(Items)
      BY <1>13, HeadAndRest
    <3>4. <<>> \in Seq(Items)
      OBVIOUS
    <3> QED BY <3>1, <3>2, <3>3, <3>4, Zenon
  <2>5. outcome' = outcome /\ void' = void
    BY <1>13 DEF AddTask, WriteRefused
  <2>6. /\ unfinished' \subseteq {"owed", "queued"} /\ missed' \subseteq Items
        /\ entry' \in BOOLEAN /\ host' \in {"booting", "open", "failed", "owing"}
    BY <1>13, RefusalTyped DEF AddTask, Typed, DrainTyped, HostTyped
  <2> QED
    BY <1>13, <2>1, <2>3, <2>4, <2>5, <2>6
    DEF AddTask, Typed, FilesTyped, StoresTyped, DrainTyped, HostTyped, CountersTyped, hostVars, bounds
<1>14. CASE Discard /\ UNCHANGED use
  <2>1. faults' \in 0..use.faults
    BY <1>14, FaultTyped DEF Discard
  <2>2. HostTyped'
    BY <1>14, KeptTyped DEF Discard, Elsewhere
  <2> QED
    BY <1>14, <2>1, <2>2, NextItemTyped
    DEF Discard, Typed, FilesTyped, StoresTyped, DrainTyped, CountersTyped, bounds, Elsewhere
<1>15. CASE FlushPendingSave /\ UNCHANGED use /\ todo # <<>>
  <2>1. faults' \in 0..use.faults
    BY <1>15, FaultTyped DEF FlushPendingSave
  <2>2. todo' \in Seq(Items) /\ pc' \in {"remember", "delete", "item"}
    BY <1>15, NextItemTyped DEF FlushPendingSave, AfterSave, Unfinished, Typed, DrainTyped
  <2>3. unfinished' \subseteq {"owed", "queued"}
    BY <1>15, FailureTyped DEF FlushPendingSave, Typed, DrainTyped
  <2>4. HostTyped'
    BY <1>15, KeptTyped DEF FlushPendingSave, Elsewhere
  <2> QED
    BY <1>15, <2>1, <2>2, <2>3, <2>4
    DEF FlushPendingSave, Typed, FilesTyped, StoresTyped, DrainTyped, CountersTyped, bounds, Elsewhere
<1>16. CASE Remember /\ UNCHANGED use /\ todo # <<>>
  <2>1. faults' \in 0..use.faults
    BY <1>16, FaultTyped DEF Remember
  <2>2. Cur \in Items /\ item[Cur].task \in Tasks /\ item[Cur].tap \in Nat
    BY <1>16, HeadAndRest DEF Typed, FilesTyped
  <2>3. seen' \in [state : {"unread", "read", "failed"}, of : Record]
    BY <1>16, <2>2 DEF Remember, Typed, DrainTyped, Record
  <2>4. record' \in Record /\ recorded' \in BOOLEAN
    BY <1>16, <2>3 DEF Remember, Typed, StoresTyped
  <2> QED
    BY <1>16, <2>1, <2>3, <2>4
    DEF Remember, Typed, FilesTyped, StoresTyped, DrainTyped, HostTyped, CountersTyped, hostVars, bounds, Elsewhere
<1>17. CASE Delete /\ UNCHANGED use /\ todo # <<>>
  <2>1. faults' \in 0..use.faults
    BY <1>17, FaultTyped DEF Delete
  <2>2. FilesTyped'
    BY <1>17 DEF Delete, Typed, FilesTyped, Elsewhere
  <2>3. todo' \in Seq(Items) /\ pc' \in {"item", "deleteAudio"}
    BY <1>17, NextItemTyped DEF Delete, Unfinished, Typed, DrainTyped
  <2>4. unfinished' \subseteq {"owed", "queued"}
    BY <1>17, FailureTyped DEF Delete, Unrecorded, Typed, DrainTyped
  <2> QED
    BY <1>17, <2>1, <2>2, <2>3, <2>4
    DEF Delete, Typed, StoresTyped, DrainTyped, HostTyped, CountersTyped, hostVars, bounds, Elsewhere
<1>18. CASE DeleteAudio /\ UNCHANGED use /\ todo # <<>>
  <2>1. faults' \in 0..use.faults
    BY <1>18, FaultTyped DEF DeleteAudio
  <2>2. FilesTyped'
    BY <1>18 DEF DeleteAudio, Typed, FilesTyped, Elsewhere
  <2> QED
    BY <1>18, <2>1, <2>2, NextItemTyped
    DEF DeleteAudio, Typed, StoresTyped, DrainTyped, HostTyped, CountersTyped, hostVars, bounds, Elsewhere
<1>19. CASE UNCHANGED vars
  <2>1. DrainTyped' /\ HostTyped'
    BY <1>19, KeptTyped DEF vars
  <2> QED BY <1>19, <2>1 DEF vars, Typed, FilesTyped, StoresTyped, CountersTyped, queueVars, bounds
<1>20. CASE HostMoves /\ UNCHANGED use
  <2>1. /\ edits' \in 0..use.edits /\ host' \in {"booting", "open", "failed", "owing"}
        /\ asked' \subseteq Tasks /\ (asked' # {} => edits' # 0)
    BY <1>0, <1>20 DEF HostMoves, HostGoesOn, Ask, bounds, Typed, HostTyped
  <2> QED
    BY <1>20, <2>1, HostMovesAlone
    DEF Typed, FilesTyped, StoresTyped, DrainTyped, HostTyped, CountersTyped
<1>21. AddTask \/ FlushPendingSave \/ Remember \/ Delete \/ DeleteAudio => todo # <<>>
  BY DEF AddTask, FlushPendingSave, Remember, Delete, DeleteAudio
<1> QED
  BY <1>1, <1>2, <1>3, <1>4, <1>5, <1>6, <1>7, <1>8, <1>9, <1>10, <1>11, <1>12, <1>13, <1>14, <1>15,
     <1>16, <1>17, <1>18, <1>19, <1>20, <1>21, Zenon
  DEF Next, Step, Drain, HostMoves

-----------------------------------------------------------------------------
(* The steps that touch a file. *)
LEMMA FilesMove ==
    ASSUME [Next]_vars
    PROVE  /\ use' = use
           /\ \/ \E i \in use.items, kind \in use.kinds, t \in Tasks : Tap(i, kind, t)
              \/ \E i \in Items : Deliver(i)
              \/ Discard
              \/ Delete
              \/ UNCHANGED <<item, place, clock>>
<1>1. ASSUME NEW t \in Tasks, EditTask(t) PROVE UNCHANGED <<item, place, clock>>
  BY <1>1 DEF EditTask, queueVars
<1>2. ASSUME NEW i \in Items, DeleteMade(i) PROVE UNCHANGED <<item, place, clock>>
  BY <1>2 DEF DeleteMade, queueVars
<1>3. Save \/ Crash \/ StartDrain \/ EndDrain => UNCHANGED <<item, place, clock>>
  BY DEF Save, Crash, StartDrain, EndDrain, queueVars
<1>4. ReadRecord \/ NoRecord \/ ApplyCommand \/ Assemble \/ AddTask => UNCHANGED <<item, place, clock>>
  BY DEF ReadRecord, NoRecord, ApplyCommand, Assemble, AddTask, Elsewhere
<1>5. FlushPendingSave \/ Remember \/ DeleteAudio => UNCHANGED <<item, place, clock>>
  BY DEF FlushPendingSave, Remember, DeleteAudio, Elsewhere
<1>6. UNCHANGED vars => UNCHANGED <<item, place, clock, use>>
  BY DEF vars, queueVars
<1>7. HostMoves => UNCHANGED <<item, place, clock>>
  BY HostMovesAlone
<1> QED
  BY <1>1, <1>2, <1>3, <1>4, <1>5, <1>6, <1>7, Zenon DEF Next, Step, Drain, HostMoves

(* A file that is used keeps what it holds, and goes from the queue only. *)
LEMMA PlacesAdvance ==
    ASSUME Typed, WorksThroughQueue, [Next]_vars
    PROVE  /\ clock' \in Nat /\ clock <= clock'
           /\ \A i \in Items :
                 /\ Used(i) => Used(i)' /\ item'[i] = item[i]
                 /\ place[i] \in {"queued", "gone"} => place'[i] \in {"queued", "gone"}
                 /\ place[i] = "gone" => place'[i] = "gone"
                 /\ place'[i] = "gone" =>
                       place[i] = "gone" \/ (i = Cur /\ (Discard \/ Delete) /\ todo # <<>> /\ place[Cur] = "queued")
<1>0. /\ clock \in Nat /\ place \in [Items -> {"unused", "sent", "queued", "gone"}]
      /\ use.items \subseteq Items
  BY CapturesConstants DEF Typed, CountersTyped, FilesTyped, IsUse
<1>1. ASSUME NEW i \in use.items, NEW kind \in use.kinds, NEW t \in Tasks, Tap(i, kind, t)
      PROVE  /\ clock' = clock + 1
             /\ \A j \in Items : j # i => item'[j] = item[j] /\ place'[j] = place[j]
             /\ place[i] = "unused" /\ place'[i] = "sent"
  BY <1>0, <1>1 DEF Tap, Typed, FilesTyped
<1>2. ASSUME NEW i \in Items, Deliver(i)
      PROVE  /\ UNCHANGED <<item, clock>>
             /\ \A j \in Items : j # i => place'[j] = place[j]
             /\ place[i] = "sent" /\ place'[i] = "queued"
  BY <1>0, <1>2 DEF Deliver
<1>3. ASSUME Discard \/ Delete
      PROVE  /\ UNCHANGED <<item, clock>> /\ todo # <<>>
             /\ \A j \in Items : place'[j] # place[j] => j = Cur /\ place[j] = "queued" /\ place'[j] = "gone"
  <2>1. todo # <<>> /\ pc # "deleteAudio"
    BY <1>3 DEF Discard, Delete, WorksThroughQueue
  <2>2. Cur \in Items /\ place[Cur] = "queued"
    BY <2>1, HeadAndRest DEF WorksThroughQueue
  <2>3. UNCHANGED <<item, clock>> /\ (place' = place \/ place' = [place EXCEPT ![Cur] = "gone"])
    BY <1>3 DEF Discard, Delete, Elsewhere
  <2> QED BY <1>0, <2>1, <2>2, <2>3
<1>4. clock' \in Nat /\ clock <= clock'
  <2>1. clock' = clock + 1 \/ clock' = clock
    BY <1>1, <1>2, <1>3, FilesMove, Zenon
  <2> QED BY <1>0, <2>1
<1> DEFINE Moved(i) ==
      /\ item'[i] = item[i] \/ (place[i] = "unused" /\ place'[i] = "sent")
      /\ \/ place'[i] = place[i]
         \/ place[i] = "unused" /\ place'[i] = "sent"
         \/ place[i] = "sent" /\ place'[i] = "queued"
         \/ place[i] = "queued" /\ place'[i] = "gone" /\ i = Cur /\ (Discard \/ Delete) /\ todo # <<>>
<1>5. ASSUME NEW i \in Items PROVE Moved(i)
  <2>1. ASSUME NEW j \in use.items, NEW kind \in use.kinds, NEW t \in Tasks, Tap(j, kind, t)
        PROVE  Moved(i)
    BY <1>1, <2>1
  <2>2. ASSUME NEW j \in Items, Deliver(j) PROVE Moved(i)
    BY <1>2, <2>2
  <2>3. CASE Discard \/ Delete
    BY <1>3, <2>3
  <2>4. CASE UNCHANGED <<item, place, clock>>
    BY <2>4
  <2> HIDE DEF Moved
  <2> QED BY <2>1, <2>2, <2>3, <2>4, FilesMove, Zenon
<1> QED BY <1>4, <1>5 DEF Used

LEMMA StepTapsDiffer ==
    ASSUME Typed, TapsDiffer, WorksThroughQueue, [Next]_vars
    PROVE  TapsDiffer'
<1>0. /\ clock \in Nat /\ use.items \subseteq Items
      /\ item \in [Items -> [kind : AllKinds, task : Tasks, tap : Nat]]
      /\ place \in [Items -> {"unused", "sent", "queued", "gone"}]
      /\ \A i \in Items : item[i].tap \in Nat
  BY CapturesConstants DEF Typed, CountersTyped, FilesTyped, IsUse
<1>1. ASSUME NEW i \in use.items, NEW kind \in use.kinds, NEW t \in Tasks, Tap(i, kind, t), use' = use
      PROVE  TapsDiffer'
  <2>1. /\ i \in Items /\ clock' = clock + 1 /\ place[i] = "unused"
        /\ item'[i] = [kind |-> kind, task |-> t, tap |-> clock + 1]
        /\ \A j \in Items : j # i => item'[j] = item[j] /\ place'[j] = place[j]
    BY <1>0, <1>1 DEF Tap
  <2>2. item'[i].tap = clock + 1 /\ item'[i].kind \in use.kinds
    BY <2>1
  <2>3. \A j \in Items : item'[j].tap <= clock'
    BY <1>0, <2>1, <2>2 DEF TapsDiffer
  <2>4. \A j \in Items : Used(j)' => item'[j].tap > 0 /\ item'[j].kind \in use.kinds
    BY <1>0, <2>1, <2>2 DEF TapsDiffer, Used, Kind
  <2>5. \A j, k \in Items : Used(j)' /\ Used(k)' /\ item'[j].tap = item'[k].tap => j = k
    BY <1>0, <2>1, <2>2 DEF TapsDiffer, Used
  <2> QED BY <1>1, <2>3, <2>4, <2>5 DEF TapsDiffer, Kind
<1>2. ASSUME UNCHANGED <<item, clock, use>>, \A i \in Items : Used(i)' => Used(i)
      PROVE  TapsDiffer'
  BY <1>2 DEF TapsDiffer, Kind
<1>3. CASE \E i \in Items : Deliver(i)
  <2>1. UNCHANGED <<item, clock, use>>
    BY <1>3, FilesMove DEF Deliver
  <2>2. \A i \in Items : Used(i)' => Used(i)
    BY <1>0, <1>3 DEF Deliver, Used
  <2> QED BY <1>2, <2>1, <2>2
<1>4. CASE Discard \/ Delete
  <2>1. UNCHANGED <<item, clock, use>>
    BY <1>4, FilesMove DEF Discard, Delete, Elsewhere
  <2>2. todo # <<>> /\ pc # "deleteAudio"
    BY <1>4 DEF Discard, Delete, WorksThroughQueue
  <2>3. Cur \in Items /\ place[Cur] = "queued"
    BY <2>2, HeadAndRest DEF WorksThroughQueue
  <2>4. place' = place \/ place' = [place EXCEPT ![Cur] = "gone"]
    BY <1>4 DEF Discard, Delete
  <2>5. \A i \in Items : Used(i)' => Used(i)
    BY <1>0, <2>3, <2>4 DEF Used
  <2> QED BY <1>2, <2>1, <2>5
<1>5. CASE UNCHANGED <<item, place, clock>>
  BY <1>2, <1>5, FilesMove DEF Used
<1> QED BY <1>1, <1>3, <1>4, <1>5, FilesMove, Zenon

-----------------------------------------------------------------------------
(* How a step moves the drain: not, to its end, to its start, to the next    *)
(* item, to the next call of an item, or from its file to its recording.     *)
KeepsQueued == \A i \in Items : place[i] = "queued" => place'[i] = "queued"
Stays ==
    /\ UNCHANGED <<todo, pc, unfinished, missed, entry>> /\ KeepsQueued
    /\ host' = host \/ HostGoesOn
Answers ==
    /\ pc # "idle" /\ todo' = <<>> /\ pc' = "idle"
    /\ missed \subseteq missed' /\ \A k \in 1..Len(todo) : todo[k] \in missed'
    /\ EditsWait => (entry' <=> Owed) /\ (host' = "open" => ~Owed)
Ends == Crash \/ Answers
Starts == StartDrain /\ place' = place
Advances ==
    /\ todo # <<>> /\ NextItem /\ (Owed => Owed') /\ missed \subseteq missed'
    /\ IsCommand(Cur) => Owed' \/ Cur \in missed' \/ place'[Cur] = "gone"
GoesOn ==
    /\ todo # <<>> /\ todo' = todo /\ UNCHANGED <<unfinished, missed>> /\ KeepsQueued
    /\ pc \notin {"idle", "deleteAudio"} /\ pc' \in {"addTask", "save", "remember", "delete"}
Consumes ==
    /\ todo # <<>> /\ todo' = todo /\ (Owed => Owed') /\ missed' = missed /\ pc = "delete" /\ pc' = "deleteAudio"
    /\ place' = [place EXCEPT ![Cur] = "gone"]

LEMMA DrainMoves ==
    ASSUME Typed, WorksThroughQueue, [Next]_vars
    PROVE  Stays \/ Ends \/ Starts \/ Advances \/ GoesOn \/ Consumes
<1>0. /\ place \in [Items -> {"unused", "sent", "queued", "gone"}] /\ use.items \subseteq Items
      /\ unfinished \subseteq {"owed", "queued"} /\ todo \in Seq(Items) /\ EditsWait \in BOOLEAN
  BY CapturesConstants DEF Typed, FilesTyped, CountersTyped, DrainTyped, IsUse, EditsWait
<1>1. place' = place => KeepsQueued
  BY DEF KeepsQueued
<1>2. ASSUME NEW i \in use.items, NEW kind \in use.kinds, NEW t \in Tasks, Tap(i, kind, t) PROVE Stays
  BY <1>0, <1>2 DEF Tap, Stays, KeepsQueued, drain, hostVars
<1>3. ASSUME NEW i \in Items, Deliver(i) PROVE Stays
  BY <1>0, <1>3 DEF Deliver, Stays, KeepsQueued, drain, hostVars
<1>4. ASSUME NEW t \in Tasks, EditTask(t) PROVE Stays
  BY <1>1, <1>4 DEF EditTask, Stays, queueVars, drain
<1>5. ASSUME NEW i \in Items, DeleteMade(i) PROVE Stays
  BY <1>1, <1>5 DEF DeleteMade, Stays, queueVars, drain
<1>6. Save => Stays
  BY <1>1 DEF Save, Stays, queueVars, drain, hostVars
<1>7. ASSUME NEW failed \in BOOLEAN, pc # "idle", Finish(failed), ~failed => ~Owed,
             missed \subseteq missed', \A k \in 1..Len(todo) : todo[k] \in missed'
      PROVE  Answers
  <2>1. EditsWait /\ HostAfter(failed) = "open" => ~Owed
    BY <1>0, <1>7 DEF HostAfter
  <2>2. EditsWait => (entry' <=> Owed)
    BY <1>0, <1>7 DEF Finish
  <2>3. EditsWait /\ host' = "open" => ~Owed
    BY <1>7, <2>1 DEF Finish
  <2>4. todo' = <<>> /\ pc' = "idle"
    BY <1>7 DEF Finish
  <2> QED BY <1>7, <2>2, <2>3, <2>4 DEF Answers
<1>8. EndDrain => Ends
  <2> SUFFICES ASSUME EndDrain PROVE Answers
    BY DEF Ends
  <2>1. todo = <<>> /\ Len(todo) = 0 /\ missed' = missed /\ pc # "idle" /\ Finish(unfinished # {})
    BY DEF EndDrain
  <2>2. \A k \in 1..Len(todo) : todo[k] \in missed'
    BY <2>1
  <2>3. CASE unfinished = {}
    <3>1. Finish(FALSE) /\ ~Owed
      BY <2>1, <2>3 DEF Finish, HostAfter, Owed
    <3> QED BY <1>7, <2>1, <2>2, <3>1
  <2>4. CASE unfinished # {}
    <3>1. Finish(TRUE)
      BY <2>1, <2>4 DEF Finish, HostAfter
    <3> QED BY <1>7, <2>1, <2>2, <3>1
  <2> QED BY <2>3, <2>4
<1>9. ReadRecord => Stays
  BY <1>1 DEF ReadRecord, Stays, Elsewhere, hostVars
<1>10. ASSUME NEW state \in {"owed", "queued"}, todo # <<>>, Unfinished(state), missed \subseteq missed',
              state = "queued" => Cur \in missed'
       PROVE  Advances
  <2>1. Owed => Owed'
    BY <1>10 DEF Unfinished, Owed
  <2>2. IsCommand(Cur) /\ state = "owed" => Owed'
    BY <1>10 DEF Unfinished, Owed, IsCommand, Commands
  <2> QED BY <1>10, <2>1, <2>2 DEF Unfinished, Advances
<1>11. NoRecord => Advances
  BY <1>10 DEF NoRecord, PassedOver
<1>12. Discard => Advances
  BY <1>0 DEF Discard, Advances, IsCommand, Commands, Owed
<1>13. DeleteAudio => Advances
  <2> SUFFICES ASSUME DeleteAudio PROVE Advances
    OBVIOUS
  <2>1. pc = "deleteAudio" /\ todo # <<>> /\ place' = place /\ NextItem /\ UNCHANGED <<unfinished, missed>>
    BY DEF DeleteAudio, WorksThroughQueue
  <2>2. place[Cur] = "gone"
    BY <2>1, HeadAndRest DEF WorksThroughQueue
  <2> QED BY <2>1, <2>2 DEF Advances, Owed
<1>14. ASSUME todo # <<>>, pc # "idle", WriteRefused PROVE Advances \/ Ends
  <2>1. CASE Unfinished("queued") /\ PassedOver({Cur})
    BY <1>10, <1>14, <2>1 DEF PassedOver
  <2>2. CASE Finish(TRUE) /\ PassedOver(Range(todo))
    <3>1. \A k \in 1..Len(todo) : todo[k] \in Range(todo)
      BY <1>0 DEF Range
    <3> QED BY <1>7, <1>14, <2>2, <3>1 DEF PassedOver, Ends
  <2> QED BY <1>14, <2>1, <2>2 DEF WriteRefused
<1>15. ASSUME ApplyCommand PROVE GoesOn \/ Advances \/ Ends
  <2>1. todo # <<>> /\ pc = "item" /\ place' = place
    BY <1>15 DEF ApplyCommand
  <2>2. WriteRefused \/ (pc' = "save" /\ UNCHANGED <<todo, unfinished, missed>>)
    BY <1>15 DEF ApplyCommand
  <2> QED BY <1>1, <1>14, <2>1, <2>2 DEF GoesOn
<1>16. ASSUME Assemble PROVE GoesOn \/ Advances
  <2>1. todo # <<>> /\ pc = "item" /\ place' = place /\ UNCHANGED <<unfinished, missed>>
    BY <1>16 DEF Assemble
  <2>2. (Kind(Cur) = "audio" /\ NextItem) \/ (pc' \in {"save", "addTask"} /\ todo' = todo)
    BY <1>16 DEF Assemble
  <2> QED BY <1>1, <2>1, <2>2 DEF GoesOn, Advances, IsCommand, Commands, Owed
<1>17. ASSUME AddTask PROVE GoesOn \/ Advances \/ Ends
  <2>1. todo # <<>> /\ pc = "addTask" /\ place' = place
    BY <1>17 DEF AddTask, WorksThroughQueue
  <2>2. WriteRefused \/ (pc' = "save" /\ UNCHANGED <<todo, unfinished, missed>>)
    BY <1>17 DEF AddTask
  <2> QED BY <1>1, <1>14, <2>1, <2>2 DEF GoesOn
<1>18. ASSUME FlushPendingSave PROVE GoesOn \/ Advances
  <2>1. todo # <<>> /\ pc = "save" /\ place' = place /\ missed' = missed
    BY <1>18 DEF FlushPendingSave, WorksThroughQueue
  <2>2. Unfinished("owed") \/ (pc' = AfterSave /\ UNCHANGED <<todo, unfinished>>)
    BY <1>18 DEF FlushPendingSave
  <2> QED BY <1>1, <1>10, <2>1, <2>2 DEF GoesOn, AfterSave
<1>19. ASSUME Remember PROVE GoesOn
  <2>1. todo # <<>>
    BY <1>19 DEF Remember, WorksThroughQueue
  <2> QED BY <1>1, <1>19, <2>1 DEF Remember, GoesOn
<1>20. ASSUME Delete PROVE Consumes \/ Advances
  <2>1. todo # <<>> /\ pc = "delete" /\ Cur \in Items /\ missed' = missed
    BY <1>20, HeadAndRest DEF Delete, WorksThroughQueue
  <2>2. \/ Unfinished("owed")
        \/ /\ place' = [place EXCEPT ![Cur] = "gone"] /\ (Owed => Owed')
           /\ NextItem \/ (pc' = "deleteAudio" /\ todo' = todo)
    BY <1>20 DEF Delete, Owed
  <2> QED BY <1>0, <1>10, <2>1, <2>2 DEF Consumes, Advances
<1>21. UNCHANGED vars => Stays
  BY <1>1 DEF vars, Stays, queueVars, drain, hostVars
<1>22. HostMoves => Stays
  <2> SUFFICES ASSUME HostMoves PROVE host' = host \/ HostGoesOn
    BY <1>1, HostMovesAlone DEF Stays
  <2> QED BY DEF HostMoves, Ask
<1>23. StartDrain => Starts
  BY DEF StartDrain, Starts, queueVars
<1> QED
  BY <1>2, <1>3, <1>4, <1>5, <1>6, <1>8, <1>9, <1>11, <1>12, <1>13, <1>15, <1>16, <1>17, <1>18,
     <1>19, <1>20, <1>21, <1>22, <1>23, Zenon
  DEF Next, Step, Drain, HostMoves, Ends

LEMMA StepWorksThroughQueue ==
    ASSUME Typed, WorksThroughQueue, [Next]_vars
    PROVE  WorksThroughQueue'
<1>0. /\ place \in [Items -> {"unused", "sent", "queued", "gone"}]
      /\ todo \in Seq(Items) /\ Len(todo) \in Nat
      /\ \A k \in 1..Len(todo) : todo[k] \in Items
  <2>1. todo \in Seq(Items) /\ place \in [Items -> {"unused", "sent", "queued", "gone"}]
    BY DEF Typed, FilesTyped, DrainTyped
  <2> QED BY <2>1
<1>1. CASE Stays
  BY <1>0, <1>1, PlacesAdvance DEF Stays, KeepsQueued, WorksThroughQueue
<1>2. CASE Ends
  <2>1. todo' = <<>> /\ Len(todo') = 0 /\ pc' = "idle"
    BY <1>2 DEF Ends, Answers, Crash
  <2> QED BY <2>1 DEF WorksThroughQueue
<1>3. CASE Starts
  <2> DEFINE files == {i \in Items : place[i] = "queued"}
  <2>1. PICK f \in SUBSET files : todo' \in DrainOrders(f)
    BY <1>3 DEF Starts, StartDrain
  <2>2. f \in SUBSET Items
    BY <2>1
  <2>3. /\ \A k \in 1..Len(todo') : todo'[k] \in f
        /\ \A k, m \in 1..Len(todo') : todo'[k] = todo'[m] => k = m
    BY <2>1, <2>2, EntriesOfDrain
  <2>4. \A k \in 1..Len(todo') : place'[todo'[k]] = "queued"
    BY <1>3, <2>1, <2>3 DEF Starts
  <2> QED BY <1>3, <2>3, <2>4 DEF Starts, StartDrain, WorksThroughQueue
<1>4. CASE Advances
  <2>1. /\ pc' = "item" /\ todo' = Tail(todo) /\ Len(todo') = Len(todo) - 1 /\ Cur = todo[1] /\ 1 \in 1..Len(todo)
        /\ \A k \in 1..Len(todo') : k + 1 \in 1..Len(todo) /\ todo'[k] = todo[k + 1]
    BY <1>4, HeadAndRest DEF Advances, NextItem
  <2>2. ASSUME NEW k \in 1..Len(todo') PROVE todo'[k] # Cur /\ todo'[k] \in Items /\ place[todo'[k]] = "queued"
    BY <1>0, <2>1 DEF WorksThroughQueue
  <2>3. ASSUME NEW k \in 1..Len(todo') PROVE place'[todo'[k]] = "queued"
    BY <2>2, PlacesAdvance
  <2>4. ASSUME NEW k \in 1..Len(todo'), NEW m \in 1..Len(todo'), todo'[k] = todo'[m] PROVE k = m
    <3>1. k + 1 = m + 1
      BY <2>1, <2>4 DEF WorksThroughQueue
    <3> QED BY <3>1
  <2> QED BY <2>1, <2>3, <2>4 DEF WorksThroughQueue
<1>5. CASE GoesOn
  BY <1>0, <1>5 DEF GoesOn, KeepsQueued, WorksThroughQueue
<1>6. CASE Consumes
  <2>1. Cur = todo[1] /\ 1 \in 1..Len(todo) /\ Cur \in Items
    BY <1>6, HeadAndRest DEF Consumes
  <2>2. ASSUME NEW k \in 1..Len(todo) PROVE place'[todo[k]] = IF k = 1 THEN "gone" ELSE "queued"
    <3>1. CASE k = 1
      BY <1>0, <1>6, <2>1, <3>1 DEF Consumes
    <3>2. CASE k # 1
      <4>1. todo[k] # Cur /\ place[todo[k]] = "queued" /\ todo[k] \in Items
        BY <1>0, <1>6, <2>1, <3>2 DEF WorksThroughQueue, Consumes
      <4> QED BY <1>0, <1>6, <3>2, <4>1 DEF Consumes
    <3> QED BY <3>1, <3>2
  <2> QED BY <1>6, <2>2 DEF Consumes, WorksThroughQueue
<1>7. Stays \/ Ends \/ Starts \/ Advances \/ GoesOn \/ Consumes
  BY DrainMoves
<1> QED BY <1>1, <1>2, <1>3, <1>4, <1>5, <1>6, <1>7

-----------------------------------------------------------------------------
(* What is in the store stays there, and an item adds itself only. *)
Grows ==
    /\ memory.overruled \subseteq memory'.overruled /\ memory'.overruled \subseteq memory'.applied
    /\ memory.applied \subseteq memory'.applied
    /\ \A i \in memory'.applied :
          \/ i \in memory.applied
          \/ /\ todo # <<>> /\ pc \in {"item", "addTask"} /\ i = Cur
             /\ IsCapture(Cur) => memory'.made[Cur] # "none"
    /\ \A i \in Items : memory.made[i] # "none" => memory'.made[i] # "none"
    /\ \A t \in Tasks : memory'.task[t].start <= clock

(* The steps that write the store, and what they leave in it. *)
LEMMA EffectOn ==
    ASSUME Typed, todo # <<>>
    PROVE  /\ Effect(Cur).made = memory.made /\ Effect(Cur).project = memory.project
           /\ Effect(Cur).overruled = memory.overruled
           /\ Effect(Cur).applied = memory.applied \cup {Cur}
           /\ \A t \in Tasks : t # item[Cur].task => Effect(Cur).task[t] = memory.task[t]
           /\ LET old == memory.task[item[Cur].task]  new == Effect(Cur).task[item[Cur].task] IN
              IF Kind(Cur) = "defer" THEN new.status = old.status /\ new.start = item[Cur].tap
                                     ELSE new.status = "done" /\ new.start = old.start
<1>1. Cur \in Items /\ item[Cur].task \in Tasks
  BY HeadAndRest DEF Typed, FilesTyped
<1> DEFINE t0 == item[Cur].task
           new == IF Kind(Cur) = "defer" THEN [memory.task[t0] EXCEPT !.start = item[Cur].tap]
                  ELSE [memory.task[t0] EXCEPT !.status = "done"]
<1>2. memory.task[t0] \in [status : {"next", "done", "deleted"}, start : Nat]
  BY <1>1 DEF Typed, StoresTyped, Store
<1>3. /\ Kind(Cur) = "defer" => new.status = memory.task[t0].status /\ new.start = item[Cur].tap
      /\ Kind(Cur) # "defer" => new.status = "done" /\ new.start = memory.task[t0].start
  BY <1>2
<1>4. PICK f : f = [memory.task EXCEPT ![t0] = new]
  OBVIOUS
<1>5. Effect(Cur) = [memory EXCEPT !.task = f, !.applied = memory.applied \cup {Cur}]
  BY <1>4 DEF Effect
<1> HIDE DEF new
<1>6. f[t0] = new /\ \A t \in Tasks : t # t0 => f[t] = memory.task[t]
  BY <1>1, <1>4 DEF Typed, StoresTyped, Store
<1>7. memory \in Store
  BY DEF Typed, StoresTyped
<1>8. \A a : LET s == [memory EXCEPT !.task = f, !.applied = a] IN
         /\ s.task = f /\ s.applied = a /\ s.made = memory.made /\ s.project = memory.project
         /\ s.overruled = memory.overruled
  BY <1>7 DEF Store
<1>9. /\ Effect(Cur).task = f /\ Effect(Cur).made = memory.made /\ Effect(Cur).project = memory.project
      /\ Effect(Cur).overruled = memory.overruled /\ Effect(Cur).applied = memory.applied \cup {Cur}
  BY <1>5, <1>8
<1>10. Kind(Cur) = "defer" \/ Kind(Cur) # "defer"
  OBVIOUS
<1> QED BY <1>3, <1>6, <1>9, <1>10, Zenon

LEMMA EditOf ==
    ASSUME Typed, NEW t \in Tasks, EditTask(t)
    PROVE  /\ memory'.made = memory.made /\ memory'.project = memory.project
           /\ memory'.applied = memory.applied
           /\ memory'.overruled = memory.overruled \cup Overruled(t)
           /\ Overruled(t) \subseteq memory.applied
           /\ \A u \in Tasks : u # t => memory'.task[u] = memory.task[u]
           /\ memory'.task[t].start \in {0, memory.task[t].start}
<1>1. PICK new \in [status : {"next", "done", "deleted"}, start : {0, memory.task[t].start}] :
        memory' = [memory EXCEPT !.task[t] = new, !.overruled = @ \cup Overruled(t)]
  BY DEF EditTask
<1>2. new.start \in {0, memory.task[t].start}
  OBVIOUS
<1>3. PICK f : f = [memory.task EXCEPT ![t] = new]
  OBVIOUS
<1>4. memory' = [memory EXCEPT !.task = f, !.overruled = memory.overruled \cup Overruled(t)]
  BY <1>1, <1>3
<1>5. memory.task \in [Tasks -> [status : {"next", "done", "deleted"}, start : Nat]] /\ memory \in Store
  BY DEF Typed, StoresTyped, Store
<1>6. f[t] = new /\ \A u \in Tasks : u # t => f[u] = memory.task[u]
  BY <1>3, <1>5
<1>7. \A a : LET s == [memory EXCEPT !.task = f, !.overruled = a] IN
         /\ s.task = f /\ s.overruled = a /\ s.made = memory.made /\ s.project = memory.project
         /\ s.applied = memory.applied
  BY <1>5 DEF Store
<1>8. /\ memory'.task = f /\ memory'.made = memory.made /\ memory'.project = memory.project
      /\ memory'.applied = memory.applied /\ memory'.overruled = memory.overruled \cup Overruled(t)
  BY <1>4, <1>7
<1> QED BY <1>2, <1>6, <1>8 DEF Overruled

LEMMA DeletionOfMade ==
    ASSUME Typed, NEW i \in Items, DeleteMade(i)
    PROVE  /\ memory'.task = memory.task /\ memory'.applied = memory.applied
           /\ memory'.overruled = memory.overruled
           /\ \A j \in Items : (memory'.made[j] # "none") <=> (memory.made[j] # "none")
           /\ \A j \in Items : (memory'.project[j] # "none") <=> (memory.project[j] # "none")
<1>1. /\ memory \in Store /\ memory.made \in [Items -> {"none", "live", "deleted"}]
      /\ memory.project \in [Items -> {"none", "live", "deleted"}]
  BY DEF Typed, StoresTyped, Store
<1>2. \/ memory.made[i] = "live" /\ memory' = [memory EXCEPT !.made[i] = "deleted"]
      \/ memory.project[i] = "live" /\ memory' = [memory EXCEPT !.project[i] = "deleted"]
  BY DEF DeleteMade
<1> QED BY <1>1, <1>2 DEF Store

LEMMA CaptureMade ==
    ASSUME Typed, todo # <<>>
    PROVE  /\ LET s == WithProject(Cur) IN
              /\ s.task = memory.task /\ s.applied = memory.applied /\ s.overruled = memory.overruled
              /\ s.made = memory.made
           /\ LET s == [memory EXCEPT !.made[Cur] = "live", !.applied = @ \cup {Cur}] IN
              /\ s.task = memory.task /\ s.applied = memory.applied \cup {Cur}
              /\ s.overruled = memory.overruled /\ s.project = memory.project
              /\ s.made[Cur] = "live" /\ \A i \in Items : i # Cur => s.made[i] = memory.made[i]
<1>1. /\ Cur \in Items /\ memory \in Store /\ memory.made \in [Items -> {"none", "live", "deleted"}]
      /\ memory.project \in [Items -> {"none", "live", "deleted"}]
  BY HeadAndRest DEF Typed, StoresTyped, Store
<1>2. \/ WithProject(Cur) = memory \/ WithProject(Cur) = [memory EXCEPT !.project[Cur] = "live"]
  BY DEF WithProject
<1>3. LET s == WithProject(Cur) IN
      /\ s.task = memory.task /\ s.applied = memory.applied /\ s.overruled = memory.overruled
      /\ s.made = memory.made
  BY <1>1, <1>2 DEF Store
<1>4. \A a : LET s == [memory EXCEPT !.made[Cur] = "live", !.applied = a] IN
         /\ s.task = memory.task /\ s.applied = a
         /\ s.overruled = memory.overruled /\ s.project = memory.project
         /\ s.made[Cur] = "live" /\ \A i \in Items : i # Cur => s.made[i] = memory.made[i]
  BY <1>1 DEF Store
<1> QED BY <1>3, <1>4

(* The steps that leave the store as it is. *)
LEMMA StoreKept ==
    ASSUME [Next]_vars
    PROVE  /\ void \subseteq void'
           /\ \/ memory' = disk /\ disk' = disk /\ Crash
              \/ memory' = memory /\ disk' = disk
              \/ memory' = memory /\ disk' = memory /\ (Save \/ FlushPendingSave)
              \/ disk' = disk /\ \E t \in Tasks : EditTask(t)
              \/ disk' = disk /\ \E i \in Items : DeleteMade(i)
              \/ disk' = disk /\ ApplyCommand /\ memory' = Effect(Cur)
              \/ disk' = disk /\ Assemble /\ memory' = WithProject(Cur)
              \/ disk' = disk /\ AddTask
                 /\ memory' = [memory EXCEPT !.made[Cur] = "live", !.applied = @ \cup {Cur}]
<1>1. ASSUME NEW i \in use.items, NEW kind \in use.kinds, NEW t \in Tasks, Tap(i, kind, t)
      PROVE  UNCHANGED <<memory, disk, void>>
  BY <1>1 DEF Tap
<1>2. ASSUME NEW i \in Items, Deliver(i) PROVE UNCHANGED <<memory, disk, void>>
  BY <1>2 DEF Deliver
<1>3. ASSUME NEW t \in Tasks, EditTask(t) PROVE UNCHANGED <<disk, void>>
  BY <1>3 DEF EditTask
<1>4. ASSUME NEW i \in Items, DeleteMade(i) PROVE UNCHANGED <<disk, void>>
  BY <1>4 DEF DeleteMade
<1>5. Save => UNCHANGED <<memory, void>> /\ disk' = memory
  BY DEF Save
<1>6. Crash => UNCHANGED <<disk, void>> /\ memory' = disk
  BY DEF Crash
<1>7. StartDrain \/ EndDrain \/ ReadRecord \/ NoRecord \/ Discard \/ Remember \/ Delete \/ DeleteAudio
         => UNCHANGED <<memory, disk, void>>
  BY DEF StartDrain, EndDrain, ReadRecord, NoRecord, Discard, Remember, Delete, DeleteAudio
<1>8. FlushPendingSave => UNCHANGED <<memory, void>> /\ (disk' = memory \/ disk' = disk)
  BY DEF FlushPendingSave
<1>9. ApplyCommand => disk' = disk /\ void \subseteq void' /\ (memory' = memory \/ memory' = Effect(Cur))
  BY DEF ApplyCommand, WriteRefused
<1>10. Assemble => UNCHANGED <<disk, void>> /\ (memory' = memory \/ memory' = WithProject(Cur))
  BY DEF Assemble
<1>11. AddTask =>
         /\ UNCHANGED <<disk, void>>
         /\ memory' = memory \/ memory' = [memory EXCEPT !.made[Cur] = "live", !.applied = @ \cup {Cur}]
  BY DEF AddTask, WriteRefused
<1>12. UNCHANGED vars => UNCHANGED <<memory, disk, void>>
  BY DEF vars
<1>13. void' = void => void \subseteq void'
  OBVIOUS
<1>14. HostMoves => UNCHANGED <<memory, disk, void>>
  BY HostMovesAlone
<1> QED
  BY <1>1, <1>2, <1>3, <1>4, <1>5, <1>6, <1>7, <1>8, <1>9, <1>10, <1>11, <1>12, <1>13, <1>14, Zenon
  DEF Next, Step, Drain, HostMoves

(* Memory grows but for a crash, and disk follows it. *)
LEMMA StoresMove ==
    ASSUME Typed, TapsDiffer, WorksThroughQueue, DiskFollows, [Next]_vars
    PROVE  /\ void \subseteq void'
           /\ \/ memory' = disk /\ disk' = disk
              \/ Grows /\ disk' = disk
              \/ memory' = memory /\ disk' = memory
<1>0. /\ clock \in Nat /\ memory.applied \subseteq Items
      /\ \A t \in Tasks : memory.task[t].start \in Nat
      /\ \A i \in Items : item[i].tap \in Nat /\ item[i].task \in Tasks
  BY DEF Typed, CountersTyped, StoresTyped, Store, FilesTyped
<1>1. memory.overruled \subseteq memory.applied /\ \A t \in Tasks : memory.task[t].start <= clock
  BY DEF DiskFollows, StoreOf
<1>2. memory' = memory => Grows
  BY <1>1 DEF Grows
<1>3. ASSUME NEW t \in Tasks, EditTask(t) PROVE Grows
  <2>1. \A u \in Tasks : memory'.task[u].start <= clock
    BY <1>0, <1>1, <1>3, EditOf
  <2> QED BY <1>1, <1>3, <2>1, EditOf DEF Grows
<1>4. ASSUME NEW i \in Items, DeleteMade(i) PROVE Grows
  BY <1>1, <1>4, DeletionOfMade DEF Grows
<1>5. ASSUME ApplyCommand, memory' = Effect(Cur) PROVE Grows
  <2>1. todo # <<>> /\ pc = "item" /\ IsCommand(Cur) /\ Cur \in Items
    BY <1>5, HeadAndRest DEF ApplyCommand
  <2>2. \A t \in Tasks : memory'.task[t].start <= clock
    <3>1. item[Cur].tap <= clock
      BY <2>1 DEF TapsDiffer
    <3> QED BY <1>0, <1>1, <1>5, <2>1, <3>1, EffectOn
  <2>3. ~IsCapture(Cur)
    BY <2>1 DEF IsCapture, IsCommand, Commands
  <2> QED BY <1>1, <1>5, <2>1, <2>2, <2>3, EffectOn DEF Grows
<1>6. ASSUME Assemble, memory' = WithProject(Cur) PROVE Grows
  <2>1. todo # <<>>
    BY <1>6 DEF Assemble
  <2> QED BY <1>1, <1>6, <2>1, CaptureMade DEF Grows
<1>7. ASSUME AddTask, memory' = [memory EXCEPT !.made[Cur] = "live", !.applied = @ \cup {Cur}] PROVE Grows
  <2>1. todo # <<>> /\ pc = "addTask" /\ Cur \in Items
    BY <1>7, HeadAndRest DEF AddTask, WorksThroughQueue
  <2>2. /\ memory'.task = memory.task /\ memory'.applied = memory.applied \cup {Cur}
        /\ memory'.overruled = memory.overruled
        /\ memory'.made[Cur] = "live" /\ \A i \in Items : i # Cur => memory'.made[i] = memory.made[i]
    BY <1>7, <2>1, CaptureMade
  <2> QED BY <1>1, <2>1, <2>2 DEF Grows
<1> QED BY <1>2, <1>3, <1>4, <1>5, <1>6, <1>7, StoreKept

LEMMA StepDiskFollows ==
    ASSUME Typed, Typed', TapsDiffer, WorksThroughQueue, DiskFollows, [Next]_vars
    PROVE  DiskFollows'
<1>0. /\ clock \in Nat /\ clock' \in Nat /\ memory.applied \subseteq Items /\ disk.applied \subseteq Items
      /\ \A t \in Tasks : memory.task[t].start \in Nat /\ disk.task[t].start \in Nat
      /\ \A t \in Tasks : memory'.task[t].start \in Nat
  BY DEF Typed, CountersTyped, StoresTyped, Store
<1>1. /\ clock <= clock'
      /\ \A i \in Items : place[i] \in {"queued", "gone"} =>
            place'[i] \in {"queued", "gone"} /\ item'[i] = item[i]
  BY PlacesAdvance DEF Used
<1> DEFINE Fits(s) ==
      /\ s.overruled \subseteq s.applied /\ \A t \in Tasks : s.task[t].start <= clock'
      /\ \A i \in s.applied : place'[i] \in {"queued", "gone"}
      /\ \A i \in s.applied : IsCapture(i)' => s.made[i] # "none"
<1>2. ASSUME NEW s, StoreOf(s), s.applied \subseteq Items, \A t \in Tasks : s.task[t].start \in Nat
      PROVE  Fits(s)
  <2>1. \A t \in Tasks : s.task[t].start <= clock'
    BY <1>0, <1>1, <1>2 DEF StoreOf
  <2>2. \A i \in s.applied : i \in Items /\ place'[i] \in {"queued", "gone"} /\ item'[i] = item[i]
    BY <1>1, <1>2 DEF StoreOf
  <2> QED BY <1>2, <2>1, <2>2 DEF StoreOf, IsCapture, Kind
<1>3. Fits(memory) /\ Fits(disk)
  BY <1>0, <1>2 DEF DiskFollows
<1>4. ASSUME Grows PROVE Fits(memory')
  <2>1. ASSUME NEW i \in memory'.applied
        PROVE  i \in Items /\ place'[i] \in {"queued", "gone"} /\ (IsCapture(i)' => memory'.made[i] # "none")
    <3>1. CASE i \in memory.applied
      <4>1. i \in Items /\ memory.made[i] # "none" => memory'.made[i] # "none"
        BY <1>0, <1>4, <3>1 DEF Grows
      <4>2. item'[i] = item[i] /\ IsCapture(i) => memory.made[i] # "none"
        BY <1>0, <1>1, <3>1 DEF DiskFollows, StoreOf
      <4> QED BY <1>0, <1>3, <3>1, <4>1
    <3>2. CASE i \notin memory.applied
      <4>1. todo # <<>> /\ pc \in {"item", "addTask"} /\ i = Cur /\ (IsCapture(Cur) => memory'.made[Cur] # "none")
        BY <1>4, <3>2 DEF Grows
      <4>2. i \in Items /\ place[i] = "queued"
        BY <4>1, HeadAndRest DEF WorksThroughQueue
      <4> QED BY <1>1, <4>1, <4>2 DEF IsCapture, Kind
    <3> QED BY <3>1, <3>2
  <2>2. \A t \in Tasks : memory'.task[t].start <= clock'
    BY <1>0, <1>1, <1>4 DEF Grows
  <2> QED BY <1>4, <2>1, <2>2 DEF Grows
<1>5. Fits(memory') /\ Fits(disk')
  BY <1>3, <1>4, StoresMove
<1>6. /\ disk'.applied \subseteq memory'.applied /\ disk'.overruled \subseteq memory'.overruled
      /\ \A i \in Items : disk'.made[i] # "none" => memory'.made[i] # "none"
  <2>1. CASE Grows /\ disk' = disk
    <3>1. \A i \in Items : disk.made[i] # "none" => memory'.made[i] # "none"
      BY <2>1 DEF Grows, DiskFollows
    <3> QED BY <2>1, <3>1 DEF Grows, DiskFollows
  <2> QED BY <2>1, StoresMove
<1> QED BY <1>5, <1>6 DEF DiskFollows, StoreOf

-----------------------------------------------------------------------------
LEMMA KindsDiffer ==
    ASSUME Typed, NEW i \in Items
    PROVE  /\ IsCommand(i) \/ IsCapture(i) \/ Kind(i) = "malformed"
           /\ ~(IsCommand(i) /\ IsCapture(i))
           /\ IsCommand(i) \/ IsCapture(i) => Kind(i) # "malformed"
<1>1. Kind(i) \in AllKinds
  BY DEF Typed, FilesTyped, Kind
<1> QED BY <1>1 DEF AllKinds, IsCommand, IsCapture, Commands

(* What disk holds stays on disk. *)
LEMMA DiskGrows ==
    ASSUME Typed, TapsDiffer, WorksThroughQueue, DiskFollows, [Next]_vars
    PROVE  /\ disk.applied \subseteq disk'.applied
           /\ \A i \in Items : disk.made[i] # "none" => disk'.made[i] # "none"
           /\ \A i \in disk.applied : i \in Items /\ place'[i] # "unused" /\ item'[i] = item[i]
<1>1. disk.applied \subseteq Items
  BY DEF Typed, StoresTyped, Store
<1>2. \A i \in disk.applied : place[i] \in {"queued", "gone"}
  BY DEF DiskFollows, StoreOf
<1>3. \A i \in disk.applied : i \in Items /\ place'[i] # "unused" /\ item'[i] = item[i]
  BY <1>1, <1>2, PlacesAdvance DEF Used
<1>4. disk' = disk \/ disk' = memory
  BY StoresMove
<1> QED BY <1>3, <1>4 DEF DiskFollows

(* The steps that touch the record or what a drain holds of it. *)
LEMMA RecordMoves ==
    ASSUME [Next]_vars
    PROVE  \/ record' = record /\ seen' = seen
           \/ record' = record /\ seen' = NotRead
           \/ record' = record /\ seen' = [NotRead EXCEPT !.state = "failed"]
           \/ record' = record /\ seen' = [state |-> "read", of |-> record] /\ ReadRecord
           \/ Remember
<1>1. ASSUME NEW i \in use.items, NEW kind \in use.kinds, NEW t \in Tasks, Tap(i, kind, t)
      PROVE  UNCHANGED <<record, seen>>
  BY <1>1 DEF Tap, drain
<1>2. ASSUME NEW i \in Items, Deliver(i) PROVE UNCHANGED <<record, seen>>
  BY <1>2 DEF Deliver, drain
<1>3. ASSUME NEW t \in Tasks, EditTask(t) PROVE UNCHANGED <<record, seen>>
  BY <1>3 DEF EditTask, drain
<1>4. ASSUME NEW i \in Items, DeleteMade(i) PROVE UNCHANGED <<record, seen>>
  BY <1>4 DEF DeleteMade, drain
<1>5. Crash \/ StartDrain => record' = record /\ seen' = NotRead
  BY DEF Crash, StartDrain
<1>6. Save \/ EndDrain \/ NoRecord \/ Discard \/ Delete \/ DeleteAudio => UNCHANGED <<record, seen>>
  BY DEF Save, EndDrain, NoRecord, Discard, Delete, DeleteAudio, drain
<1>7. ApplyCommand \/ Assemble \/ AddTask \/ FlushPendingSave => UNCHANGED <<record, seen>>
  BY DEF ApplyCommand, Assemble, AddTask, FlushPendingSave
<1>8. ReadRecord => record' = record /\ (seen' = [state |-> "read", of |-> record]
                                         \/ seen' = [NotRead EXCEPT !.state = "failed"])
  BY DEF ReadRecord
<1>9. UNCHANGED vars => UNCHANGED <<record, seen>>
  BY DEF vars, drain
<1>10. HostMoves => UNCHANGED <<record, seen>>
  BY HostMovesAlone
<1> QED
  BY <1>1, <1>2, <1>3, <1>4, <1>5, <1>6, <1>7, <1>8, <1>9, <1>10, Zenon DEF Next, Step, Drain, HostMoves

(* A command is remembered once its effect is saved. *)
LEMMA RememberedIsSaved ==
    ASSUME Typed, HeadProgresses, pc = "remember", todo # <<>>
    PROVE  /\ Cur \in Items /\ IsCommand(Cur) /\ Cur \in disk.applied /\ seen.state = "read"
           /\ outcome = "applied" /\ item[Cur].tap >= seen.of[item[Cur].task].tap
<1>1. Cur \in Items
  BY HeadAndRest
<1>2. outcome = "applied" /\ Kind(Cur) # "malformed" /\ ~IsCapture(Cur) /\ Taken(disk, Cur)
  BY DEF HeadProgresses
<1>3. IsCommand(Cur)
  BY <1>1, <1>2, KindsDiffer
<1>4. Cur \in disk.applied
  BY <1>2 DEF Taken
<1> QED BY <1>1, <1>2, <1>3, <1>4 DEF HeadProgresses

(* ... and its task's record names it. *)
LEMMA Remembering ==
    ASSUME Typed, WorksThroughQueue, HeadProgresses, RecordsProve, Remember
    PROVE  /\ todo # <<>> /\ pc = "remember" /\ item[Cur].task \in Tasks
           /\ seen'.state = "read"
           /\ seen'.of[item[Cur].task] = [tap |-> item[Cur].tap, id |-> Cur]
           /\ \A t \in Tasks : t # item[Cur].task => seen'.of[t] = seen.of[t]
           /\ \A t \in Tasks : record[t].tap <= seen'.of[t].tap
           /\ record' = seen'.of \/ (record' = record /\ Fault("recordWrite"))
<1>1. pc = "remember" /\ todo # <<>>
  BY DEF Remember, WorksThroughQueue
<1>2. Cur \in Items /\ seen.state = "read" /\ item[Cur].tap >= seen.of[item[Cur].task].tap
  BY <1>1, RememberedIsSaved
<1> DEFINE t0 == item[Cur].task
           r == [seen.of EXCEPT ![t0] = [tap |-> item[Cur].tap, id |-> Cur]]
<1>3. /\ t0 \in Tasks /\ item[Cur].tap \in Nat /\ seen.of \in Record /\ record \in Record
      /\ seen \in [state : {"unread", "read", "failed"}, of : Record]
  BY <1>2 DEF Typed, FilesTyped, DrainTyped, StoresTyped
<1>4. seen'.of = r /\ seen'.state = "read"
  <2>1. seen' = [seen EXCEPT !.of = r]
    BY DEF Remember
  <2> QED BY <1>2, <1>3, <2>1
<1>5. r[t0] = [tap |-> item[Cur].tap, id |-> Cur] /\ \A t \in Tasks : t # t0 => r[t] = seen.of[t]
  BY <1>3 DEF Record
<1> HIDE DEF r
<1>6. \A t \in Tasks : record[t].tap <= r[t].tap
  <2>1. \A t \in Tasks : record[t].tap \in Nat /\ seen.of[t].tap \in Nat /\ record[t].tap <= seen.of[t].tap
    BY <1>2, <1>3 DEF RecordsProve, Record
  <2>2. r[t0].tap = item[Cur].tap
    BY <1>5
  <2>3. record[t0].tap <= r[t0].tap
    BY <1>2, <1>3, <2>1, <2>2
  <2> QED BY <1>5, <2>1, <2>3
<1>7. record' = seen'.of \/ (record' = record /\ Fault("recordWrite"))
  BY DEF Remember
<1> QED BY <1>1, <1>3, <1>4, <1>5, <1>6, <1>7, Zenon

(* The record of a task only moves on to later taps. *)
LEMMA RecordGrows ==
    ASSUME Typed, WorksThroughQueue, HeadProgresses, RecordsProve, [Next]_vars
    PROVE  \A t \in Tasks : record[t].tap <= record'[t].tap
<1>1. \A t \in Tasks : record[t].tap <= record[t].tap
  BY DEF Typed, StoresTyped, Record
<1> QED BY <1>1, Remembering, RecordMoves

LEMMA StepRecordsProve ==
    ASSUME Typed, Typed', TapsDiffer, WorksThroughQueue, DiskFollows, HeadProgresses, RecordsProve, [Next]_vars
    PROVE  RecordsProve'
<1> DEFINE Holds(r) ==
      \A t \in Tasks :
        \/ r[t] = None
        \/ /\ r[t].id \in disk'.applied /\ item'[r[t].id].kind \in Commands
           /\ item'[r[t].id].task = t /\ item'[r[t].id].tap = r[t].tap
<1>1. ASSUME NEW r, Proves(r) PROVE Holds(r)
  <2> SUFFICES ASSUME NEW t \in Tasks, r[t] # None
               PROVE  /\ r[t].id \in disk'.applied /\ item'[r[t].id].kind \in Commands
                      /\ item'[r[t].id].task = t /\ item'[r[t].id].tap = r[t].tap
    OBVIOUS
  <2>1. /\ r[t].id \in disk.applied /\ IsCommand(r[t].id)
        /\ item[r[t].id].task = t /\ item[r[t].id].tap = r[t].tap
    BY <1>1 DEF Proves
  <2>2. r[t].id \in disk'.applied /\ item'[r[t].id] = item[r[t].id]
    BY <2>1, DiskGrows
  <2> QED BY <2>1, <2>2 DEF IsCommand, Kind
<1>3. Holds(NotRead.of) /\ NotRead.state = "unread"
  BY DEF NotRead
<1>2. Holds(record) /\ Holds(seen.of)
  <2> HIDE DEF Holds
  <2> QED BY <1>1 DEF RecordsProve
<1>4. \A r, s : (Holds(r) /\ Holds(s) /\ record' = r /\ seen'.of = s
                  /\ (seen'.state = "read" => \A t \in Tasks : r[t].tap <= s[t].tap)) => RecordsProve'
  BY DEF RecordsProve, Proves, IsCommand, Kind
<1> HIDE DEF Holds
<1>5. CASE record' = record /\ seen' = seen
  BY <1>2, <1>4, <1>5 DEF RecordsProve
<1>6. CASE record' = record /\ seen' = NotRead
  BY <1>2, <1>3, <1>4, <1>6
<1>7. CASE record' = record /\ seen' = [NotRead EXCEPT !.state = "failed"]
  <2>1. seen'.of = NotRead.of /\ seen'.state = "failed"
    BY <1>7 DEF NotRead
  <2> QED BY <1>2, <1>3, <1>4, <1>7, <2>1
<1>8. CASE record' = record /\ seen' = [state |-> "read", of |-> record]
  <2>1. \A t \in Tasks : record[t].tap <= record[t].tap
    BY DEF Typed, StoresTyped, Record
  <2> QED BY <1>2, <1>4, <1>8, <2>1
<1>9. CASE Remember
  <2> DEFINE t0 == item[Cur].task
  <2>1. /\ seen'.state = "read" /\ seen'.of[t0] = [tap |-> item[Cur].tap, id |-> Cur]
        /\ \A t \in Tasks : t # t0 => seen'.of[t] = seen.of[t]
        /\ \A t \in Tasks : record[t].tap <= seen'.of[t].tap
        /\ record' = seen'.of \/ record' = record
        /\ todo # <<>> /\ pc = "remember"
    BY <1>9, Remembering
  <2>2. Cur \in Items /\ IsCommand(Cur) /\ Cur \in disk.applied
    BY <2>1, RememberedIsSaved
  <2>3. Holds(seen'.of)
    <3>1. /\ Cur \in disk'.applied /\ item'[Cur].kind \in Commands
          /\ item'[Cur].task = t0 /\ item'[Cur].tap = item[Cur].tap
      BY <2>2, DiskGrows DEF IsCommand, Kind
    <3>2. seen'.of[t0].id = Cur /\ seen'.of[t0].tap = item[Cur].tap
      BY <2>1
    <3> QED BY <1>2, <2>1, <3>1, <3>2 DEF Holds
  <2>4. \A t \in Tasks : seen'.of[t].tap <= seen'.of[t].tap
    <3>1. seen' \in [state : {"unread", "read", "failed"}, of : [Tasks -> [tap : Nat, id : Items \cup {0}]]]
      BY DEF Typed, DrainTyped, Record
    <3> QED BY <3>1
  <2> QED BY <1>2, <1>4, <2>1, <2>3, <2>4
<1> QED BY <1>5, <1>6, <1>7, <1>8, <1>9, RecordMoves

-----------------------------------------------------------------------------
(* While the drain waits, the item at the head is where it was. *)
LEMMA HeadKept ==
    ASSUME Typed, WorksThroughQueue, HeadProgresses, UNCHANGED <<todo, pc, outcome, seen>>,
           void \subseteq void',
           \A i \in Items : place[i] # "unused" => item'[i] = item[i],
           memory.applied \subseteq memory'.applied, disk.applied \subseteq disk'.applied,
           \A i \in Items : (memory.made[i] # "none") <=> (memory'.made[i] # "none"),
           \A i \in Items : disk.made[i] # "none" => disk'.made[i] # "none"
    PROVE  HeadProgresses'
<1>1. CASE pc \in {"idle", "item"}
  BY <1>1 DEF HeadProgresses
<1>2. CASE pc \notin {"idle", "item"}
  <2>1. todo # <<>> /\ Cur' = Cur
    BY <1>2 DEF WorksThroughQueue, Cur
  <2>2. Cur \in Items /\ place[Cur] \in {"queued", "gone"}
    BY <2>1, HeadAndRest DEF WorksThroughQueue
  <2>3. item'[Cur] = item[Cur]
    BY <2>2
  <2>4. /\ IsCapture(Cur)' <=> IsCapture(Cur)
        /\ IsCommand(Cur)' <=> IsCommand(Cur)
        /\ HasUuid(Cur)' <=> HasUuid(Cur)
        /\ Skip(Cur)' <=> Skip(Cur)
        /\ Kind(Cur)' = Kind(Cur)
    BY <2>1, <2>3 DEF IsCapture, IsCommand, HasUuid, Skip, Kind
  <2>5. /\ Taken(memory, Cur) => Taken(memory, Cur)'
        /\ Taken(disk, Cur) => Taken(disk, Cur)'
    BY <2>1, <2>2, <2>4 DEF Taken
  <2> QED BY <2>1, <2>2, <2>3, <2>4, <2>5 DEF HeadProgresses
<1> QED BY <1>1, <1>2

(* Steps outside the drain. *)
Outside ==
    \/ \E i \in use.items, kind \in use.kinds, t \in Tasks : Tap(i, kind, t)
    \/ \E i \in Items : Deliver(i)
    \/ \E t \in Tasks : EditTask(t)
    \/ \E i \in Items : DeleteMade(i)
    \/ Save
    \/ HostMoves
    \/ UNCHANGED vars

LEMMA OutsideKeepsDrain ==
    ASSUME Outside
    PROVE  UNCHANGED <<todo, pc, outcome, seen, record, recorded, unfinished, void>>
  BY HostMovesAlone DEF Outside, Tap, Deliver, EditTask, DeleteMade, Save, vars, drain

LEMMA OutsideKeepsHead ==
    ASSUME Typed, TapsDiffer, WorksThroughQueue, DiskFollows, HeadProgresses, [Next]_vars, Outside
    PROVE  HeadProgresses'
<1>1. UNCHANGED <<todo, pc, outcome, seen, void>>
  BY OutsideKeepsDrain
<1>2. \A i \in Items : place[i] # "unused" => item'[i] = item[i]
  BY PlacesAdvance DEF Used
<1>3. /\ memory.applied \subseteq memory'.applied
      /\ \A i \in Items : (memory.made[i] # "none") <=> (memory'.made[i] # "none")
  <2>1. ASSUME NEW t \in Tasks, EditTask(t)
        PROVE  memory'.applied = memory.applied /\ memory'.made = memory.made
    BY <2>1, EditOf
  <2>2. ASSUME NEW i \in Items, DeleteMade(i)
        PROVE  memory'.applied = memory.applied
               /\ \A j \in Items : (memory'.made[j] # "none") <=> (memory.made[j] # "none")
    BY <2>2, DeletionOfMade
  <2>3. \/ memory' = memory
        \/ \E t \in Tasks : EditTask(t)
        \/ \E i \in Items : DeleteMade(i)
    BY HostMovesAlone DEF Outside, Tap, Deliver, Save, vars
  <2> QED BY <2>1, <2>2, <2>3
<1> QED BY <1>1, <1>2, <1>3, DiskGrows, HeadKept

LEMMA StepHeadProgresses ==
    ASSUME Typed, Typed', TapsDiffer, WorksThroughQueue, DiskFollows, RecordsProve, HeadProgresses, [Next]_vars
    PROVE  HeadProgresses'
<1>1. ASSUME pc' \in {"idle", "item"} PROVE HeadProgresses'
  BY <1>1 DEF HeadProgresses
<1>2. CASE Outside
  BY <1>2, OutsideKeepsHead
<1>3. CASE ApplyCommand /\ pc' = "save"
  <2>1. /\ todo # <<>> /\ todo' = todo /\ IsCommand(Cur) /\ UNCHANGED <<item, seen>> /\ seen.state = "read"
        /\ Cur' = Cur
    BY <1>3 DEF ApplyCommand, WriteRefused, Unfinished, NextItem, Finish, Cur
  <2>2. Cur \in Items /\ item[Cur].task \in Tasks /\ item[Cur].tap \in Nat
    BY <2>1, HeadAndRest DEF Typed, FilesTyped
  <2>3. ~IsCapture(Cur) /\ Kind(Cur) # "malformed"
    BY <2>1, <2>2, KindsDiffer
  <2>4. IsCommand(Cur)' /\ ~IsCapture(Cur)' /\ Kind(Cur)' # "malformed"
    BY <2>1, <2>3 DEF IsCommand, IsCapture, Kind
  <2>5. \/ outcome' = "skipped" /\ Skip(Cur)'
        \/ outcome' = "void" /\ Cur \in void'
        \/ outcome' = "applied" /\ Cur \in memory'.applied /\ ~Skip(Cur)
    <3>1. CASE Skip(Cur) /\ outcome' = "skipped"
      BY <2>1, <3>1 DEF Skip
    <3>2. CASE outcome' = "void" /\ void' = void \cup {Cur}
      BY <3>2
    <3>3. CASE ~Skip(Cur) /\ memory' = Effect(Cur) /\ outcome' = "applied"
      BY <2>1, <3>3, EffectOn
    <3> QED BY <1>3, <3>1, <3>2, <3>3 DEF ApplyCommand, WriteRefused, Unfinished, NextItem, Finish
  <2>6. Taken(memory, Cur)'
    BY <2>1, <2>5 DEF Taken
  <2>7. outcome' = "applied" => item'[Cur].tap >= seen'.of[item'[Cur].task].tap
    <3>1. seen.of[item[Cur].task].tap \in Nat
      BY <2>2 DEF Typed, DrainTyped, Record
    <3> QED BY <2>1, <2>2, <2>5, <3>1 DEF Skip
  <2> QED BY <1>3, <2>1, <2>4, <2>5, <2>6, <2>7 DEF HeadProgresses
<1>4. CASE Assemble /\ pc' # "item"
  <2>1. /\ todo # <<>> /\ todo' = todo /\ IsCapture(Cur) /\ item' = item /\ outcome' = "" /\ Cur' = Cur
        /\ \/ Stored(Cur) /\ pc' = "save" /\ memory' = memory
           \/ ~Stored(Cur) /\ pc' = "addTask" /\ memory' = WithProject(Cur)
    BY <1>4 DEF Assemble, NextItem, Elsewhere, Cur
  <2>2. Cur \in Items /\ ~IsCommand(Cur) /\ Kind(Cur) # "malformed"
    BY <2>1, HeadAndRest, KindsDiffer
  <2>3. IsCapture(Cur)' /\ ~IsCommand(Cur)' /\ Kind(Cur)' # "malformed"
    BY <2>1, <2>2 DEF IsCommand, IsCapture, Kind
  <2>4. pc' = "save" => Taken(memory, Cur)'
    BY <2>1, <2>3 DEF Taken, Stored
  <2>5. pc' = "addTask" => (HasUuid(Cur)' => memory'.made[Cur] = "none")
    BY <2>1, CaptureMade DEF Stored, HasUuid, Kind
  <2> QED BY <2>1, <2>3, <2>4, <2>5 DEF HeadProgresses
<1>5. CASE AddTask /\ pc' = "save"
  <2>1. /\ pc = "addTask" /\ todo # <<>> /\ todo' = todo /\ UNCHANGED <<item, seen, outcome>> /\ Cur' = Cur
        /\ memory' = [memory EXCEPT !.made[Cur] = "live", !.applied = @ \cup {Cur}]
    BY <1>5 DEF AddTask, WriteRefused, Unfinished, NextItem, Finish, Cur, WorksThroughQueue
  <2>2. Cur \in Items /\ IsCapture(Cur) /\ outcome = "" /\ ~IsCommand(Cur) /\ Kind(Cur) # "malformed"
    BY <2>1, HeadAndRest, KindsDiffer DEF HeadProgresses
  <2>3. IsCapture(Cur)' /\ ~IsCommand(Cur)' /\ Kind(Cur)' # "malformed"
    BY <2>1, <2>2 DEF IsCommand, IsCapture, Kind
  <2>4. memory'.made[Cur] # "none"
    BY <2>1, CaptureMade
  <2>5. Taken(memory, Cur)'
    BY <2>1, <2>3, <2>4 DEF Taken
  <2> QED BY <1>5, <2>1, <2>2, <2>3, <2>5 DEF HeadProgresses
<1>6. CASE FlushPendingSave /\ pc' # "item"
  <2>1. /\ pc = "save" /\ todo # <<>> /\ UNCHANGED <<todo, item, seen, outcome, memory, void>> /\ Cur' = Cur
        /\ disk' = memory /\ pc' = AfterSave
    BY <1>6 DEF FlushPendingSave, Unfinished, NextItem, Elsewhere, Cur, WorksThroughQueue
  <2>2. /\ Taken(memory, Cur) /\ Kind(Cur) # "malformed"
        /\ IsCommand(Cur) => seen.state = "read" /\ outcome # ""
        /\ IsCapture(Cur) => outcome = ""
        /\ outcome = "applied" => item[Cur].tap >= seen.of[item[Cur].task].tap
    BY <2>1 DEF HeadProgresses
  <2>3. /\ Kind(Cur)' = Kind(Cur) /\ (IsCommand(Cur)' <=> IsCommand(Cur)) /\ (IsCapture(Cur)' <=> IsCapture(Cur))
        /\ Skip(Cur)' <=> Skip(Cur)
    BY <2>1 DEF IsCommand, IsCapture, Kind, Skip
  <2>4. Taken(memory, Cur)' /\ Taken(disk, Cur)'
    BY <2>1, <2>2, <2>3 DEF Taken
  <2>5. (pc' = "remember" /\ outcome' = "applied") \/ pc' = "delete"
    BY <2>1 DEF AfterSave
  <2> QED BY <2>1, <2>2, <2>3, <2>4, <2>5 DEF HeadProgresses
<1>7. CASE Remember
  <2>1. /\ pc = "remember" /\ pc' = "delete" /\ todo # <<>> /\ Cur' = Cur
        /\ UNCHANGED <<todo, item, outcome, memory, disk, void>>
    BY <1>7 DEF Remember, Elsewhere, Cur, WorksThroughQueue
  <2>2. /\ Cur \in Items /\ IsCommand(Cur) /\ Cur \in disk.applied /\ outcome = "applied" /\ seen.state = "read"
    BY <2>1, RememberedIsSaved
  <2>3. Cur \in memory.applied /\ ~IsCapture(Cur) /\ Kind(Cur) # "malformed"
    BY <2>2, KindsDiffer DEF DiskFollows
  <2>4. seen'.state = "read"
    <3>1. \E r : seen' = [seen EXCEPT !.of = r]
      BY <1>7 DEF Remember
    <3> QED BY <2>2, <3>1 DEF Typed, DrainTyped
  <2>5. IsCommand(Cur)' /\ ~IsCapture(Cur)' /\ Kind(Cur)' # "malformed"
    BY <2>1, <2>2, <2>3 DEF IsCommand, IsCapture, Kind
  <2> QED BY <2>1, <2>2, <2>3, <2>4, <2>5 DEF HeadProgresses, Taken
<1>8. CASE Delete /\ pc' # "item"
  <2>1. pc' = "deleteAudio" /\ Kind(Cur) = "audio" /\ UNCHANGED <<todo, item>> /\ Cur' = Cur
    BY <1>8 DEF Delete, Unfinished, NextItem, Elsewhere, Cur
  <2> QED BY <2>1 DEF HeadProgresses, Kind
<1>9. Crash \/ StartDrain \/ EndDrain \/ NoRecord \/ Discard \/ DeleteAudio => pc' \in {"idle", "item"}
  BY DEF Crash, StartDrain, EndDrain, Finish, NoRecord, Unfinished, Discard, DeleteAudio, NextItem
<1>10. ReadRecord => pc' \in {"idle", "item"}
  BY DEF ReadRecord
<1>11. ApplyCommand \/ AddTask => pc' \in {"idle", "item", "save"}
  BY DEF ApplyCommand, AddTask, WriteRefused, Unfinished, NextItem, Finish
<1> QED
  BY <1>1, <1>2, <1>3, <1>4, <1>5, <1>6, <1>7, <1>8, <1>9, <1>10, <1>11, Zenon
  DEF Next, Step, Drain, HostMoves, Outside

-----------------------------------------------------------------------------
(* The item whose file goes has had its effect, or nothing was to do, or a   *)
(* later one had its effect before it.                                       *)
Accounted(i) ==
    \/ IsCapture(i) /\ disk.made[i] # "none"
    \/ i \in disk.applied \cup void
    \/ \E j \in disk.applied : /\ IsCommand(i) /\ IsCommand(j)
                               /\ item[j].task = item[i].task /\ item[j].tap > item[i].tap

LEMMA TakenIsAccounted ==
    ASSUME Typed, HeadProgresses, RecordsProve, todo # <<>>, pc = "delete"
    PROVE  Kind(Cur) # "malformed" /\ Accounted(Cur)
<1>1. Cur \in Items /\ Kind(Cur) # "malformed" /\ Taken(disk, Cur)
  BY HeadAndRest DEF HeadProgresses
<1>2. ASSUME outcome = "skipped", Skip(Cur) PROVE Accounted(Cur)
  <2> DEFINE last == seen.of[item[Cur].task]
  <2>1. IsCommand(Cur)
    BY <1>1, <1>2, KindsDiffer DEF HeadProgresses
  <2>2. /\ item[Cur].task \in Tasks /\ item[Cur].tap \in Nat /\ Cur # 0
    BY <1>1, CapturesConstants DEF Typed, FilesTyped
  <2>3. \/ last = None
        \/ /\ last.id \in disk.applied /\ IsCommand(last.id)
           /\ item[last.id].task = item[Cur].task /\ item[last.id].tap = last.tap
    BY <2>2 DEF RecordsProve, Proves
  <2>4. last.id = Cur \/ item[Cur].tap < last.tap
    BY <1>2 DEF Skip
  <2>5. last # None
    BY <2>2, <2>4 DEF None
  <2> QED BY <2>1, <2>2, <2>3, <2>4, <2>5 DEF Accounted
<1> QED BY <1>1, <1>2 DEF Taken, Accounted

LEMMA StepNothingIsLost ==
    ASSUME Typed, Typed', TapsDiffer, WorksThroughQueue, DiskFollows, RecordsProve, HeadProgresses,
           NothingIsLost, [Next]_vars
    PROVE  NothingIsLost'
<1>1. ASSUME NEW i \in Items, place[i] # "unused", Accounted(i) PROVE Accounted(i)'
  <2>1. item'[i] = item[i]
    BY <1>1, PlacesAdvance DEF Used
  <2>2. void \subseteq void'
    BY StoresMove
  <2>3. CASE IsCapture(i) /\ disk.made[i] # "none"
    BY <2>1, <2>3, DiskGrows DEF Accounted, IsCapture, Kind
  <2>4. CASE i \in disk.applied \cup void
    BY <2>2, <2>4, DiskGrows DEF Accounted
  <2>5. ASSUME NEW j \in disk.applied,
               IsCommand(i) /\ IsCommand(j) /\ item[j].task = item[i].task /\ item[j].tap > item[i].tap
        PROVE  Accounted(i)'
    BY <2>1, <2>5, DiskGrows DEF Accounted, IsCommand, Kind
  <2> QED BY <1>1, <2>3, <2>4, <2>5 DEF Accounted
<1>2. ASSUME NEW i \in Items, place'[i] = "gone", Kind(i)' # "malformed" PROVE Accounted(i)'
  <2>1. CASE place[i] = "gone"
    <3>1. item'[i] = item[i]
      BY <2>1, PlacesAdvance DEF Used
    <3>2. Kind(i) # "malformed"
      BY <1>2, <3>1 DEF Kind
    <3>3. Accounted(i)
      BY <2>1, <3>2 DEF NothingIsLost, Accounted
    <3> QED BY <1>1, <2>1, <3>3
  <2>2. CASE place[i] # "gone"
    <3>1. i = Cur /\ (Discard \/ Delete) /\ todo # <<>> /\ place[i] = "queued" /\ item'[i] = item[i]
      BY <1>2, <2>2, PlacesAdvance DEF Used
    <3>2. ~Discard
      BY <1>2, <3>1 DEF Discard, Kind
    <3>3. Accounted(Cur)
      BY <3>1, <3>2, TakenIsAccounted DEF Delete
    <3> QED BY <1>1, <3>1, <3>3
  <2> QED BY <2>1, <2>2
<1> QED BY <1>2 DEF NothingIsLost, Accounted

(* Recordings are made by taps and deleted after their files. *)
LEMMA RecordingsMove ==
    ASSUME [Next]_vars
    PROVE  \/ wav' = wav /\ ~\E i \in use.items, kind \in use.kinds, t \in Tasks : Tap(i, kind, t)
           \/ \E i \in use.items, kind \in use.kinds, t \in Tasks : Tap(i, kind, t)
           \/ DeleteAudio
<1>1. ASSUME NEW i \in Items, Deliver(i) PROVE wav' = wav
  BY <1>1 DEF Deliver
<1>2. ASSUME NEW t \in Tasks, EditTask(t) PROVE wav' = wav
  BY <1>2 DEF EditTask, queueVars
<1>3. ASSUME NEW i \in Items, DeleteMade(i) PROVE wav' = wav
  BY <1>3 DEF DeleteMade, queueVars
<1>4. Save \/ Crash \/ StartDrain \/ EndDrain => wav' = wav
  BY DEF Save, Crash, StartDrain, EndDrain, queueVars
<1>5. ReadRecord \/ NoRecord \/ ApplyCommand \/ Assemble \/ AddTask \/ Discard => wav' = wav
  BY DEF ReadRecord, NoRecord, ApplyCommand, Assemble, AddTask, Discard
<1>6. FlushPendingSave \/ Remember \/ Delete => wav' = wav
  BY DEF FlushPendingSave, Remember, Delete
<1>7. UNCHANGED vars => wav' = wav
  BY DEF vars, queueVars
<1>8. HostMoves => wav' = wav
  BY HostMovesAlone
<1> QED BY <1>1, <1>2, <1>3, <1>4, <1>5, <1>6, <1>7, <1>8, Zenon DEF Next, Step, Drain, HostMoves

LEMMA StepRecordingIsKept ==
    ASSUME Typed, WorksThroughQueue, RecordingIsKept, [Next]_vars
    PROVE  RecordingIsKept'
<1>0. place \in [Items -> {"unused", "sent", "queued", "gone"}] /\ use.items \subseteq Items
      /\ item \in [Items -> [kind : AllKinds, task : Tasks, tap : Nat]]
  BY CapturesConstants DEF Typed, FilesTyped, CountersTyped, IsUse
<1> SUFFICES ASSUME NEW i \in Items, Kind(i)' = "audio", place'[i] \in {"sent", "queued"}
             PROVE  i \in wav'
  BY DEF RecordingIsKept
<1>1. ASSUME NEW j \in use.items, NEW kind \in use.kinds, NEW t \in Tasks, Tap(j, kind, t)
      PROVE  i \in wav'
  <2>1. CASE j = i
    <3>1. item'[i].kind = kind
      BY <1>0, <1>1, <2>1 DEF Tap
    <3>2. kind = "audio"
      BY <3>1 DEF Kind
    <3> QED BY <1>1, <2>1, <3>2 DEF Tap
  <2>2. CASE j # i
    <3>1. item'[i] = item[i] /\ place'[i] = place[i] /\ wav \subseteq wav'
      BY <1>0, <1>1, <2>2 DEF Tap
    <3> QED BY <3>1 DEF RecordingIsKept, Kind
  <2> QED BY <2>1, <2>2
<1>2. ASSUME ~\E j \in use.items, kind \in use.kinds, t \in Tasks : Tap(j, kind, t) PROVE i \in wav
  <2>1. \/ \E j \in Items : Deliver(j)
        \/ Discard
        \/ Delete
        \/ UNCHANGED <<item, place, clock>>
    BY <1>2, FilesMove
  <2>2. item' = item
    BY <2>1 DEF Deliver, Discard, Delete, Elsewhere
  <2>3. \/ place'[i] = place[i]
        \/ place[i] = "sent"
        \/ place[i] = "queued"
    <3>1. ASSUME NEW j \in Items, Deliver(j) PROVE place'[i] = place[i] \/ place[i] = "sent"
      BY <1>0, <3>1 DEF Deliver
    <3>2. CASE Discard \/ Delete
      <4>1. todo # <<>> /\ Cur \in Items /\ (place' = place \/ place' = [place EXCEPT ![Cur] = "gone"])
        BY <3>2, HeadAndRest DEF Discard, Delete, WorksThroughQueue
      <4> QED BY <1>0, <4>1
    <3> QED BY <2>1, <3>1, <3>2
  <2> QED BY <2>2, <2>3 DEF RecordingIsKept, Kind
<1>3. CASE DeleteAudio
  <2>1. ~\E j \in use.items, kind \in use.kinds, t \in Tasks : Tap(j, kind, t)
    <3>1. clock \in Nat /\ clock' = clock
      BY <1>3 DEF DeleteAudio, Elsewhere, Typed, CountersTyped
    <3> QED BY <3>1 DEF Tap
  <2>2. i \in wav
    BY <1>2, <2>1
  <2>3. todo # <<>> /\ pc = "deleteAudio" /\ place' = place
    BY <1>3 DEF DeleteAudio, WorksThroughQueue
  <2>4. place[Cur] = "gone"
    BY <2>3, HeadAndRest DEF WorksThroughQueue
  <2> QED BY <1>3, <2>2, <2>3, <2>4 DEF DeleteAudio
<1> QED BY <1>1, <1>2, <1>3, RecordingsMove

-----------------------------------------------------------------------------
LEMMA BaseInit == Init => CapturesBase
<1> SUFFICES ASSUME Init PROVE CapturesBase
  OBVIOUS
<1>1. Typed
  BY InitTyped
<1>2. /\ \A i \in Items : place[i] = "unused" /\ item[i].tap = 0
      /\ clock = 0 /\ todo = <<>> /\ pc = "idle" /\ memory = EmptyStore /\ disk = EmptyStore
      /\ record = [t \in Tasks |-> None] /\ seen = NotRead
  BY DEF Init
<1>3. TapsDiffer
  BY <1>2 DEF TapsDiffer, Used
<1>4. WorksThroughQueue
  <2>1. Len(todo) = 0
    BY <1>2
  <2> QED BY <1>2, <2>1 DEF WorksThroughQueue
<1>5. DiskFollows
  <2>1. /\ EmptyStore.applied = {} /\ EmptyStore.overruled = {}
        /\ \A t \in Tasks : EmptyStore.task[t].start = 0
    BY DEF EmptyStore
  <2> QED BY <1>2, <2>1 DEF DiskFollows, StoreOf
<1>6. RecordsProve
  BY <1>2 DEF RecordsProve, Proves, NotRead
<1>7. HeadProgresses
  BY <1>2 DEF HeadProgresses
<1>8. NothingIsLost /\ RecordingIsKept
  BY <1>2 DEF NothingIsLost, RecordingIsKept
<1> QED BY <1>1, <1>3, <1>4, <1>5, <1>6, <1>7, <1>8 DEF CapturesBase

LEMMA BaseStep == CapturesBase /\ [Next]_vars => CapturesBase'
<1> SUFFICES ASSUME CapturesBase, [Next]_vars PROVE CapturesBase'
  OBVIOUS
<1>1. Typed /\ TapsDiffer /\ WorksThroughQueue /\ DiskFollows /\ RecordsProve /\ HeadProgresses
      /\ NothingIsLost /\ RecordingIsKept
  BY DEF CapturesBase
<1>2. Typed'
  BY <1>1, StepTyped DEF WorksThroughQueue
<1>3. TapsDiffer' /\ WorksThroughQueue' /\ DiskFollows'
  BY <1>1, <1>2, StepTapsDiffer, StepWorksThroughQueue, StepDiskFollows
<1>4. RecordsProve' /\ HeadProgresses'
  BY <1>1, <1>2, StepRecordsProve, StepHeadProgresses
<1>5. NothingIsLost' /\ RecordingIsKept'
  BY <1>1, <1>2, StepNothingIsLost, StepRecordingIsKept
<1> QED BY <1>2, <1>3, <1>4, <1>5 DEF CapturesBase

-----------------------------------------------------------------------------
(* What is settled stays settled. *)
LEMMA StaysSettled ==
    ASSUME Typed, Typed', WorksThroughQueue, HeadProgresses, RecordsProve, [Next]_vars,
           NEW i \in Items, place[i] # "unused", Settled(i)
    PROVE  Settled(i)'
<1>1. item'[i] = item[i] /\ (place[i] = "gone" => place'[i] = "gone")
  BY PlacesAdvance DEF Used
<1>2. item[i].task \in Tasks /\ item[i].tap \in Nat
  BY DEF Typed, FilesTyped
<1>3. /\ record[item[i].task].tap \in Nat /\ record'[item[i].task].tap \in Nat
      /\ record[item[i].task].tap <= record'[item[i].task].tap
  <2>1. record \in Record /\ record' \in Record
    BY DEF Typed, StoresTyped
  <2> QED BY <1>2, <2>1, RecordGrows DEF Record
<1> QED BY <1>1, <1>2, <1>3 DEF Settled

(* Applied commands and what the store has overruled, after a step. *)
LEMMA AppliedMove ==
    ASSUME Typed, TapsDiffer, WorksThroughQueue, DiskFollows, [Next]_vars
    PROVE  /\ \/ memory'.overruled \subseteq memory.overruled
              \/ \E t \in Tasks : EditTask(t) /\ memory'.overruled = memory.overruled \cup Overruled(t)
           /\ \A i \in memory'.applied :
                 \/ i \in memory.applied
                 \/ i = Cur /\ todo # <<>> /\ todo' = todo /\ pc # "idle" /\ pc' = "save"
           /\ \A i \in memory'.applied : i \in Items
<1>1. memory.applied \subseteq Items /\ (todo # <<>> => Cur \in Items)
  BY HeadAndRest DEF Typed, StoresTyped, Store
<1>2. CASE memory' = memory
  BY <1>1, <1>2
<1>3. CASE memory' = disk
  BY <1>1, <1>3 DEF DiskFollows
<1>4. ASSUME NEW t \in Tasks, EditTask(t)
      PROVE  memory'.applied = memory.applied /\ memory'.overruled = memory.overruled \cup Overruled(t)
  BY <1>4, EditOf
<1>5. ASSUME NEW i \in Items, DeleteMade(i)
      PROVE  memory'.applied = memory.applied /\ memory'.overruled = memory.overruled
  BY <1>5, DeletionOfMade
<1>6. ASSUME ApplyCommand, memory' = Effect(Cur), memory' # memory
      PROVE  /\ memory'.applied = memory.applied \cup {Cur} /\ memory'.overruled = memory.overruled
             /\ todo # <<>> /\ todo' = todo /\ pc # "idle" /\ pc' = "save"
  <2>1. todo # <<>> /\ pc = "item" /\ todo' = todo /\ pc' = "save"
    BY <1>6 DEF ApplyCommand, WriteRefused
  <2> QED BY <1>6, <2>1, EffectOn
<1>7. ASSUME Assemble, memory' = WithProject(Cur)
      PROVE  memory'.applied = memory.applied /\ memory'.overruled = memory.overruled
  <2>1. todo # <<>>
    BY <1>7 DEF Assemble
  <2> QED BY <1>7, <2>1, CaptureMade
<1>8. ASSUME AddTask, memory' = [memory EXCEPT !.made[Cur] = "live", !.applied = @ \cup {Cur}], memory' # memory
      PROVE  /\ memory'.applied = memory.applied \cup {Cur} /\ memory'.overruled = memory.overruled
             /\ todo # <<>> /\ todo' = todo /\ pc # "idle" /\ pc' = "save"
  <2>1. todo # <<>> /\ pc = "addTask" /\ todo' = todo /\ pc' = "save"
    BY <1>8 DEF AddTask, WriteRefused, WorksThroughQueue
  <2> QED BY <1>8, <2>1, CaptureMade
<1> QED BY <1>1, <1>2, <1>3, <1>4, <1>5, <1>6, <1>7, <1>8, StoreKept

(* An edit is made between drains, and overrules what none will take again. *)
LEMMA EditsBetweenDrains ==
    ASSUME EditsFindSettled, NEW t \in Tasks, EditTask(t), NEW i \in Overruled(t)
    PROVE  EditsWait /\ i \in memory.applied /\ IsCommand(i) /\ Settled(i)
<1>1. EditsWait /\ host = "open" /\ i \in memory.applied /\ i \notin missed /\ IsCommand(i)
  BY DEF Overruled
<1>2. pc = "idle"
  BY <1>1 DEF EditTask
<1> QED BY <1>1, <1>2 DEF EditsFindSettled

LEMMA StepEditsFindSettled ==
    ASSUME CapturesBase, Typed', EditsFindSettled, [Next]_vars
    PROVE  EditsFindSettled'
<1>0. Typed /\ TapsDiffer /\ WorksThroughQueue /\ DiskFollows /\ RecordsProve /\ HeadProgresses
  BY DEF CapturesBase
<1>1. use' = use /\ EditsWait' = EditsWait /\ EditsWait \in BOOLEAN /\ Owed' = ("owed" \in unfinished')
      /\ host \in {"booting", "open", "failed", "owing"}
  BY <1>0, FilesMove, CapturesConstants DEF EditsWait, Typed, CountersTyped, HostTyped, IsUse, Owed
<1>2. ASSUME NEW i \in memory.applied
      PROVE  i \in Items /\ place[i] \in {"queued", "gone"} /\ item'[i] = item[i] /\ (IsCommand(i)' <=> IsCommand(i))
  <2>1. i \in Items /\ place[i] \in {"queued", "gone"}
    BY <1>0 DEF Typed, StoresTyped, Store, DiskFollows, StoreOf
  <2>2. item'[i] = item[i]
    BY <1>0, <2>1, PlacesAdvance DEF Used
  <2> QED BY <2>1, <2>2 DEF IsCommand, Kind
<1>3. \A i \in memory.applied : Settled(i) => Settled(i)'
  <2>1. \A i \in memory.applied : i \in Items /\ place[i] # "unused"
    BY <1>2
  <2> QED BY <1>0, <2>1, StaysSettled
<1>4. memory.overruled \subseteq memory.applied
  BY <1>0 DEF DiskFollows, StoreOf
<1>5. /\ \/ memory'.overruled \subseteq memory.overruled
         \/ \E t \in Tasks : EditTask(t) /\ memory'.overruled = memory.overruled \cup Overruled(t)
      /\ \A i \in memory'.applied :
            \/ i \in memory.applied
            \/ i = Cur /\ todo # <<>> /\ todo' = todo /\ pc # "idle" /\ pc' = "save"
  BY <1>0, AppliedMove
<1>6. ASSUME NEW i \in memory'.overruled
      PROVE  EditsWait /\ IsCommand(i)' /\ Settled(i)'
  <2>1. CASE i \in memory.overruled
    BY <1>1, <1>2, <1>3, <1>4, <2>1 DEF EditsFindSettled
  <2>2. CASE i \notin memory.overruled
    <3>1. PICK t \in Tasks : EditTask(t) /\ i \in Overruled(t)
      BY <1>5, <1>6, <2>2
    <3> QED BY <1>2, <1>3, <3>1, EditsBetweenDrains
  <2> QED BY <2>1, <2>2
<1>9. Stays \/ Ends \/ Starts \/ Advances \/ GoesOn \/ Consumes
  BY <1>0, DrainMoves
<1>7. ~(pc' = "idle" /\ (Starts \/ Advances \/ GoesOn \/ Consumes))
  BY DEF Starts, StartDrain, Advances, NextItem, GoesOn, Consumes
<1>8. ASSUME EditsWait, pc' = "idle", host' = "open" PROVE ~entry'
  <2>1. CASE Stays /\ host' = host
    BY <1>8, <2>1 DEF Stays, EditsFindSettled
  <2>2. CASE Stays /\ HostGoesOn
    BY <1>8, <2>2 DEF Stays, HostGoesOn
  <2>3. CASE Crash
    BY <1>1, <1>8, <2>3 DEF Crash, Booted
  <2>4. CASE Answers
    BY <1>8, <2>4 DEF Answers
  <2> QED BY <1>7, <1>8, <1>9, <2>1, <2>2, <2>3, <2>4 DEF Ends, Stays
<1>10. ASSUME EditsWait, pc' = "idle", ~entry', host' # "booting", NEW i \in memory'.applied, IsCommand(i)'
       PROVE  i \in missed' \/ Settled(i)'
  <2>1. i \in memory.applied /\ IsCommand(i)
    BY <1>2, <1>5, <1>10
  <2>2. CASE Stays
    <3>1. pc = "idle" /\ ~entry /\ missed' = missed
      BY <1>10, <2>2 DEF Stays
    <3>2. CASE host # "booting"
      BY <1>3, <1>10, <2>1, <3>1, <3>2 DEF EditsFindSettled
    <3>3. CASE host = "booting"
      <4>1. HostGoesOn
        BY <1>10, <2>2, <3>3 DEF Stays
      <4>2. \A j \in Items : place[j] # "queued"
        BY <3>3, <4>1 DEF HostGoesOn
      <4>3. place[i] = "gone"
        BY <1>2, <2>1, <4>2
      <4> QED BY <1>3, <2>1, <4>3 DEF Settled
    <3> QED BY <3>2, <3>3
  <2>3. CASE Crash
    BY <1>1, <1>10, <2>3 DEF Crash, Booted
  <2>4. CASE Answers
    <3>1. pc # "idle" /\ ~Owed /\ missed \subseteq missed' /\ \A k \in 1..Len(todo) : todo[k] \in missed'
      BY <1>10, <2>4 DEF Answers
    <3>2. i \in missed \/ InTodo(i) \/ Settled(i)
      BY <1>10, <2>1, <3>1 DEF EditsFindSettled
    <3> QED BY <1>3, <2>1, <3>1, <3>2 DEF InTodo
  <2> QED BY <1>7, <1>9, <1>10, <2>2, <2>3, <2>4 DEF Ends
<1>11. ASSUME EditsWait, pc' # "idle", ~Owed', NEW i \in memory'.applied, IsCommand(i)'
       PROVE  i \in missed' \/ InTodo(i)' \/ Settled(i)'
  <2>1. todo # <<>> => Cur = todo[1] /\ 1 \in 1..Len(todo) /\ Cur \in Items
    BY <1>0, HeadAndRest
  <2>2. CASE i \notin memory.applied
    <3>1. i = Cur /\ todo # <<>> /\ todo' = todo
      BY <1>5, <1>11, <2>2
    <3> QED BY <2>1, <3>1 DEF InTodo
  <2>3. CASE i \in memory.applied /\ Starts
    <3>1. IsCommand(i) /\ i \in Items /\ place[i] \in {"queued", "gone"} /\ pc = "idle"
      BY <1>2, <1>11, <2>3 DEF Starts, StartDrain, MayDrain
    <3>2. CASE place[i] = "gone"
      BY <1>3, <2>3, <3>2 DEF Settled
    <3>3. CASE place[i] = "queued"
      <4> DEFINE files == {j \in Items : place[j] = "queued"}
      <4>1. PICK f \in SUBSET Items : todo' \in DrainOrders(f) /\ files \subseteq f \cup missed'
        <5>1. \/ todo' \in DrainOrders(files)
              \/ \E j \in files : todo' \in DrainOrders(files \ {j}) /\ missed' = {j}
          BY <2>3 DEF Starts, StartDrain
        <5>2. CASE todo' \in DrainOrders(files)
          BY <5>2
        <5>3. CASE \E j \in files : todo' \in DrainOrders(files \ {j}) /\ missed' = {j}
          <6>1. PICK j \in files : todo' \in DrainOrders(files \ {j}) /\ missed' = {j}
            BY <5>3
          <6>2. files \ {j} \in SUBSET Items /\ files \subseteq (files \ {j}) \cup missed'
            BY <6>1
          <6> QED BY <6>1, <6>2
        <5> QED BY <5>1, <5>2, <5>3
      <4>2. i \in files
        BY <3>1, <3>3
      <4>3. i \in f => \E k \in 1..Len(todo') : todo'[k] = i
        <5> HIDE DEF files
        <5> QED BY <1>0, <4>1, EntriesOfDrain
      <4> QED BY <4>1, <4>2, <4>3 DEF InTodo
    <3> QED BY <3>1, <3>2, <3>3
  <2>4. CASE i \in memory.applied /\ ~Starts
    <3>1. pc # "idle" /\ ~Owed /\ missed \subseteq missed'
      <4>1. pc = "idle" => todo = <<>>
        BY <1>0 DEF WorksThroughQueue
      <4>2. Stays => pc # "idle" /\ ~Owed /\ missed' = missed
        BY <1>11 DEF Stays, Owed
      <4>3. Advances \/ GoesOn \/ Consumes => pc # "idle" /\ ~Owed /\ missed \subseteq missed'
        BY <1>11, <4>1 DEF Advances, GoesOn, Consumes, Owed
      <4> QED BY <1>9, <1>11, <2>4, <4>2, <4>3 DEF Ends, Answers, Crash
    <3>2. i \in missed \/ InTodo(i) \/ Settled(i)
      BY <1>2, <1>11, <2>4, <3>1 DEF EditsFindSettled
    <3>6. CASE i \in missed
      BY <3>1, <3>6
    <3>3. CASE Settled(i)
      BY <1>3, <2>4, <3>3
    <3>4. CASE InTodo(i) /\ todo' = todo
      BY <3>4 DEF InTodo
    <3>5. CASE InTodo(i) /\ todo' # todo
      <4>1. Advances
        BY <1>9, <1>11, <2>4, <3>5 DEF Stays, Ends, Answers, Crash, GoesOn, Consumes
      <4>2. PICK k \in 1..Len(todo) : todo[k] = i
        BY <3>5 DEF InTodo
      <4>3. CASE k = 1
        <5>1. i = Cur /\ IsCommand(Cur)
          BY <1>2, <1>11, <2>1, <2>4, <4>1, <4>2, <4>3 DEF Advances
        <5>2. i \in missed' \/ place'[i] = "gone"
          BY <1>11, <4>1, <5>1 DEF Advances
        <5> QED BY <5>2 DEF Settled
      <4>4. CASE k # 1
        <5>1. /\ todo' = Tail(todo) /\ Len(todo') = Len(todo) - 1 /\ Len(todo) \in Nat
              /\ \A m \in 1..Len(todo') : todo'[m] = todo[m + 1]
          BY <1>0, <4>1, HeadAndRest DEF Advances, NextItem
        <5>2. k - 1 \in 1..Len(todo') /\ (k - 1) + 1 = k
          BY <4>2, <4>4, <5>1
        <5>3. todo'[k - 1] = i
          BY <4>2, <5>1, <5>2
        <5> QED BY <5>2, <5>3 DEF InTodo
      <4> QED BY <4>3, <4>4
    <3> QED BY <3>2, <3>3, <3>4, <3>5, <3>6
  <2> QED BY <2>2, <2>3, <2>4
<1>12. ~EditsWait => memory'.overruled = {}
  BY <1>6
<1> QED BY <1>1, <1>6, <1>8, <1>10, <1>11, <1>12 DEF EditsFindSettled

-----------------------------------------------------------------------------
(* What has been without edits until now has been so before. *)
LEMMA UndisturbedBefore ==
    ASSUME Typed, [Next]_vars, Undisturbed'
    PROVE  /\ Undisturbed /\ "recordWrite" \notin use.faulty
           /\ ~\E t \in Tasks : EditTask(t)
           /\ ~\E i \in Items : DeleteMade(i)
<1>1. edits \in Nat /\ edits' = 0 /\ use' = use /\ "recordWrite" \notin use'.faulty
  <2>1. use.edits \in Nat /\ edits \in 0..use.edits
    BY CapturesConstants DEF Typed, CountersTyped, IsUse
  <2> QED BY <2>1, FilesMove DEF Undisturbed
<1>2. ASSUME NEW t \in Tasks, EditTask(t) PROVE edits' = edits + 1 \/ (edits' = edits /\ edits # 0)
  BY <1>2 DEF EditTask, MayEdit, Typed, HostTyped
<1>3. ASSUME NEW i \in Items, DeleteMade(i) PROVE edits' = edits + 1
  BY <1>3 DEF DeleteMade, MayEdit
<1>4. ASSUME NEW i \in use.items, NEW kind \in use.kinds, NEW t \in Tasks, Tap(i, kind, t)
      PROVE  edits' = edits
  BY <1>4 DEF Tap, bounds
<1>5. ASSUME NEW i \in Items, Deliver(i) PROVE edits' = edits
  BY <1>5 DEF Deliver, bounds
<1>6. Save \/ Crash \/ StartDrain \/ EndDrain \/ UNCHANGED vars => edits' = edits
  BY DEF Save, Crash, StartDrain, EndDrain, vars, bounds
<1>7. ReadRecord \/ NoRecord \/ ApplyCommand \/ Assemble \/ AddTask \/ Discard => edits' = edits
  BY DEF ReadRecord, NoRecord, ApplyCommand, Assemble, AddTask, Discard, Elsewhere, bounds
<1>8. FlushPendingSave \/ Remember \/ Delete \/ DeleteAudio => edits' = edits
  BY DEF FlushPendingSave, Remember, Delete, DeleteAudio, Elsewhere, bounds
<1>11. HostMoves => edits' = edits \/ edits' = edits + 1
  BY DEF HostMoves, HostGoesOn, Ask, bounds
<1>9. edits' = edits \/ edits' = edits + 1
  BY <1>2, <1>3, <1>4, <1>5, <1>6, <1>7, <1>8, <1>11, Zenon DEF Next, Step, Drain, HostMoves
<1>10. edits = 0 /\ edits' # edits + 1
  BY <1>1, <1>9
<1> QED BY <1>1, <1>2, <1>3, <1>10 DEF Undisturbed

(* Without edits only a command touches a task. *)
LEMMA TasksMove ==
    ASSUME CapturesBase, [Next]_vars, ~\E t \in Tasks : EditTask(t), ~\E i \in Items : DeleteMade(i)
    PROVE  \/ memory' = disk /\ disk' = disk /\ Crash
           \/ memory' = memory /\ disk' = disk
           \/ memory' = memory /\ disk' = memory /\ (Save \/ FlushPendingSave)
           \/ disk' = disk /\ ApplyCommand /\ memory' = Effect(Cur) /\ ~Skip(Cur) /\ ~NothingToDo(Cur)
           \/ disk' = disk /\ memory'.task = memory.task /\ (Assemble \/ AddTask)
<1>1. Typed /\ WorksThroughQueue
  BY DEF CapturesBase
<1>2. ApplyCommand => memory' = memory \/ (memory' = Effect(Cur) /\ ~Skip(Cur) /\ ~NothingToDo(Cur))
  BY DEF ApplyCommand, WriteRefused
<1>3. Assemble \/ AddTask => todo # <<>>
  BY <1>1 DEF Assemble, AddTask, WorksThroughQueue
<1>4. /\ Assemble /\ memory' = WithProject(Cur) => memory'.task = memory.task
      /\ AddTask /\ memory' = [memory EXCEPT !.made[Cur] = "live", !.applied = @ \cup {Cur}]
            => memory'.task = memory.task
  BY <1>1, <1>3, CaptureMade
<1> QED BY <1>2, <1>4, StoreKept

(* The effect of a command on its task and on the others. *)
LEMMA CommandsEffect ==
    ASSUME CapturesBase, ApplyCommand, memory' = Effect(Cur), ~NothingToDo(Cur)
    PROVE  /\ todo # <<>> /\ Cur \in Items /\ IsCommand(Cur) /\ item[Cur].task \in Tasks
           /\ seen.state = "read" /\ record' = record /\ UNCHANGED <<item, place, seen>>
           /\ \A t \in Tasks : t # item[Cur].task => memory'.task[t] = memory.task[t]
           /\ memory.task[item[Cur].task].status # "deleted"
           /\ LET old == memory.task[item[Cur].task]  new == memory'.task[item[Cur].task] IN
              IF Kind(Cur) = "defer"
              THEN old.status # "done" /\ new.status = old.status /\ new.start = item[Cur].tap
              ELSE new.status = "done"
<1>1. Typed
  BY DEF CapturesBase
<1>2. todo # <<>> /\ IsCommand(Cur) /\ seen.state = "read" /\ record' = record /\ UNCHANGED <<item, place, seen>>
  BY DEF ApplyCommand
<1>3. Cur \in Items /\ item[Cur].task \in Tasks
  BY <1>1, <1>2, HeadAndRest DEF Typed, FilesTyped
<1>4. /\ \A t \in Tasks : t # item[Cur].task => memory'.task[t] = memory.task[t]
      /\ Kind(Cur) = "defer" =>
            /\ memory'.task[item[Cur].task].status = memory.task[item[Cur].task].status
            /\ memory'.task[item[Cur].task].start = item[Cur].tap
      /\ Kind(Cur) # "defer" => memory'.task[item[Cur].task].status = "done"
  BY <1>1, <1>2, EffectOn
<1>5. /\ memory.task[item[Cur].task].status # "deleted"
      /\ Kind(Cur) = "defer" => memory.task[item[Cur].task].status # "done"
  BY DEF NothingToDo
<1> QED BY <1>2, <1>3, <1>4, <1>5

(* The facts of CapturesBase that are about single items. *)
LEMMA ItemsNow ==
    ASSUME CapturesBase, [Next]_vars
    PROVE  /\ \A i \in Items : place[i] # "unused" => item'[i] = item[i] /\ place'[i] # "unused"
           /\ \A i \in Items : item[i].task \in Tasks /\ item[i].tap \in Nat
           /\ \A t \in Tasks : record[t].tap \in Nat /\ record'[t].tap \in Nat /\ record[t].tap <= record'[t].tap
           /\ todo # <<>> => Cur \in Items /\ place[Cur] # "unused"
<1>1. Typed /\ Typed' /\ WorksThroughQueue /\ HeadProgresses /\ RecordsProve
  BY BaseStep DEF CapturesBase
<1>2. \A i \in Items : place[i] # "unused" => item'[i] = item[i] /\ place'[i] # "unused"
  BY <1>1, PlacesAdvance DEF Used
<1>3. \A i \in Items : item[i].task \in Tasks /\ item[i].tap \in Nat
  BY <1>1 DEF Typed, FilesTyped
<1>4. \A t \in Tasks : record[t].tap \in Nat /\ record'[t].tap \in Nat
  <2>1. record \in Record /\ record' \in Record
    BY <1>1 DEF Typed, StoresTyped
  <2> QED BY <2>1 DEF Record
<1>5. todo # <<>> => Cur \in Items /\ place[Cur] # "unused"
  BY <1>1, HeadAndRest DEF WorksThroughQueue
<1> QED BY <1>1, <1>2, <1>3, <1>4, <1>5, RecordGrows

(* What the commands have ruled goes on to hold of a store, and a command    *)
(* that is remembered has ruled.                                             *)
RuledNext(s, t, r) ==
    \/ s.task[t].status = "done"
    \/ \E j \in Items : /\ place'[j] # "unused" /\ item'[j].kind = "defer" /\ item'[j].task = t
                        /\ s.task[t].start = item'[j].tap /\ r <= item'[j].tap
RulesNext(s, t) ==
    /\ s.task[t].status # "deleted"
    /\ s.task[t].status = "done" =>
          \E j \in Items : place'[j] # "unused" /\ item'[j].kind \in {"widget", "watch"} /\ item'[j].task = t
    /\ record'[t] # None => RuledNext(s, t, record'[t].tap)

LEMMA RulesCarry ==
    ASSUME CapturesBase, [Next]_vars, NEW s, CommandsRule(s),
           seen.state = "read" => seen.of = record, Remember => HasRuled(s, Cur)
    PROVE  \A t \in Tasks : RulesNext(s, t)
<1> SUFFICES ASSUME NEW t \in Tasks PROVE RulesNext(s, t)
  OBVIOUS
<1>1. /\ s.task[t].status # "deleted"
      /\ s.task[t].status = "done" =>
            \E j \in Items : place[j] # "unused" /\ item[j].kind \in {"widget", "watch"} /\ item[j].task = t
      /\ record[t] # None => Ruled(s, t, record[t].tap)
  BY DEF CommandsRule, Used, Kind
<1>2. ASSUME NEW r, Ruled(s, t, r) PROVE RuledNext(s, t, r)
  BY <1>2, ItemsNow DEF Ruled, RuledNext, Used, Kind
<1>3. record'[t] # None => RuledNext(s, t, record'[t].tap)
  <2>1. CASE record'[t] = record[t]
    BY <1>1, <1>2, <2>1
  <2>2. CASE record'[t] # record[t]
    <3>1. Remember
      BY <2>2, RecordMoves
    <3>2. /\ todo # <<>> /\ pc = "remember"
          /\ seen'.of[item[Cur].task] = [tap |-> item[Cur].tap, id |-> Cur]
          /\ \A u \in Tasks : u # item[Cur].task => seen'.of[u] = seen.of[u]
          /\ record' = seen'.of
      BY <2>2, <3>1, Remembering DEF CapturesBase
    <3>3. Cur \in Items /\ place[Cur] # "unused" /\ seen.of = record
      BY <3>2, ItemsNow, RememberedIsSaved DEF CapturesBase
    <3>4. t = item[Cur].task /\ record'[t].tap = item[Cur].tap
      BY <2>2, <3>2, <3>3
    <3>5. \/ s.task[t].status = "done"
          \/ Kind(Cur) = "defer" /\ s.task[t].start = item[Cur].tap
      BY <3>1, <3>4 DEF HasRuled
    <3>6. item'[Cur] = item[Cur] /\ place'[Cur] # "unused" /\ item[Cur].tap <= item[Cur].tap
      BY <3>3, ItemsNow
    <3> QED BY <3>3, <3>4, <3>5, <3>6 DEF RuledNext, Kind
  <2> QED BY <2>1, <2>2
<1> QED BY <1>1, <1>3, ItemsNow DEF RulesNext

LEMMA StepStoreRules ==
    ASSUME CapturesBase, StoreRules, HeadRules, [Next]_vars, "recordWrite" \notin use.faulty,
           ~\E t \in Tasks : EditTask(t), ~\E i \in Items : DeleteMade(i)
    PROVE  StoreRules'
<1>0. Typed /\ WorksThroughQueue /\ HeadProgresses /\ RecordsProve
  BY DEF CapturesBase
<1>1. /\ CommandsRule(memory) /\ CommandsRule(disk) /\ (seen.state = "read" => seen.of = record)
      /\ \A t \in Tasks : disk.task[t].status = "done" => memory.task[t].status = "done"
  BY DEF StoreRules
<1>2. Remember => HasRuled(memory, Cur) /\ HasRuled(disk, Cur)
  BY <1>0 DEF Remember, HeadRules, HeadProgresses
<1>3. \A t \in Tasks : RulesNext(memory, t) /\ RulesNext(disk, t)
  BY <1>1, <1>2, RulesCarry
<1>4. ASSUME ApplyCommand, memory' = Effect(Cur), ~Skip(Cur), ~NothingToDo(Cur), NEW t \in Tasks
      PROVE  /\ RulesNext(memory', t)
             /\ memory.task[t].status = "done" => memory'.task[t].status = "done"
  <2>1. CASE t # item[Cur].task
    <3>1. memory'.task[t] = memory.task[t]
      BY <1>4, <2>1, CommandsEffect
    <3> QED BY <1>3, <3>1 DEF RulesNext, RuledNext
  <2>2. CASE t = item[Cur].task
    <3>1. /\ Cur \in Items /\ IsCommand(Cur) /\ seen.state = "read" /\ record' = record /\ todo # <<>>
          /\ memory.task[t].status # "deleted"
      BY <1>4, <2>2, CommandsEffect
    <3>2. /\ place'[Cur] # "unused" /\ item'[Cur] = item[Cur]
          /\ item[Cur].tap \in Nat /\ record[t].tap \in Nat
      BY <2>2, <3>1, ItemsNow
    <3>3. CASE Kind(Cur) = "defer"
      <4>1. /\ memory'.task[t].status # "deleted" /\ memory'.task[t].status # "done"
            /\ memory.task[t].status # "done" /\ memory'.task[t].start = item[Cur].tap
        BY <1>4, <2>2, <3>3, CommandsEffect
      <4>2. record[t].tap <= item[Cur].tap
        BY <1>1, <1>4, <2>2, <3>1, <3>2 DEF Skip
      <4> QED BY <2>2, <3>1, <3>2, <3>3, <4>1, <4>2 DEF RulesNext, RuledNext, Kind
    <3>4. CASE Kind(Cur) # "defer"
      <4>1. memory'.task[t].status = "done"
        BY <1>4, <2>2, <3>4, CommandsEffect
      <4>2. item'[Cur].kind \in {"widget", "watch"} /\ item'[Cur].task = t
        BY <2>2, <3>1, <3>2, <3>4 DEF IsCommand, Commands, Kind
      <4> QED BY <3>1, <3>2, <4>1, <4>2 DEF RulesNext, RuledNext
    <3> QED BY <3>3, <3>4
  <2> QED BY <2>1, <2>2
<1>5. ASSUME NEW t \in Tasks
      PROVE  /\ RulesNext(memory', t) /\ RulesNext(disk', t)
             /\ disk'.task[t].status = "done" => memory'.task[t].status = "done"
  <2>1. ASSUME memory'.task = memory.task PROVE RulesNext(memory', t)
    BY <1>3, <2>1 DEF RulesNext, RuledNext
  <2>2. CASE memory' = disk /\ disk' = disk
    BY <1>3, <2>2
  <2>3. CASE memory' = memory /\ disk' = disk
    BY <1>1, <1>3, <2>3
  <2>4. CASE memory' = memory /\ disk' = memory
    BY <1>3, <2>4
  <2>5. CASE disk' = disk /\ ApplyCommand /\ memory' = Effect(Cur) /\ ~Skip(Cur) /\ ~NothingToDo(Cur)
    <3>1. /\ RulesNext(memory', t)
          /\ memory.task[t].status = "done" => memory'.task[t].status = "done"
      BY <1>4, <2>5
    <3> QED BY <1>1, <1>3, <2>5, <3>1
  <2>6. CASE disk' = disk /\ memory'.task = memory.task
    BY <1>1, <1>3, <2>1, <2>6
  <2> QED BY <2>2, <2>3, <2>4, <2>5, <2>6, TasksMove
<1>6. CommandsRule(memory)' /\ CommandsRule(disk)'
  BY <1>5 DEF CommandsRule, RulesNext, RuledNext, Ruled, Used, Kind
<1>7. seen'.state = "read" => seen'.of = record'
  <2>1. CASE record' = record /\ seen' = seen
    BY <1>1, <2>1
  <2>2. CASE seen' = NotRead \/ seen' = [NotRead EXCEPT !.state = "failed"]
    BY <2>2 DEF NotRead
  <2>3. CASE record' = record /\ seen' = [state |-> "read", of |-> record]
    BY <2>3
  <2>4. CASE Remember
    BY <1>0, <2>4, Remembering DEF Fault, CapturesBase
  <2> QED BY <2>1, <2>2, <2>3, <2>4, RecordMoves
<1> QED BY <1>5, <1>6, <1>7 DEF StoreRules

(* What has overtaken a command goes on to do so. *)
LEMMA StaysOvertaken ==
    ASSUME CapturesBase, StoreRules, [Next]_vars, NEW i \in Items, place[i] # "unused", Overtaken(i)
    PROVE  Overtaken(i)'
<1>1. item'[i] = item[i] /\ item[i].task \in Tasks /\ item[i].tap \in Nat
  BY ItemsNow
<1>2. disk.task[item[i].task].status = "done" => disk'.task[item[i].task].status = "done"
  BY <1>1, StoreKept DEF StoreRules
<1>3. /\ record[item[i].task].tap \in Nat /\ record'[item[i].task].tap \in Nat
      /\ record[item[i].task].tap <= record'[item[i].task].tap
  BY <1>1, ItemsNow
<1>4. item[i].tap <= record[item[i].task].tap => item'[i].tap <= record'[item'[i].task].tap
  BY <1>1, <1>3
<1> QED BY <1>1, <1>2, <1>4 DEF Overtaken, Kind

LEMMA StepHeadRules ==
    ASSUME CapturesBase, StoreRules, HeadRules, [Next]_vars, "recordWrite" \notin use.faulty,
           ~\E t \in Tasks : EditTask(t), ~\E i \in Items : DeleteMade(i)
    PROVE  HeadRules'
<1>0. Typed /\ WorksThroughQueue /\ HeadProgresses /\ RecordsProve
  BY DEF CapturesBase
<1>1. ASSUME pc' \in {"idle", "item", "addTask", "deleteAudio"} PROVE HeadRules'
  BY <1>1 DEF HeadRules
<1>2. CASE Outside /\ pc \in {"save", "remember", "delete"}
  <2>1. UNCHANGED <<todo, pc, outcome, seen, record>> /\ todo # <<>> /\ Cur' = Cur
    BY <1>0, <1>2, OutsideKeepsDrain DEF WorksThroughQueue, Cur
  <2>2. Cur \in Items /\ place[Cur] # "unused" /\ item'[Cur] = item[Cur]
    BY <2>1, ItemsNow
  <2>3. memory' = memory /\ (disk' = disk \/ disk' = memory)
    BY <1>2, HostMovesAlone DEF Outside, Tap, Deliver, Save, vars
  <2>4. /\ HasRuled(memory, Cur) => HasRuled(memory, Cur)'
        /\ HasRuled(memory, Cur) /\ HasRuled(disk, Cur) => HasRuled(disk, Cur)'
    BY <2>1, <2>2, <2>3 DEF HasRuled, Kind
  <2>5. Overtaken(Cur) => Overtaken(Cur)'
    <3>1. PICK i \in Items : i = Cur
      BY <2>2
    <3>2. Overtaken(i) => Overtaken(i)'
      BY <2>2, <3>1, StaysOvertaken
    <3> QED BY <2>1, <3>1, <3>2 DEF Overtaken, Kind
  <2>6. (IsCommand(Cur)' <=> IsCommand(Cur)) /\ Kind(Cur)' = Kind(Cur)
    BY <2>1, <2>2 DEF IsCommand, Kind
  <2>7. pc = "remember" => outcome = "applied"
    BY <1>0 DEF HeadProgresses
  <2> QED BY <2>1, <2>2, <2>3, <2>4, <2>5, <2>6, <2>7 DEF HeadRules
<1>3. CASE ApplyCommand /\ pc' = "save"
  <2>1. /\ todo # <<>> /\ IsCommand(Cur) /\ UNCHANGED <<item, todo>> /\ Cur' = Cur
    BY <1>3 DEF ApplyCommand, WriteRefused, Unfinished, NextItem, Finish, Cur
  <2>2. Cur \in Items /\ item[Cur].task \in Tasks
    BY <2>1, ItemsNow
  <2>3. \/ outcome' = "skipped"
        \/ outcome' = "void" /\ NothingToDo(Cur) /\ memory' = memory
        \/ outcome' = "applied" /\ memory' = Effect(Cur) /\ ~NothingToDo(Cur)
    BY <1>3 DEF ApplyCommand, WriteRefused, Unfinished, NextItem, Finish
  <2>4. CASE outcome' = "skipped"
    BY <1>3, <2>4 DEF HeadRules
  <2>5. CASE outcome' = "void" /\ NothingToDo(Cur) /\ memory' = memory
    <3>1. Kind(Cur) = "defer" /\ memory.task[item[Cur].task].status = "done"
      BY <2>2, <2>5 DEF NothingToDo, StoreRules, CommandsRule
    <3> QED BY <1>3, <2>1, <2>5, <3>1 DEF HeadRules, Kind
  <2>6. CASE outcome' = "applied" /\ memory' = Effect(Cur) /\ ~NothingToDo(Cur)
    <3>1. HasRuled(memory', Cur)
      BY <1>3, <2>6, CommandsEffect DEF HasRuled
    <3>2. HasRuled(memory, Cur)'
      BY <2>1, <3>1 DEF HasRuled, Kind
    <3> QED BY <1>3, <2>6, <3>2 DEF HeadRules
  <2> QED BY <2>3, <2>4, <2>5, <2>6
<1>4. CASE (Assemble \/ AddTask) /\ pc' = "save"
  <2>1. outcome' = ""
    BY <1>0, <1>4 DEF Assemble, AddTask, WriteRefused, Unfinished, NextItem, Finish, HeadProgresses
  <2> QED BY <1>4, <2>1 DEF HeadRules
<1>5. CASE FlushPendingSave /\ pc' # "item"
  <2>1. /\ pc = "save" /\ todo # <<>> /\ UNCHANGED <<todo, item, seen, outcome, memory, record>> /\ Cur' = Cur
        /\ disk' = memory /\ pc' = AfterSave
    BY <1>0, <1>5 DEF FlushPendingSave, Unfinished, NextItem, Elsewhere, Cur, WorksThroughQueue
  <2>2. Cur \in Items /\ item[Cur].task \in Tasks /\ item[Cur].tap \in Nat
    BY <2>1, ItemsNow
  <2>3. CASE outcome = "applied"
    <3>1. HasRuled(memory, Cur)
      BY <2>1, <2>3 DEF HeadRules
    <3>2. HasRuled(memory, Cur)' /\ HasRuled(disk, Cur)' /\ pc' = "remember"
      BY <2>1, <2>3, <3>1 DEF HasRuled, Kind, AfterSave
    <3> QED BY <3>2 DEF HeadRules
  <2>4. CASE outcome # "applied"
    <3>1. pc' = "delete"
      BY <2>1, <2>4 DEF AfterSave
    <3>2. ASSUME IsCommand(Cur) PROVE Overtaken(Cur)'
      <4>1. seen.state = "read" /\ outcome # "" /\ ~IsCapture(Cur) /\ Taken(memory, Cur)
        BY <1>0, <2>1, <2>2, <3>2, KindsDiffer DEF HeadProgresses
      <4>2. CASE outcome = "void"
        BY <2>1, <4>2 DEF HeadRules, Overtaken, Kind
      <4>3. CASE outcome = "skipped"
        <5>1. Skip(Cur) /\ seen.of = record
          BY <2>4, <4>1, <4>3 DEF Taken, StoreRules
        <5>2. item[Cur].tap <= record[item[Cur].task].tap
          <6> DEFINE last == record[item[Cur].task]
          <6>1. last.id = Cur \/ item[Cur].tap < last.tap
            BY <5>1 DEF Skip
          <6>2. last.tap \in Nat /\ Cur # 0
            BY <2>2, ItemsNow, CapturesConstants
          <6>3. last = None \/ item[last.id].tap = last.tap
            BY <1>0, <2>2 DEF RecordsProve, Proves
          <6>4. CASE last.id = Cur
            BY <2>2, <6>2, <6>3, <6>4 DEF None
          <6>5. CASE item[Cur].tap < last.tap
            BY <2>2, <6>2, <6>5
          <6> QED BY <6>1, <6>4, <6>5
        <5> QED BY <2>1, <5>2 DEF Overtaken
      <4>4. outcome \in {"", "applied", "skipped", "void"}
        BY <1>0 DEF Typed, DrainTyped
      <4> QED BY <2>4, <4>1, <4>2, <4>3, <4>4
    <3>3. IsCommand(Cur)' <=> IsCommand(Cur)
      BY <2>1 DEF IsCommand, Kind
    <3> QED BY <3>1, <3>2, <3>3 DEF HeadRules
  <2> QED BY <2>3, <2>4
<1>6. CASE Remember
  <2>1. /\ pc = "remember" /\ pc' = "delete" /\ todo # <<>> /\ Cur' = Cur /\ UNCHANGED <<todo, item>>
    BY <1>0, <1>6 DEF Remember, Elsewhere, Cur, WorksThroughQueue
  <2>2. Cur \in Items /\ item[Cur].tap \in Nat
    BY <2>1, ItemsNow
  <2>3. seen'.of[item[Cur].task].tap = item[Cur].tap /\ record' = seen'.of
    BY <1>0, <1>6, Remembering DEF Fault
  <2>4. item'[Cur'].tap <= record'[item'[Cur'].task].tap
    BY <2>1, <2>2, <2>3
  <2>5. Overtaken(Cur)'
    BY <2>4 DEF Overtaken
  <2> QED BY <2>1, <2>5 DEF HeadRules
<1>7. Outside \/ Crash => pc' \in {"idle", "item", "addTask", "deleteAudio"} \/ (Outside /\ pc \in {"save", "remember", "delete"})
  <2>1. Outside => pc' = pc
    BY OutsideKeepsDrain
  <2>2. Crash => pc' = "idle"
    BY DEF Crash
  <2> QED BY <1>0, <2>1, <2>2 DEF Typed, DrainTyped
<1>8. StartDrain \/ EndDrain \/ ReadRecord \/ NoRecord \/ Discard \/ Delete \/ DeleteAudio
         => pc' \in {"idle", "item", "addTask", "deleteAudio"}
  BY DEF StartDrain, EndDrain, Finish, ReadRecord, NoRecord, Unfinished, NextItem, Discard, Delete, DeleteAudio
<1>9. /\ ApplyCommand \/ AddTask \/ Assemble => pc' \in {"idle", "item", "addTask", "save"}
      /\ FlushPendingSave => pc' = "item" \/ pc' # "item"
  BY DEF ApplyCommand, AddTask, Assemble, WriteRefused, Unfinished, NextItem, Finish
<1> QED
  BY <1>1, <1>2, <1>3, <1>4, <1>5, <1>6, <1>7, <1>8, <1>9, Zenon DEF Next, Step, Drain, HostMoves, Outside

(* The file of a command goes when it has been overtaken. *)
LEMMA StepTakenRule ==
    ASSUME CapturesBase, StoreRules, HeadRules, TakenRule, [Next]_vars
    PROVE  TakenRule'
<1>0. Typed /\ WorksThroughQueue
  BY DEF CapturesBase
<1> SUFFICES ASSUME NEW i \in Items, place'[i] = "gone", item'[i].kind \in Commands
             PROVE  Overtaken(i)'
  BY DEF TakenRule, IsCommand, Kind
<1>1. \/ place[i] = "gone"
      \/ i = Cur /\ (Discard \/ Delete) /\ todo # <<>> /\ place[Cur] = "queued"
  BY <1>0, PlacesAdvance
<1>2. place[i] # "unused" /\ item'[i] = item[i] /\ IsCommand(i)
  <2>1. place[i] # "unused"
    BY <1>1
  <2> QED BY <2>1, ItemsNow DEF IsCommand, Kind
<1>3. Overtaken(i)
  <2>1. CASE place[i] = "gone"
    BY <1>2, <2>1 DEF TakenRule
  <2>2. CASE i = Cur /\ Delete
    BY <1>2, <2>2 DEF HeadRules, Delete
  <2>3. CASE i = Cur /\ Discard
    BY <1>2, <2>3 DEF Discard, IsCommand, Commands
  <2> QED BY <1>1, <2>1, <2>2, <2>3
<1> QED BY <1>2, <1>3, StaysOvertaken

LEMMA StepNewestRule ==
    ASSUME CapturesBase, NewestRule, [Next]_vars
    PROVE  NewestRule'
<1> SUFFICES ASSUME Undisturbed' PROVE (StoreRules /\ HeadRules /\ TakenRule)'
  BY DEF NewestRule
<1>1. /\ Undisturbed /\ "recordWrite" \notin use.faulty
      /\ ~\E t \in Tasks : EditTask(t)
      /\ ~\E i \in Items : DeleteMade(i)
  BY UndisturbedBefore DEF CapturesBase
<1>2. StoreRules /\ HeadRules /\ TakenRule
  BY <1>1 DEF NewestRule
<1> QED BY <1>1, <1>2, StepStoreRules, StepHeadRules, StepTakenRule

LEMMA NewestInit == Init => NewestRule
<1> SUFFICES ASSUME Init PROVE NewestRule
  OBVIOUS
<1>1. /\ \A t \in Tasks : memory.task[t] = [status |-> "next", start |-> 0]
      /\ \A t \in Tasks : disk.task[t] = [status |-> "next", start |-> 0]
      /\ \A t \in Tasks : record[t] = None
      /\ seen.state = "unread" /\ pc = "idle"
      /\ \A i \in Items : place[i] = "unused"
  BY DEF Init, EmptyStore, NotRead
<1>2. CommandsRule(memory) /\ CommandsRule(disk)
  BY <1>1 DEF CommandsRule
<1> QED BY <1>1, <1>2 DEF NewestRule, StoreRules, HeadRules, TakenRule

LEMMA EditsInit == Init => EditsFindSettled
<1> SUFFICES ASSUME Init PROVE EditsFindSettled
  OBVIOUS
<1>1. memory.applied = {} /\ memory.overruled = {} /\ pc = "idle" /\ ~entry
  BY DEF Init, EmptyStore
<1> QED BY <1>1 DEF EditsFindSettled

(* The newest command on a task has had its way once all of them are taken:  *)
(* what has overtaken it can only be itself, or a task that is done.         *)
LEMMA RulesMakeNewestWin ==
    ASSUME CapturesBase, NewestRule
    PROVE  NewestWins
<1>0. Typed /\ TapsDiffer /\ DiskFollows /\ RecordsProve
  BY DEF CapturesBase
<1> SUFFICES ASSUME NEW t \in Tasks, Undisturbed,
                    \A i \in Items : place[i] # "unused" /\ IsCommand(i) /\ item[i].task = t => place[i] = "gone",
                    NEW i \in Items, place[i] # "unused", IsCommand(i), item[i].task = t,
                    \A j \in Items : place[j] # "unused" /\ IsCommand(j) /\ item[j].task = t
                                        => item[j].tap <= item[i].tap
             PROVE  \/ /\ memory.task[t].status = "done"
                       /\ \E j \in Items : place[j] # "unused" /\ IsCommand(j) /\ item[j].task = t /\ Kind(j) # "defer"
                    \/ Kind(i) = "defer" /\ memory.task[t].start = item[i].tap
  BY DEF NewestWins, Undisturbed
<1>1. StoreRules /\ Overtaken(i)
  BY DEF NewestRule, TakenRule
<1>2. memory.task[t].status = "done" =>
         \E j \in Items : place[j] # "unused" /\ IsCommand(j) /\ item[j].task = t /\ Kind(j) # "defer"
  BY <1>1 DEF StoreRules, CommandsRule, Used, IsCommand, Commands
<1>3. CASE disk.task[t].status = "done"
  BY <1>1, <1>2, <1>3 DEF StoreRules
<1>4. CASE item[i].tap <= record[t].tap
  <2>1. item[i].tap \in Nat /\ item[i].tap > 0 /\ \A j \in Items : item[j].tap \in Nat
    BY <1>0 DEF TapsDiffer, Used, Typed, FilesTyped
  <2>2. record[t] # None
    BY <1>4, <2>1 DEF None
  <2>3. CASE memory.task[t].status = "done"
    BY <1>2, <2>3
  <2>4. CASE memory.task[t].status # "done"
    <3>1. PICK j \in Items : /\ place[j] # "unused" /\ Kind(j) = "defer" /\ item[j].task = t
                             /\ memory.task[t].start = item[j].tap /\ record[t].tap <= item[j].tap
      BY <1>1, <2>2, <2>4 DEF StoreRules, CommandsRule, Ruled, Used
    <3>2. record[t].tap \in Nat
      <4>1. record \in Record
        BY <1>0 DEF Typed, StoresTyped
      <4> QED BY <4>1 DEF Record
    <3>3. item[j].tap <= item[i].tap
      BY <3>1 DEF IsCommand, Commands
    <3>4. item[j].tap = item[i].tap
      BY <1>4, <2>1, <3>1, <3>2, <3>3
    <3>5. j = i
      BY <1>0, <3>1, <3>4 DEF TapsDiffer, Used
    <3> QED BY <3>1, <3>5
  <2> QED BY <2>3, <2>4
<1> QED BY <1>1, <1>3, <1>4 DEF Overtaken

(* What the drain works with is what CapturesBase says it is. *)
LEMMA BaseIsTypeOK == CapturesBase => TypeOK
<1> SUFFICES ASSUME CapturesBase PROVE TypeOK
  OBVIOUS
<1>0. Typed /\ TapsDiffer /\ WorksThroughQueue /\ DiskFollows
  BY DEF CapturesBase
<1>1. \A i \in Items : item[i].kind \in AllKinds /\ item[i].task \in Tasks /\ item[i].tap \in 0..clock
  <2>1. \A i \in Items : item[i].kind \in AllKinds /\ item[i].task \in Tasks /\ item[i].tap \in Nat
    BY <1>0 DEF Typed, FilesTyped
  <2>2. clock \in Nat /\ \A i \in Items : item[i].tap <= clock
    BY <1>0 DEF Typed, CountersTyped, TapsDiffer
  <2> QED BY <2>1, <2>2
<1>2. ASSUME NEW s, s \in Store, StoreOf(s)
      PROVE  /\ \A t \in Tasks : s.task[t].status \in {"next", "done", "deleted"} /\ s.task[t].start \in 0..clock
             /\ s.made \in [Items -> {"none", "live", "deleted"}]
             /\ s.project \in [Items -> {"none", "live", "deleted"}]
             /\ s.overruled \subseteq s.applied /\ s.applied \subseteq Items
  <2>1. /\ s.made \in [Items -> {"none", "live", "deleted"}]
        /\ s.project \in [Items -> {"none", "live", "deleted"}] /\ s.applied \subseteq Items
    BY <1>2 DEF Store
  <2>2. \A t \in Tasks : s.task[t].status \in {"next", "done", "deleted"} /\ s.task[t].start \in Nat
    BY <1>2 DEF Store
  <2>3. clock \in Nat /\ s.overruled \subseteq s.applied /\ \A t \in Tasks : s.task[t].start <= clock
    BY <1>0, <1>2 DEF StoreOf, Typed, CountersTyped
  <2> QED BY <2>1, <2>2, <2>3
<1>3. memory \in Store /\ disk \in Store /\ StoreOf(memory) /\ StoreOf(disk) /\ void \subseteq Items
  BY <1>0 DEF Typed, StoresTyped, DiskFollows
<1>4. /\ place \in [Items -> {"unused", "sent", "queued", "gone"}]
      /\ pc \in {"idle", "item", "addTask", "save", "remember", "delete", "deleteAudio"}
      /\ pc \notin {"idle", "item"} => todo # <<>>
      /\ outcome \in {"", "applied", "skipped", "void"} /\ seen.state \in {"unread", "read", "failed"}
      /\ recorded \in BOOLEAN /\ replay \in BOOLEAN /\ entry \in BOOLEAN
      /\ unfinished \subseteq {"owed", "queued"} /\ missed \subseteq Items /\ asked \subseteq Tasks
      /\ host \in {"booting", "open", "failed", "owing"}
  BY <1>0 DEF Typed, FilesTyped, DrainTyped, HostTyped, WorksThroughQueue
<1>5. faults <= use.faults /\ crashes <= use.crashes /\ edits <= use.edits
  <2>1. use.faults \in Nat /\ use.crashes \in Nat /\ use.edits \in Nat
    BY <1>0, CapturesConstants DEF Typed, CountersTyped, IsUse
  <2> QED BY <1>0, <2>1 DEF Typed, CountersTyped
<1> QED BY <1>1, <1>2, <1>3, <1>4, <1>5 DEF TypeOK

(* drainPendingCaptureQueue, for any number of files, failed calls and        *)
(* deaths of the process: a capture or command whose file is gone is saved,   *)
(* taken commands leave a task as the newest of them says (unless the user    *)
(* has edited it, or a record could not be written), and no recording goes    *)
(* before its file.                                                           *)
THEOREM CapturesCorrect == Spec => []CapturesInv
<1> DEFINE Inv == CapturesBase /\ NewestRule
<1>1. Init => Inv
  BY BaseInit, NewestInit
<1>2. Inv /\ [Next]_vars => Inv'
  BY BaseStep, StepNewestRule
<1>3. Inv => CapturesInv
  BY BaseIsTypeOK, RulesMakeNewestWin DEF CapturesInv, CapturesBase
<1> QED BY <1>1, <1>2, <1>3, PTL DEF Spec

(* A step that writes the store for the item at the head: its command has    *)
(* not had its effect and been overruled, nor has its capture been stored.   *)
LEMMA StepReplaysNothing ==
    ASSUME CapturesBase, EditsFindSettled, [Next]_vars,
           NEW i \in memory.applied, i \in memory.overruled \/ Kind(i) \in {"capture", "audio"},
           DrainWrites(i)
    PROVE  FALSE
<1>0. Typed /\ WorksThroughQueue /\ DiskFollows /\ RecordsProve /\ HeadProgresses
  BY DEF CapturesBase
<1>1. /\ i = Cur /\ todo # <<>> /\ pc \in {"item", "addTask"} /\ pc' \in {"addTask", "save"} /\ pc' # pc
      /\ memory' # memory
  BY DEF DrainWrites
<1>2. Cur \in Items /\ place[Cur] # "unused"
  BY <1>1, ItemsNow
<1>3. CASE ApplyCommand
  <2>1. /\ pc = "item" /\ IsCommand(Cur) /\ seen.state = "read" /\ ~Skip(Cur)
    BY <1>1, <1>3 DEF ApplyCommand, WriteRefused, Unfinished, NextItem, Finish
  <2>2. Cur \in memory.overruled
    BY <1>1, <1>2, <2>1 DEF IsCommand, Commands, Kind
  <2>3. EditsWait /\ Settled(Cur)
    BY <2>2 DEF EditsFindSettled
  <2>4. place[Cur] = "queued"
    <3>1. Cur = todo[1] /\ 1 \in 1..Len(todo)
      BY <1>0, <1>1, HeadAndRest
    <3> QED BY <1>0, <2>1, <3>1 DEF WorksThroughQueue
  <2> DEFINE t == item[Cur].task
  <2>5. t \in Tasks /\ item[Cur].tap \in Nat /\ record[t].tap \in Nat
    BY <1>2, ItemsNow
  <2>6. item[Cur].tap <= record[t].tap /\ record[t].tap <= seen.of[t].tap
    BY <1>0, <2>1, <2>3, <2>4, <2>5 DEF Settled, RecordsProve
  <2>7. seen.of[t].tap \in Nat
    <3>1. seen.of \in Record
      BY <1>0 DEF Typed, DrainTyped
    <3> QED BY <2>5, <3>1 DEF Record
  <2>8. seen.of[t].id # Cur /\ ~(item[Cur].tap < seen.of[t].tap)
    BY <2>1 DEF Skip
  <2>9. item[Cur].tap = seen.of[t].tap
    BY <2>5, <2>6, <2>7, <2>8
  <2>10. item[Cur].tap > 0
    BY <1>0, <1>2 DEF CapturesBase, TapsDiffer, Used
  <2>11. seen.of[t] # None
    BY <2>9, <2>10 DEF None
  <2>12. seen.of[t].id \in disk.applied /\ item[seen.of[t].id].tap = seen.of[t].tap
    BY <1>0, <2>5, <2>11 DEF RecordsProve, Proves
  <2>13. seen.of[t].id \in Items /\ place[seen.of[t].id] # "unused"
    <3>1. disk.applied \subseteq Items
      BY <1>0 DEF Typed, StoresTyped, Store
    <3> QED BY <1>0, <2>12, <3>1 DEF DiskFollows, StoreOf
  <2>14. seen.of[t].id = Cur
    BY <1>2, <2>9, <2>12, <2>13 DEF CapturesBase, TapsDiffer, Used
  <2> QED BY <2>8, <2>14
<1>4. CASE Assemble
  <2>1. pc = "item" /\ IsCapture(Cur) /\ ~Stored(Cur)
    BY <1>1, <1>4 DEF Assemble
  <2>2. Kind(Cur) \in {"capture", "audio"}
    <3>1. ~IsCommand(Cur)
      BY <1>0, <1>2, <2>1, KindsDiffer
    <3> QED BY <1>1, <3>1 DEF EditsFindSettled
  <2>3. memory.made[Cur] # "none"
    BY <1>0, <1>1, <2>1 DEF DiskFollows, StoreOf
  <2> QED BY <2>1, <2>2, <2>3 DEF Stored, HasUuid
<1>5. CASE AddTask
  <2>1. pc = "addTask"
    BY <1>5 DEF AddTask
  <2>2. IsCapture(Cur) /\ (HasUuid(Cur) => memory.made[Cur] = "none")
    BY <1>0, <2>1 DEF HeadProgresses
  <2>3. Kind(Cur) \in {"capture", "audio"}
    <3>1. ~IsCommand(Cur)
      BY <1>0, <1>2, <2>2, KindsDiffer
    <3> QED BY <1>1, <3>1 DEF EditsFindSettled
  <2>4. memory.made[Cur] # "none"
    BY <1>0, <1>1, <2>2 DEF DiskFollows, StoreOf
  <2> QED BY <2>2, <2>3, <2>4 DEF HasUuid
<1>6. ApplyCommand \/ Assemble \/ AddTask
  <2>1. Crash => pc' = "idle"
    BY DEF Crash
  <2>2. ASSUME \/ \E t \in Tasks : EditTask(t)
               \/ \E j \in Items : DeleteMade(j)
        PROVE  pc' = pc
    BY <2>2 DEF EditTask, DeleteMade
  <2> QED BY <1>1, <2>1, <2>2, StoreKept
<1> QED BY <1>3, <1>4, <1>5, <1>6

(* The host may fail a drain, put that on record and clear it again while an  *)
(* edit waits for the engine: the edits that it lets go on with no failed     *)
(* drain on record still find every command settled but those that the latest *)
(* drain has passed over, so no drain undoes them; and no replay stores a     *)
(* capture twice, whatever the user has deleted in the meantime.              *)
THEOREM ReplaysWriteNothing == Spec => ReplayWritesNothing
<1> DEFINE Inv == CapturesBase /\ EditsFindSettled
           Kept == \A i \in memory.applied :
                      i \in memory.overruled \/ Kind(i) \in {"capture", "audio"} => ~DrainWrites(i)
<1>1. Init => Inv
  BY BaseInit, EditsInit
<1>2. Inv /\ [Next]_vars => Inv'
  <2>1. CapturesBase' => Typed'
    BY DEF CapturesBase
  <2> QED BY <2>1, BaseStep, StepEditsFindSettled
<1>3. Inv /\ [Next]_vars => [Kept]_vars
  BY StepReplaysNothing
<1> QED BY <1>1, <1>2, <1>3, PTL DEF Spec, ReplayWritesNothing

==============================================================================
