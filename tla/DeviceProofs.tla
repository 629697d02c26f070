---------------------------- MODULE DeviceProofs ----------------------------
(***************************************************************************)
(* What a device promises by itself: the storage of the React Native app   *)
(* keeps what it has acknowledged, and the controller, on the desktop and  *)
(* with the triggers of the mobile applications, leaves a backend alone    *)
(* for as long as it asks for.                                             *)
(***************************************************************************)
EXTENDS MobileTriggers, MobileStorage, FiniteSetTheorems, TLAPS

-----------------------------------------------------------------------------
(* THE STORAGE, for any rows, settings, kinds of devices, edits and crashes.  *)

USE FaultsAssumption

(* The edits made so far bound what any copy holds. *)
Known == [Cells -> 0..edits]

KnownJob == [kind : {"data", "task"}, cell : Cells \cup {NoDoc}, version : 0..edits,
             data : Known, refused : BOOLEAN,
             step : {"queued", "sqlite", "clear", "mark", "flush"}]

StoreTyped ==
    /\ edits \in 0..MaxEdits
    /\ mem \in Known \cup {NoDoc}
    /\ retained \in [version : 0..edits, data : Known]
    /\ queue \in Seq(KnownJob)
    /\ fetch \in [data : Known, canonical : BOOLEAN, there : BOOLEAN]
    /\ read \in Known \cup {NoDoc}

DisksTyped ==
    /\ sql \in Known /\ json \in Known /\ acked \in Known
    /\ crashes \in 0..MaxCrashes

ModesTyped ==
    /\ marker \in BOOLEAN /\ ahead \in BOOLEAN /\ prefer \in BOOLEAN /\ reload \in BOOLEAN
    /\ conn \in {"none", "recovering", "ready", "quarantined", "failed"}

WriterTyped ==
    /\ fresh \in BOOLEAN
    /\ pending \in Known \cup {NoDoc}
    /\ chain \in Seq({"save", "other"})
    /\ writing \in [data : Known, fresh : BOOLEAN, by : {"nobody", "save", "other"}]
    /\ writing.by = "nobody" => writing = NoWrite

TypedInv == StoreTyped /\ DisksTyped /\ ModesTyped /\ WriterTyped

(* A load is in hand only while the store has nothing to save.                *)
StoreShape ==
    /\ fetch.there \/ mem = NoDoc => queue = <<>> /\ retained = NoSnapshot
    /\ fetch.canonical => fetch.there /\ reload /\ conn = "ready" /\ ~prefer
    /\ read # NoDoc => conn = "ready"

QueueShape ==
    \A k \in 1..Len(queue) :
        /\ k > 1 => queue[k].step = "queued"
        /\ queue[k].kind = "task" => /\ queue[k].cell \in Rows
                                     /\ queue[k].version = queue[k].data[queue[k].cell]
        /\ queue[k].refused => reload

(* At most one call of the writer is that of a save, the save that flushes.   *)
NoSave(calls) == \A i \in 1..Len(calls) : calls[i] # "save"
OneSave(calls) ==
    \A i, j \in 1..Len(calls) : calls[i] = "save" /\ calls[j] = "save" => i = j

Calls ==
    /\ OneSave(chain)
    /\ writing.by = "save" \/ ~Running("flush") => NoSave(chain)
    /\ writing.by = "save" => Running("flush")

(* Where a save may be while SQLite is open, closed or in quarantine.         *)
Course ==
    /\ Running("clear") => conn = "ready"
    /\ Running("mark") \/ Running("flush") => conn \in {"ready", "failed"}
    /\ Running("clear") \/ Running("mark") \/ Running("flush") => ~reload
    /\ conn = "failed" => ~reload /\ faults \cap {"open", "recoveryWrite"} # {}
    /\ conn = "quarantined" => reload /\ ahead
    /\ reload /\ conn # "ready" => "launchRead" \in faults

(* d is not later than e in any of the cells.                                 *)
Below(cells, d, e) == \A c \in cells : d[c] <= e[c]

Ordered ==
    ~reload =>
        /\ \A i, j \in 1..Len(queue) : i <= j => Below(Cells, queue[i].data, queue[j].data)
        /\ \A i \in 1..Len(queue) : Below(Cells, queue[i].data, mem)
        /\ retained # NoSnapshot => retained.data = mem

(* The marker and its mirror. *)
Modes ==
    /\ conn = "ready" /\ marker => ahead
    /\ ahead /\ ~reload => marker
    /\ conn = "ready" /\ reload => ~ahead
    /\ Running("flush") => ahead
    /\ conn = "recovering" => marker /\ ahead

(* The backup of a save that flushes is on its way, or is there.              *)
InFlush ==
    Running("flush") =>
        IF pending # NoDoc THEN pending = Head(queue).data
        ELSE IF writing # NoWrite THEN writing.data = Head(queue).data /\ writing.fresh
        ELSE json = Head(queue).data /\ fresh

BackupComes ==
    /\ fresh /\ writing # NoWrite => writing.fresh
    /\ conn = "ready" /\ ahead /\ (queue = <<>> \/ Running("queued"))
          => fresh \/ pending # NoDoc \/ (writing # NoWrite /\ writing.fresh)

(* Together with SQLite a document has whatever has been acknowledged.        *)
Covers(d) == Below(SafeCells, acked, Merged(sql, d))

Durable ==
    /\ ~marker \/ conn = "recovering" => Below(SafeCells, acked, sql)
    /\ Running("clear") => /\ Below(SafeCells, acked, sql)
                           /\ Below(SafeCells, Head(queue).data, sql)

BackupCovers ==
    /\ Covers(json)
    /\ pending # NoDoc => Covers(pending)
    /\ writing # NoWrite => Covers(writing.data)

StoreCovers ==
    /\ ~reload => /\ mem # NoDoc => Covers(mem)
                  /\ \A k \in 1..Len(queue) : Covers(queue[k].data)
    /\ fetch.there /\ (reload => fetch.canonical) => Covers(fetch.data)

(* By itself, too, where SQLite can be read.                                  *)
HasAll(d) == Below(Cells, acked, d)

StoreHasAll ==
    conn = "ready" =>
        /\ ~reload => /\ mem # NoDoc => HasAll(mem)
                      /\ \A k \in 1..Len(queue) : HasAll(queue[k].data)
        /\ fetch.there /\ (reload => fetch.canonical) => HasAll(fetch.data)

BackupHasAll ==
    conn = "ready" /\ ~reload /\ (prefer \/ ahead) /\ ~Running("mark") =>
        IF pending # NoDoc THEN HasAll(pending)
        ELSE IF writing # NoWrite THEN writing.fresh => HasAll(writing.data)
        ELSE fresh => HasAll(json)

NothingYet ==
    /\ conn = "failed" => marker
    /\ conn # "ready" /\ ~reload /\ ~marker => mem = NoDoc /\ ~fetch.there /\ ~prefer

BackupInv ==
    /\ Ordered /\ Modes /\ InFlush /\ BackupComes
    /\ Durable /\ BackupCovers /\ StoreCovers
    /\ SqliteReadable => StoreHasAll /\ BackupHasAll /\ NothingYet

StorageIInv ==
    /\ TypedInv /\ StoreShape /\ QueueShape /\ Calls
    /\ OpensInOrder => Course
    /\ BackupHolds => BackupInv

-----------------------------------------------------------------------------
(* Documents *)

LEMMA CellsAndNoDoc ==
    ASSUME NEW n \in Nat
    PROVE  /\ NoDoc \notin [Cells -> 0..n]
           /\ Empty \in [Cells -> 0..n]
           /\ Rows \subseteq Cells
  <1>1. [Cells -> 0..n] \subseteq [Cells -> Nat]
    OBVIOUS
  <1> QED BY <1>1 DEF Cells, Empty

LEMMA BelowItself ==
    ASSUME NEW n \in Nat, NEW cells \in SUBSET Cells, NEW d \in [Cells -> 0..n]
    PROVE  Below(cells, d, d) /\ Below(cells, Empty, d)
  BY DEF Below, Empty

LEMMA BelowTransitive ==
    ASSUME NEW n \in Nat, NEW cells \in SUBSET Cells, NEW d \in [Cells -> 0..n],
           NEW e \in [Cells -> 0..n], NEW f \in [Cells -> 0..n],
           Below(cells, d, e), Below(cells, e, f)
    PROVE  Below(cells, d, f)
  BY DEF Below

LEMMA BelowFewer ==
    ASSUME NEW cells \in SUBSET Cells, NEW d, NEW e, Below(Cells, d, e)
    PROVE  Below(cells, d, e)
  BY DEF Below

LEMMA MergedBounds ==
    ASSUME NEW n \in Nat, NEW cells \in SUBSET Cells,
           NEW d \in [Cells -> 0..n], NEW e \in [Cells -> 0..n]
    PROVE  /\ Merged(d, e) \in [Cells -> 0..n]
           /\ Below(cells, d, Merged(d, e))
           /\ Below(cells, e, Merged(d, e))
           /\ \A f \in [Cells -> 0..n] :
                 Below(cells, d, f) /\ Below(cells, e, f) => Below(cells, Merged(d, e), f)
  BY DEF Below, Merged, Later

-----------------------------------------------------------------------------
(* The queue and the writer's chain *)

LEMMA Appended ==
    ASSUME NEW S, NEW q \in Seq(S), NEW x \in S
    PROVE  /\ Append(q, x) \in Seq(S) /\ Append(q, x) # <<>>
           /\ Len(Append(q, x)) = Len(q) + 1 /\ Len(q) \in Nat
           /\ Append(q, x)[Len(q) + 1] = x
           /\ \A k \in 1..Len(q) : Append(q, x)[k] = q[k]
           /\ Head(Append(q, x)) = IF q = <<>> THEN x ELSE Head(q)
  OBVIOUS

LEMMA Removed ==
    ASSUME NEW S, NEW q \in Seq(S), q # <<>>
    PROVE  /\ Tail(q) \in Seq(S) /\ Len(q) \in Nat
           /\ Len(q) >= 1 /\ Len(Tail(q)) = Len(q) - 1
           /\ Head(q) = q[1] /\ Head(q) \in S
           /\ \A k \in 1..Len(Tail(q)) : Tail(q)[k] = q[k + 1]
           /\ Tail(q) # <<>> => Len(q) >= 2 /\ Head(Tail(q)) = q[2]
  OBVIOUS

(* The chain as a call is appended to it or taken from it. *)
LEMMA CallsOnChain ==
    ASSUME NEW calls \in Seq({"save", "other"})
    PROVE  /\ NoSave(calls) => OneSave(calls)
           /\ NoSave(calls) => /\ NoSave(Append(calls, "other"))
                               /\ OneSave(Append(calls, "save"))
           /\ OneSave(calls) => OneSave(Append(calls, "other"))
           /\ calls # <<>> =>
                 /\ Head(calls) \in {"save", "other"}
                 /\ Tail(calls) \in Seq({"save", "other"})
                 /\ NoSave(calls) => NoSave(Tail(calls)) /\ Head(calls) # "save"
                 /\ OneSave(calls) => OneSave(Tail(calls))
                 /\ OneSave(calls) /\ Head(calls) = "save" => NoSave(Tail(calls))
           /\ NoSave(<<>>)
  BY DEF NoSave, OneSave

-----------------------------------------------------------------------------
(* The running save takes its next step. *)
LEMMA OnItsWay ==
    ASSUME TypedInv, queue # <<>>,
           NEW step \in {"queued", "sqlite", "clear", "mark", "flush"}, GoTo(step)
    PROVE  /\ queue' \in Seq(KnownJob)
           /\ Len(queue') = Len(queue) /\ queue' # <<>>
           /\ Head(queue').step = step /\ Head(queue').data = Head(queue).data
           /\ \A k \in 1..Len(queue) :
                 /\ k > 1 => queue'[k] = queue[k]
                 /\ queue'[k].kind = queue[k].kind /\ queue'[k].cell = queue[k].cell
                 /\ queue'[k].version = queue[k].version /\ queue'[k].data = queue[k].data
                 /\ queue'[k].refused = queue[k].refused
<1>1. queue \in Seq(KnownJob) /\ queue[1] \in KnownJob /\ 1 \in DOMAIN queue
  BY DEF TypedInv, StoreTyped
<1> DEFINE job == [queue[1] EXCEPT !.step = step]
<1>2. /\ job \in KnownJob /\ job.step = step /\ job.data = queue[1].data
      /\ job.kind = queue[1].kind /\ job.cell = queue[1].cell
      /\ job.version = queue[1].version /\ job.refused = queue[1].refused
  BY <1>1 DEF KnownJob
<1>3. queue' = [queue EXCEPT ![1] = job]
  BY DEF GoTo
<1> HIDE DEF job
<1>4. /\ queue' \in Seq(KnownJob) /\ Len(queue') = Len(queue) /\ queue' # <<>>
      /\ queue'[1] = job /\ Head(queue') = job
      /\ \A k \in 1..Len(queue) : k > 1 => queue'[k] = queue[k]
  BY <1>1, <1>2, <1>3
<1>5. Head(queue) = queue[1] /\ Len(queue) \in Nat
  BY <1>1
<1> QED BY <1>2, <1>4, <1>5

-----------------------------------------------------------------------------
(* A device stays what it is, and most steps are not edits. *)
LEMMA SameDevice ==
    ASSUME UNCHANGED faults
    PROVE  /\ OpensInOrder' <=> OpensInOrder
           /\ BackupHolds' <=> BackupHolds
           /\ SqliteReadable' <=> SqliteReadable
           /\ SafeCells' = SafeCells
  BY DEF OpensInOrder, BackupHolds, SqliteReadable, SafeCells

LEMMA SafeCellsAreCells ==
    /\ SafeCells \subseteq Cells
    /\ SqliteReadable => SafeCells = Cells
  BY DEF SafeCells, Cells

LEMMA SameEdits ==
    ASSUME UNCHANGED edits
    PROVE  Known' = Known /\ KnownJob' = KnownJob
  BY DEF Known, KnownJob

(* The running save. *)
LEMMA HeadOfQueue ==
    ASSUME TypedInv, queue # <<>>
    PROVE  /\ Head(queue) = queue[1] /\ 1 \in 1..Len(queue) /\ Len(queue) \in Nat
           /\ Head(queue).data \in Known /\ Head(queue).version \in 0..edits
           /\ Head(queue).kind \in {"data", "task"} /\ Head(queue).refused \in BOOLEAN
           /\ \A k \in 1..Len(queue) : queue[k].data \in Known
<1>1. queue \in Seq(KnownJob)
  BY DEF TypedInv, StoreTyped
<1>2. /\ Head(queue) = queue[1] /\ 1 \in 1..Len(queue) /\ Len(queue) \in Nat
      /\ \A k \in 1..Len(queue) : queue[k] \in KnownJob
  BY <1>1
<1> QED BY <1>2 DEF KnownJob

(* Once it has ended the next one has not started. *)
LEMMA Ended ==
    ASSUME TypedInv, QueueShape, queue # <<>>, queue' = Tail(queue), UNCHANGED <<edits, reload>>
    PROVE  /\ queue' \in Seq(KnownJob) /\ QueueShape'
           /\ Len(queue') \in Nat
           /\ \A k \in 1..Len(queue') :
                 k + 1 \in 1..Len(queue) /\ 1 <= k + 1 /\ queue'[k] = queue[k + 1]
           /\ \A step \in {"sqlite", "clear", "mark", "flush"} :
                 ~(queue' # <<>> /\ Head(queue').step = step)
<1>1. queue \in Seq(KnownJob)
  BY DEF TypedInv, StoreTyped
<1>2. /\ queue' \in Seq(KnownJob) /\ Len(queue') \in Nat /\ Len(queue) \in Nat
      /\ Len(queue') = Len(queue) - 1
      /\ \A k \in 1..Len(queue') :
            k + 1 \in 1..Len(queue) /\ 1 <= k + 1 /\ queue'[k] = queue[k + 1]
      /\ queue' # <<>> => Len(queue) >= 2 /\ Head(queue') = queue[2]
  BY <1>1, Removed
<1>3. QueueShape'
  BY <1>2 DEF QueueShape
<1>4. queue' # <<>> => Head(queue').step = "queued"
  <2>1. ASSUME queue' # <<>> PROVE 2 \in 1..Len(queue) /\ 2 > 1
    BY <1>2, <2>1
  <2> QED BY <1>2, <2>1 DEF QueueShape
<1> QED BY <1>2, <1>3, <1>4

(* An acknowledgement adds no more than what the save holds. *)
LEMMA Acknowledged ==
    ASSUME TypedInv, QueueShape, queue # <<>>, Acknowledge, UNCHANGED edits
    PROVE  /\ acked' \in Known
           /\ \A cells \in SUBSET Cells : \A f \in Known :
                 Below(cells, acked, f) /\ Below(cells, Head(queue).data, f)
                    => Below(cells, acked', f)
<1> DEFINE job == Head(queue)
<1>1. /\ job = queue[1] /\ 1 \in 1..Len(queue) /\ job.data \in Known /\ edits \in Nat
      /\ job.version \in 0..edits /\ job.kind \in {"data", "task"} /\ acked \in Known
  BY HeadOfQueue DEF TypedInv, StoreTyped, DisksTyped
<1>2. CASE job.kind = "data"
  <2>1. acked' = Merged(acked, job.data)
    BY <1>2 DEF Acknowledge
  <2> QED BY <1>1, <2>1, MergedBounds DEF Known
<1>3. CASE job.kind = "task"
  <2>1. job.cell \in Cells /\ job.version = job.data[job.cell]
    BY <1>1, <1>3 DEF QueueShape, Cells
  <2>2. acked' = [acked EXCEPT ![job.cell] = Later(@, job.data[job.cell])]
    BY <1>3, <2>1 DEF Acknowledge
  <2> HIDE DEF job
  <2>3. job.data \in [Cells -> 0..edits] /\ acked \in [Cells -> 0..edits]
    BY <1>1 DEF Known
  <2>4. acked' \in Known
    BY <1>1, <2>1, <2>2, <2>3 DEF Later, Known
  <2>5. ASSUME NEW cells \in SUBSET Cells, NEW f \in Known,
               Below(cells, acked, f), Below(cells, job.data, f)
        PROVE  Below(cells, acked', f)
    BY <2>1, <2>2, <2>3, <2>5 DEF Below, Later
  <2> QED BY <2>4, <2>5 DEF job
<1> QED BY <1>1, <1>2, <1>3

(* A rejected save leaves the later snapshot waiting. *)
LEMMA Rejected ==
    ASSUME TypedInv, StoreShape, queue # <<>>, Reject
    PROVE  retained' \in [version : 0..edits, data : Known] /\ ~fetch.there /\ mem # NoDoc
<1>1. /\ Head(queue).data \in Known /\ Head(queue).version \in 0..edits
      /\ retained \in [version : 0..edits, data : Known]
  BY HeadOfQueue DEF TypedInv, StoreTyped
<1> QED BY <1>1 DEF Reject, StoreShape

(* The order of documents, for those known. *)
LEMMA Documents ==
    ASSUME edits \in Nat, NEW cells \in SUBSET Cells
    PROVE  /\ \A d, e \in Known : Merged(d, e) \in Known
           /\ \A d \in Known : Below(cells, d, d)
           /\ \A d, e, f \in Known :
                  Below(cells, d, e) /\ Below(cells, e, f) => Below(cells, d, f)
           /\ \A d, s, e \in Known :
                 Below(cells, d, s) \/ Below(cells, d, e) => Below(cells, d, Merged(s, e))
  BY BelowItself, BelowTransitive, MergedBounds DEF Known

LEMMA Loads ==
    ASSUME NEW data \in Known, NEW canonical \in BOOLEAN, Loaded(data, canonical)
    PROVE  /\ fetch' \in [data : Known, canonical : BOOLEAN, there : BOOLEAN]
           /\ fetch'.there /\ fetch'.data = data /\ fetch'.canonical = canonical
  BY DEF Loaded

LEMMA NothingKnown ==
    ASSUME edits \in Nat
    PROVE  /\ NoDoc \notin Known
           /\ NoRead \in [data : Known, canonical : BOOLEAN, there : BOOLEAN]
           /\ NoSnapshot \in [version : 0..edits, data : Known]
           /\ NoWrite \in [data : Known, fresh : BOOLEAN, by : {"nobody", "save", "other"}]
  BY CellsAndNoDoc DEF Known, NoRead, NoSnapshot, NoWrite

(* The row that SQLite takes is all that is acknowledged with it. *)
LEMMA RowStored ==
    ASSUME TypedInv, QueueShape, CommitRow, NEW cells \in SUBSET Cells
    PROVE  /\ sql' \in Known /\ acked' \in Known
           /\ Below(cells, acked, sql) => Below(cells, acked', sql')
           /\ \A d \in Known :
                 Below(cells, acked, Merged(sql, d)) => Below(cells, acked', Merged(sql', d))
<1> DEFINE job == Head(queue)
<1>1. /\ queue # <<>> /\ job = queue[1] /\ 1 \in 1..Len(queue) /\ job.kind = "task"
      /\ job.data \in Known /\ edits \in Nat /\ acked \in Known /\ sql \in Known
  BY HeadOfQueue DEF TypedInv, StoreTyped, DisksTyped, CommitRow, Running
<1>2. job.cell \in Rows /\ job.version = job.data[job.cell]
  BY <1>1 DEF QueueShape
<1>3. job.cell \in Cells /\ job.cell \notin Settings
  BY <1>2 DEF Cells
<1>4. acked' = [acked EXCEPT ![job.cell] = Later(@, job.data[job.cell])]
  BY <1>1, <1>2 DEF CommitRow, Acknowledge
<1>5. sql' = [c \in Cells |-> IF c = job.cell THEN Later(sql[c], job.data[c]) ELSE sql[c]]
  BY <1>1, <1>3 DEF CommitRow, Stored
<1> HIDE DEF job
<1>6. /\ job.data \in [Cells -> 0..edits] /\ acked \in [Cells -> 0..edits]
      /\ sql \in [Cells -> 0..edits]
  BY <1>1 DEF Known
<1>7. sql' \in Known /\ acked' \in Known
  BY <1>1, <1>3, <1>4, <1>5, <1>6 DEF Later, Known
<1>8. Below(cells, acked, sql) => Below(cells, acked', sql')
  BY <1>1, <1>3, <1>4, <1>5, <1>6 DEF Below, Later
<1>9. ASSUME NEW d \in Known, Below(cells, acked, Merged(sql, d))
      PROVE  Below(cells, acked', Merged(sql', d))
  <2>1. d \in [Cells -> 0..edits]
    BY DEF Known
  <2>2. ASSUME NEW c \in cells PROVE acked'[c] <= Merged(sql', d)[c]
    <3>1. acked[c] <= Later(sql[c], d[c]) /\ c \in Cells
      BY <1>9 DEF Below, Merged
    <3>2. /\ d[c] \in Nat /\ sql[c] \in Nat /\ acked[c] \in Nat /\ job.data[c] \in Nat
          /\ Merged(sql', d)[c] = Later(sql'[c], d[c])
      BY <1>1, <1>6, <2>1, <3>1 DEF Merged
    <3>3. CASE c = job.cell
      <4>1. /\ acked'[c] = Later(acked[c], job.data[c])
            /\ sql'[c] = Later(sql[c], job.data[c])
        BY <1>3, <1>4, <1>5, <1>6, <3>3
      <4> QED BY <3>1, <3>2, <4>1 DEF Later
    <3>4. CASE c # job.cell
      <4>1. acked'[c] = acked[c] /\ sql'[c] = sql[c]
        BY <1>4, <1>5, <1>6, <3>1, <3>4
      <4> QED BY <3>1, <3>2, <4>1
    <3> QED BY <3>3, <3>4
  <2> QED BY <2>2 DEF Below
<1> QED BY <1>7, <1>8, <1>9

(* A snapshot replaces the settings; it has the acknowledged ones.  *)
LEMMA SnapshotStored ==
    ASSUME TypedInv, CommitSnapshot, Covers(Head(queue).data),
           SqliteReadable => HasAll(Head(queue).data)
    PROVE  /\ sql' \in Known
           /\ Below(SafeCells, acked, sql') /\ Below(SafeCells, Head(queue).data, sql')
<1> DEFINE job == Head(queue)
<1>1. /\ queue # <<>> /\ job.kind = "data"
      /\ job.data \in Known /\ edits \in Nat /\ acked \in Known /\ sql \in Known
  BY HeadOfQueue DEF TypedInv, StoreTyped, DisksTyped, CommitSnapshot, Running
<1>2. sql' = [c \in Cells |-> IF c \in Settings THEN job.data[c]
                              ELSE Later(sql[c], job.data[c])]
  BY <1>1 DEF CommitSnapshot, Stored
<1>3. Covers(job.data) /\ (SqliteReadable => HasAll(job.data))
  OBVIOUS
<1> HIDE DEF job
<1>4. /\ job.data \in [Cells -> 0..edits] /\ acked \in [Cells -> 0..edits]
      /\ sql \in [Cells -> 0..edits]
  BY <1>1 DEF Known
<1>5. sql' \in Known
  BY <1>1, <1>2, <1>4 DEF Later, Known
<1>6. Below(Cells, job.data, sql')
  BY <1>1, <1>2, <1>4 DEF Later, Below
<1>7. CASE SqliteReadable
  <2>1. Below(Cells, acked, sql')
    BY <1>1, <1>3, <1>5, <1>6, <1>7, Documents DEF HasAll
  <2> QED BY <1>5, <1>6, <1>7, <2>1, SafeCellsAreCells DEF job
<1>8. CASE ~SqliteReadable
  <2>1. SafeCells = Rows /\ Rows \subseteq Cells
    BY <1>8 DEF SafeCells, Cells
  <2>2. \A c \in Rows : sql'[c] = Merged(sql, job.data)[c]
    BY <1>2, <2>1 DEF Merged
  <2>3. Below(SafeCells, acked, sql')
    BY <1>3, <2>1, <2>2 DEF Covers, Below
  <2> QED BY <1>5, <1>6, <2>1, <2>3, BelowFewer DEF job
<1> QED BY <1>7, <1>8

(* An edit makes the store's document later, in one cell. *)
LEMMA EditGrows ==
    ASSUME TypedInv, NEW c \in Cells, EditCell(c)
    PROVE  /\ edits \in Nat /\ edits' = edits + 1 /\ edits' \in 0..MaxEdits
           /\ Known \subseteq Known' /\ KnownJob \subseteq KnownJob'
           /\ NoDoc \notin Known' /\ mem \in Known /\ mem' \in Known' /\ mem'[c] = edits'
           /\ \A cells \in SUBSET Cells : \A d \in Known :
                 /\ Below(cells, d, mem) => Below(cells, d, mem')
                 /\ Below(cells, d, Merged(sql, mem)) => Below(cells, d, Merged(sql, mem'))
           /\ Below(Cells, mem', mem')
<1>1. /\ edits \in Nat /\ MaxEdits \in Nat /\ edits < MaxEdits /\ edits' = edits + 1
      /\ mem \in Known /\ sql \in Known
  BY DEF TypedInv, StoreTyped, DisksTyped, EditCell
<1>2. edits' \in 0..MaxEdits /\ edits' \in Nat /\ 0..edits \subseteq 0..edits'
  BY <1>1
<1>3. Known \subseteq Known'
  BY <1>2 DEF Known
<1>4. KnownJob \subseteq KnownJob'
  BY <1>2, <1>3 DEF KnownJob
<1>5. NoDoc \notin Known'
  BY <1>2, CellsAndNoDoc DEF Known
<1>6. mem' = [mem EXCEPT ![c] = edits + 1]
  BY DEF EditCell, Edited
<1>7. mem \in [Cells -> 0..edits] /\ sql \in [Cells -> 0..edits]
  BY <1>1 DEF Known
<1>8. mem' \in [Cells -> 0..edits'] /\ mem'[c] = edits'
  BY <1>1, <1>2, <1>6, <1>7
<1>9. \A x \in Cells : mem[x] <= mem'[x]
  BY <1>1, <1>6, <1>7
<1>10. ASSUME NEW cells \in SUBSET Cells, NEW d \in Known
       PROVE  /\ Below(cells, d, mem) => Below(cells, d, mem')
              /\ Below(cells, d, Merged(sql, mem)) => Below(cells, d, Merged(sql, mem'))
  <2>1. d \in [Cells -> 0..edits]
    BY DEF Known
  <2>2. Below(cells, d, mem) => Below(cells, d, mem')
    BY <1>1, <1>2, <1>7, <1>8, <1>9, <2>1 DEF Below
  <2>3. ASSUME Below(cells, d, Merged(sql, mem)), NEW x \in cells
        PROVE  d[x] <= Merged(sql, mem')[x]
    <3>1. d[x] <= Later(sql[x], mem[x]) /\ mem[x] <= mem'[x] /\ x \in Cells
      BY <1>9, <2>3 DEF Below, Merged
    <3> QED BY <1>1, <1>2, <1>7, <1>8, <2>1, <3>1 DEF Later, Merged
  <2> QED BY <2>2, <2>3 DEF Below
<1>11. Below(Cells, mem', mem')
  BY <1>2, <1>8 DEF Below
<1> QED BY <1>1, <1>2, <1>3, <1>4, <1>5, <1>8, <1>10, <1>11 DEF Known

LEMMA TypesGrow ==
    ASSUME TypedInv, NEW c \in Cells, EditCell(c)
    PROVE  /\ Seq(KnownJob) \subseteq Seq(KnownJob')
           /\ [version : 0..edits, data : Known] \subseteq [version : 0..edits, data : Known]'
           /\ [data : Known, fresh : BOOLEAN, by : {"nobody", "save", "other"}]
                 \subseteq [data : Known, fresh : BOOLEAN, by : {"nobody", "save", "other"}]'
<1>1. Known \subseteq Known' /\ KnownJob \subseteq KnownJob' /\ 0..edits \subseteq 0..edits'
  BY EditGrows
<1>2. Seq(KnownJob) \subseteq Seq(KnownJob')
  BY <1>1
<1> QED BY <1>1, <1>2

-----------------------------------------------------------------------------
(* Each step of the storage keeps StorageIInv: <1>1 to <1>5 for any device,   *)
(* <1>6 and <1>7 under what is assumed of it.                                 *)

LEMMA EditRowStep ==
    ASSUME StorageIInv, NEW r \in Rows, EditRow(r), UNCHANGED faults
    PROVE  StorageIInv'
<1>a. /\ edits \in Nat /\ edits' = edits + 1 /\ edits' \in 0..MaxEdits
      /\ Known \subseteq Known' /\ KnownJob \subseteq KnownJob'
      /\ NoDoc \notin Known' /\ mem \in Known /\ mem' \in Known'
  <2>1. EditCell(r) /\ r \in Cells
    BY DEF EditRow, Cells
  <2> QED BY <2>1, EditGrows DEF StorageIInv
<1>b. TypedInv /\ StoreShape /\ QueueShape /\ Calls /\ (OpensInOrder => Course)
  BY DEF StorageIInv
<1>c. SafeCells' = SafeCells /\ (SqliteReadable' <=> SqliteReadable)
  BY SameDevice
<1>d. EditCell(r) /\ r \in Cells
  BY DEF EditRow, Cells
<1>e. /\ fetch' = NoRead /\ ~fetch'.there /\ ~fetch'.canonical /\ mem # NoDoc
      /\ fetch' \in [data : Known, canonical : BOOLEAN, there : BOOLEAN]'
  <2>1. fetch' = NoRead /\ ~NoRead.there /\ ~NoRead.canonical /\ mem # NoDoc
    BY <1>d DEF EditCell, NoRead
  <2>2. NoRead \in [data : Known, canonical : BOOLEAN, there : BOOLEAN]
    BY <1>a, NothingKnown
  <2> QED BY <1>a, <2>1, <2>2
<1>f. /\ Seq(KnownJob) \subseteq Seq(KnownJob')
      /\ [version : 0..edits, data : Known] \subseteq [version : 0..edits, data : Known]'
      /\ [data : Known, fresh : BOOLEAN, by : {"nobody", "save", "other"}]
            \subseteq [data : Known, fresh : BOOLEAN, by : {"nobody", "save", "other"}]'
  BY <1>b, <1>d, TypesGrow
<1>g. /\ \A cells \in SUBSET Cells : \A d \in Known :
            /\ Below(cells, d, mem) => Below(cells, d, mem')
            /\ Below(cells, d, Merged(sql, mem)) => Below(cells, d, Merged(sql, mem'))
      /\ Below(Cells, mem', mem')
  BY <1>b, <1>d, EditGrows
<1>h. /\ acked \in Known /\ SafeCells \in SUBSET Cells
      /\ queue \in Seq(KnownJob) /\ \A k \in 1..Len(queue) : queue[k].data \in Known
  <2>1. queue \in Seq(KnownJob) /\ acked \in Known
    BY <1>b DEF TypedInv, StoreTyped, DisksTyped
  <2>2. \A k \in 1..Len(queue) : queue[k] \in KnownJob
    BY <2>1
  <2> QED BY <2>1, <2>2, SafeCellsAreCells DEF KnownJob
<1> DEFINE job == NewJob("task", r, edits + 1, Edited(r))
<1>i. /\ job.kind = "task" /\ job.cell = r /\ job.data = mem' /\ job.version = edits'
      /\ job.step = "queued" /\ job.refused = reload
      /\ job \in KnownJob' /\ job.version = job.data[job.cell] /\ job.cell \in Rows
  <2>1. mem' = Edited(r) /\ mem'[r] = edits' /\ r \in Cells /\ reload \in BOOLEAN
    BY <1>b, <1>d, EditGrows DEF EditCell, TypedInv, ModesTyped
  <2>2. job = [kind |-> "task", cell |-> r, version |-> edits', data |-> mem',
               refused |-> reload, step |-> "queued"]
    BY <1>a, <2>1 DEF NewJob
  <2> QED BY <1>a, <2>1, <2>2 DEF KnownJob
<1>j. queue' = Append(queue, job) /\ queue \in Seq(KnownJob')
  BY <1>f, <1>h DEF EditRow
<1> HIDE DEF job
<1>k. /\ queue' \in Seq(KnownJob') /\ queue' # <<>>
      /\ Len(queue') = Len(queue) + 1 /\ Len(queue) \in Nat
      /\ queue'[Len(queue) + 1] = job
      /\ \A k \in 1..Len(queue) : queue'[k] = queue[k]
      /\ Head(queue') = IF queue = <<>> THEN job ELSE Head(queue)
  BY <1>i, <1>j, Appended
<1>1. StoreTyped' /\ ModesTyped'
  BY <1>a, <1>b, <1>e, <1>k
     DEF TypedInv, StoreTyped, ModesTyped, EditRow, diskVars, modeVars
<1>2. DisksTyped' /\ WriterTyped'
  BY <1>a, <1>b
     DEF TypedInv, DisksTyped, WriterTyped, EditRow, diskVars, backupVars, historyVars
<1>3. StoreShape'
  BY <1>a, <1>b, <1>e DEF StoreShape, EditRow, modeVars
<1>4. QueueShape'
  BY <1>b, <1>i, <1>k DEF QueueShape, EditRow, modeVars
<1>5. Calls'
  BY <1>b DEF Calls, Running, EditRow, backupVars
<1>6. ASSUME OpensInOrder PROVE Course'
  BY <1>b, <1>6, <1>i, <1>k DEF Course, Running, EditRow, modeVars
<1>7. ASSUME BackupHolds PROVE BackupInv'
  <2>a. OpensInOrder /\ Course /\ BackupInv
    BY <1>6, <1>7 DEF StorageIInv, BackupHolds
  <2>1. Ordered'
    BY <2>a, <1>g, <1>h, <1>i, <1>k DEF BackupInv, Ordered, EditRow, modeVars
  <2>2. Modes'
    BY <2>a, <1>i, <1>k DEF BackupInv, Modes, Running, EditRow, diskVars, modeVars
  <2>3. InFlush'
    BY <2>a, <1>i, <1>k DEF BackupInv, InFlush, Running, EditRow, diskVars, backupVars
  <2>4. BackupComes'
    BY <2>a DEF BackupInv, BackupComes, Running, EditRow, backupVars, modeVars
  <2>5. Durable'
    BY <1>c, <2>a, <1>i, <1>k
       DEF BackupInv, Durable, Running, EditRow, diskVars, modeVars, historyVars
  <2>6. BackupCovers'
    BY <1>c, <2>a
       DEF BackupInv, BackupCovers, Covers, EditRow, diskVars, backupVars, historyVars
  <2>7. StoreCovers'
    BY <1>c, <2>a, <1>e, <1>g, <1>h, <1>i, <1>k
       DEF BackupInv, StoreCovers, Covers, EditRow, diskVars, modeVars, historyVars
  <2>8. ASSUME SqliteReadable PROVE StoreHasAll' /\ BackupHasAll' /\ NothingYet'
    <3>1. StoreHasAll'
      BY <2>a, <2>8, <1>e, <1>g, <1>h, <1>i, <1>k
         DEF BackupInv, StoreHasAll, HasAll, EditRow, modeVars, historyVars
    <3>2. BackupHasAll'
      BY <2>a, <2>8
         DEF BackupInv, BackupHasAll, HasAll, Running, EditRow, diskVars, backupVars,
             modeVars, historyVars
    <3>3. NothingYet'
      BY <2>a, <2>8, <1>e DEF BackupInv, NothingYet, EditRow, diskVars, modeVars
    <3> QED BY <3>1, <3>2, <3>3
  <2> QED BY <1>c, <2>1, <2>2, <2>3, <2>4, <2>5, <2>6, <2>7, <2>8 DEF BackupInv
<1> QED BY <1>1, <1>2, <1>3, <1>4, <1>5, <1>6, <1>7, SameDevice DEF StorageIInv, TypedInv

LEMMA EditSnapshotStep ==
    ASSUME StorageIInv, NEW c \in Cells, EditSnapshot(c), UNCHANGED faults
    PROVE  StorageIInv'
<1>a. /\ edits \in Nat /\ edits' = edits + 1 /\ edits' \in 0..MaxEdits
      /\ Known \subseteq Known' /\ KnownJob \subseteq KnownJob'
      /\ NoDoc \notin Known' /\ mem \in Known /\ mem' \in Known'
  <2>1. EditCell(c) /\ c \in Cells
    BY DEF EditSnapshot, Cells
  <2> QED BY <2>1, EditGrows DEF StorageIInv
<1>b. TypedInv /\ StoreShape /\ QueueShape /\ Calls /\ (OpensInOrder => Course)
  BY DEF StorageIInv
<1>c. SafeCells' = SafeCells /\ (SqliteReadable' <=> SqliteReadable)
  BY SameDevice
<1>d. EditCell(c) /\ c \in Cells
  BY DEF EditSnapshot, Cells
<1>e. /\ fetch' = NoRead /\ ~fetch'.there /\ ~fetch'.canonical /\ mem # NoDoc
      /\ fetch' \in [data : Known, canonical : BOOLEAN, there : BOOLEAN]'
  <2>1. fetch' = NoRead /\ ~NoRead.there /\ ~NoRead.canonical /\ mem # NoDoc
    BY <1>d DEF EditCell, NoRead
  <2>2. NoRead \in [data : Known, canonical : BOOLEAN, there : BOOLEAN]
    BY <1>a, NothingKnown
  <2> QED BY <1>a, <2>1, <2>2
<1>f. /\ \A cells \in SUBSET Cells : \A d \in Known :
            /\ Below(cells, d, mem) => Below(cells, d, mem')
            /\ Below(cells, d, Merged(sql, mem)) => Below(cells, d, Merged(sql, mem'))
      /\ Below(Cells, mem', mem')
  BY <1>b, <1>d, EditGrows
<1>g. /\ acked \in Known /\ SafeCells \in SUBSET Cells
      /\ queue \in Seq(KnownJob) /\ \A k \in 1..Len(queue) : queue[k].data \in Known
  <2>1. queue \in Seq(KnownJob) /\ acked \in Known
    BY <1>b DEF TypedInv, StoreTyped, DisksTyped
  <2>2. \A k \in 1..Len(queue) : queue[k] \in KnownJob
    BY <2>1
  <2> QED BY <2>1, <2>2, SafeCellsAreCells DEF KnownJob
<1>h. /\ queue' = queue /\ retained' = [version |-> edits', data |-> mem']
      /\ retained' \in [version : 0..edits, data : Known]'
  BY <1>a DEF EditSnapshot, EditCell
<1>1. StoreTyped' /\ ModesTyped'
  BY <1>a, <1>b, <1>e, <1>h
     DEF TypedInv, StoreTyped, ModesTyped, EditSnapshot, diskVars, modeVars
<1>2. DisksTyped' /\ WriterTyped'
  BY <1>a, <1>b
     DEF TypedInv, DisksTyped, WriterTyped, EditSnapshot, diskVars, backupVars, historyVars
<1>3. StoreShape'
  BY <1>a, <1>b, <1>e DEF StoreShape, EditSnapshot, modeVars
<1>4. QueueShape'
  BY <1>b DEF QueueShape, EditSnapshot, modeVars
<1>5. Calls'
  BY <1>b DEF Calls, Running, EditSnapshot, backupVars
<1>6. ASSUME OpensInOrder PROVE Course'
  BY <1>b, <1>6 DEF Course, Running, EditSnapshot, modeVars
<1>7. ASSUME BackupHolds PROVE BackupInv'
  <2>a. OpensInOrder /\ Course /\ BackupInv
    BY <1>6, <1>7 DEF StorageIInv, BackupHolds
  <2>1. Ordered'
    BY <2>a, <1>f, <1>g, <1>h DEF BackupInv, Ordered, EditSnapshot, modeVars
  <2>2. Modes'
    BY <2>a DEF BackupInv, Modes, Running, EditSnapshot, diskVars, modeVars
  <2>3. InFlush'
    BY <2>a DEF BackupInv, InFlush, Running, EditSnapshot, diskVars, backupVars
  <2>4. BackupComes'
    BY <2>a DEF BackupInv, BackupComes, Running, EditSnapshot, backupVars, modeVars
  <2>5. Durable'
    BY <1>c, <2>a
       DEF BackupInv, Durable, Running, EditSnapshot, diskVars, modeVars, historyVars
  <2>6. BackupCovers'
    BY <1>c, <2>a
       DEF BackupInv, BackupCovers, Covers, EditSnapshot, diskVars, backupVars, historyVars
  <2>7. StoreCovers'
    BY <1>c, <2>a, <1>e, <1>f, <1>g
       DEF BackupInv, StoreCovers, Covers, EditSnapshot, diskVars, modeVars, historyVars
  <2>8. ASSUME SqliteReadable PROVE StoreHasAll' /\ BackupHasAll' /\ NothingYet'
    <3>1. StoreHasAll'
      BY <2>a, <2>8, <1>e, <1>f, <1>g
         DEF BackupInv, StoreHasAll, HasAll, EditSnapshot, modeVars, historyVars
    <3>2. BackupHasAll'
      BY <2>a, <2>8
         DEF BackupInv, BackupHasAll, HasAll, Running, EditSnapshot, diskVars, backupVars,
             modeVars, historyVars
    <3>3. NothingYet'
      BY <2>a, <2>8, <1>e DEF BackupInv, NothingYet, EditSnapshot, diskVars, modeVars
    <3> QED BY <3>1, <3>2, <3>3
  <2> QED BY <1>c, <2>1, <2>2, <2>3, <2>4, <2>5, <2>6, <2>7, <2>8 DEF BackupInv
<1> QED BY <1>1, <1>2, <1>3, <1>4, <1>5, <1>6, <1>7, SameDevice DEF StorageIInv, TypedInv

LEMMA PreferenceEndsStep ==
    ASSUME StorageIInv, PreferenceEnds, UNCHANGED faults
    PROVE  StorageIInv'
<1>a. edits' = edits /\ Known' = Known /\ KnownJob' = KnownJob
  BY SameEdits DEF PreferenceEnds, storeVars
<1>b. TypedInv /\ StoreShape /\ QueueShape /\ Calls /\ (OpensInOrder => Course)
  BY DEF StorageIInv
<1>c. SafeCells' = SafeCells /\ (SqliteReadable' <=> SqliteReadable)
  BY SameDevice
<1>1. StoreTyped' /\ ModesTyped'
  BY <1>a, <1>b DEF TypedInv, StoreTyped, ModesTyped, PreferenceEnds, storeVars, diskVars
<1>2. DisksTyped' /\ WriterTyped'
  BY <1>a, <1>b
     DEF TypedInv, DisksTyped, WriterTyped, PreferenceEnds, diskVars, backupVars,
         historyVars
<1>3. StoreShape'
  BY <1>b DEF StoreShape, PreferenceEnds, storeVars
<1>4. QueueShape'
  BY <1>b DEF QueueShape, PreferenceEnds
<1>5. Calls'
  BY <1>b DEF Calls, Running, PreferenceEnds, backupVars
<1>6. ASSUME OpensInOrder PROVE Course'
  BY <1>b, <1>6 DEF Course, Running, PreferenceEnds
<1>7. ASSUME BackupHolds PROVE BackupInv'
  <2>a. OpensInOrder /\ Course /\ BackupInv
    BY <1>6, <1>7 DEF StorageIInv, BackupHolds
  <2>1. Ordered'
    BY <2>a DEF BackupInv, Ordered, PreferenceEnds, storeVars
  <2>2. Modes'
    BY <2>a DEF BackupInv, Modes, Running, PreferenceEnds, diskVars
  <2>3. InFlush'
    BY <2>a DEF BackupInv, InFlush, Running, PreferenceEnds, diskVars, backupVars
  <2>4. BackupComes'
    BY <2>a DEF BackupInv, BackupComes, Running, PreferenceEnds, backupVars
  <2>5. Durable'
    BY <1>c, <2>a DEF BackupInv, Durable, Running, PreferenceEnds, diskVars, historyVars
  <2>6. BackupCovers'
    BY <1>c, <2>a
       DEF BackupInv, BackupCovers, Covers, PreferenceEnds, diskVars, backupVars,
           historyVars
  <2>7. StoreCovers'
    BY <1>c, <2>a
       DEF BackupInv, StoreCovers, Covers, PreferenceEnds, storeVars, diskVars, historyVars
  <2>8. ASSUME SqliteReadable PROVE StoreHasAll' /\ BackupHasAll' /\ NothingYet'
    <3>1. StoreHasAll'
      BY <2>a, <2>8
         DEF BackupInv, StoreHasAll, HasAll, PreferenceEnds, storeVars, historyVars
    <3>2. BackupHasAll'
      BY <2>a, <2>8
         DEF BackupInv, BackupHasAll, HasAll, Running, PreferenceEnds, diskVars, backupVars,
             historyVars
    <3>3. NothingYet'
      BY <2>a, <2>8 DEF BackupInv, NothingYet, PreferenceEnds, diskVars
    <3> QED BY <3>1, <3>2, <3>3
  <2> QED BY <1>c, <2>1, <2>2, <2>3, <2>4, <2>5, <2>6, <2>7, <2>8 DEF BackupInv
<1> QED BY <1>1, <1>2, <1>3, <1>4, <1>5, <1>6, <1>7, SameDevice DEF StorageIInv, TypedInv

LEMMA OpenCleanStep ==
    ASSUME StorageIInv, OpenClean, UNCHANGED faults
    PROVE  StorageIInv'
<1>a. edits' = edits /\ Known' = Known /\ KnownJob' = KnownJob
  BY SameEdits DEF OpenClean, Opening, diskVars, backupVars, historyVars
<1>b. TypedInv /\ StoreShape /\ QueueShape /\ Calls /\ (OpensInOrder => Course)
  BY DEF StorageIInv
<1>c. SafeCells' = SafeCells /\ (SqliteReadable' <=> SqliteReadable)
  BY SameDevice
<1>1. StoreTyped' /\ ModesTyped'
  BY <1>a, <1>b DEF TypedInv, StoreTyped, ModesTyped, OpenClean, Opening, diskVars
<1>2. DisksTyped' /\ WriterTyped'
  BY <1>a, <1>b
     DEF TypedInv, DisksTyped, WriterTyped, OpenClean, Opening, diskVars, backupVars,
         historyVars
<1>3. StoreShape'
  BY <1>b DEF StoreShape, OpenClean, Opening
<1>4. QueueShape'
  BY <1>b DEF QueueShape, OpenClean, Opening
<1>5. Calls'
  BY <1>b DEF Calls, Running, OpenClean, Opening, backupVars
<1>6. ASSUME OpensInOrder PROVE Course'
  BY <1>b, <1>6 DEF Course, Running, OpenClean, Opening
<1>7. ASSUME BackupHolds PROVE BackupInv'
  <2>a. OpensInOrder /\ Course /\ BackupInv
    BY <1>6, <1>7 DEF StorageIInv, BackupHolds
  <2>1. Ordered'
    BY <2>a DEF BackupInv, Ordered, OpenClean, Opening
  <2>2. Modes'
    BY <2>a DEF BackupInv, Modes, Running, Course, OpenClean, Opening, diskVars
  <2>3. InFlush'
    BY <2>a DEF BackupInv, InFlush, Running, Course, OpenClean, Opening
  <2>4. BackupComes'
    BY <2>a DEF BackupInv, BackupComes, OpenClean, Opening, backupVars
  <2>5. Durable'
    BY <1>c, <2>a DEF BackupInv, Durable, Running, OpenClean, Opening, diskVars, historyVars
  <2>6. BackupCovers'
    BY <1>c, <2>a
       DEF BackupInv, BackupCovers, Covers, OpenClean, Opening, diskVars, backupVars,
           historyVars
  <2>7. StoreCovers'
    BY <1>c, <2>a
       DEF BackupInv, StoreCovers, Covers, OpenClean, Opening, diskVars, historyVars
  <2>8. ASSUME SqliteReadable PROVE StoreHasAll' /\ BackupHasAll' /\ NothingYet'
    <3>1. StoreHasAll'
      BY <1>b, <2>a, <2>8
         DEF BackupInv, StoreHasAll, NothingYet, StoreShape, OpenClean, Opening
    <3>2. BackupHasAll'
      BY <2>a, <2>8 DEF BackupInv, BackupHasAll, NothingYet, OpenClean, Opening
    <3>3. NothingYet'
      BY <2>a DEF BackupInv, NothingYet, OpenClean, Opening
    <3> QED BY <3>1, <3>2, <3>3
  <2> QED BY <1>c, <2>1, <2>2, <2>3, <2>4, <2>5, <2>6, <2>7, <2>8 DEF BackupInv
<1> QED BY <1>1, <1>2, <1>3, <1>4, <1>5, <1>6, <1>7, SameDevice DEF StorageIInv, TypedInv

LEMMA RecoverBackupStep ==
    ASSUME StorageIInv, RecoverBackup, UNCHANGED faults
    PROVE  StorageIInv'
<1>a. edits' = edits /\ Known' = Known /\ KnownJob' = KnownJob
  BY SameEdits DEF RecoverBackup, Opening, backupVars, historyVars
<1>b. TypedInv /\ StoreShape /\ QueueShape /\ Calls /\ (OpensInOrder => Course)
  BY DEF StorageIInv
<1>c. SafeCells' = SafeCells /\ (SqliteReadable' <=> SqliteReadable)
  BY SameDevice
<1>d. edits \in Nat /\ sql \in Known /\ json \in Known /\ acked \in Known
  BY <1>b DEF TypedInv, StoreTyped, DisksTyped
<1>e. sql' = Merged(sql, json) /\ sql' \in Known
  BY <1>d, Documents DEF RecoverBackup
<1>1. StoreTyped' /\ ModesTyped'
  BY <1>a, <1>b DEF TypedInv, StoreTyped, ModesTyped, RecoverBackup, Opening
<1>2. DisksTyped' /\ WriterTyped'
  BY <1>a, <1>b, <1>e
     DEF TypedInv, DisksTyped, WriterTyped, RecoverBackup, Opening, backupVars, historyVars
<1>3. StoreShape'
  BY <1>b DEF StoreShape, RecoverBackup, Opening
<1>4. QueueShape'
  BY <1>b DEF QueueShape, RecoverBackup, Opening
<1>5. Calls'
  BY <1>b DEF Calls, Running, RecoverBackup, Opening, backupVars
<1>6. ASSUME OpensInOrder PROVE Course'
  BY <1>b, <1>6 DEF Course, Running, RecoverBackup, Opening
<1>7. ASSUME BackupHolds PROVE BackupInv'
  <2>a. OpensInOrder /\ Course /\ BackupInv
    BY <1>6, <1>7 DEF StorageIInv, BackupHolds
  <2>b. Below(SafeCells, acked, sql')
    BY <1>e, <2>a DEF BackupInv, BackupCovers, Covers
  <2>c. \A d \in Known : Below(SafeCells, acked, Merged(sql', d))
    BY <1>d, <1>e, <2>b, Documents, SafeCellsAreCells
  <2>1. Ordered'
    BY <2>a DEF BackupInv, Ordered, RecoverBackup, Opening
  <2>2. Modes'
    BY <2>a DEF BackupInv, Modes, RecoverBackup, Opening
  <2>3. InFlush'
    BY <2>a DEF BackupInv, InFlush, Running, Course, RecoverBackup, Opening
  <2>4. BackupComes'
    BY <2>a DEF BackupInv, BackupComes, RecoverBackup, Opening, backupVars
  <2>5. Durable'
    BY <1>c, <2>a, <2>b DEF Durable, Running, Course, RecoverBackup, Opening, historyVars
  <2>6. BackupCovers'
    BY <1>b, <1>c, <1>d, <2>c
       DEF BackupCovers, Covers, TypedInv, WriterTyped, RecoverBackup, Opening, backupVars,
           historyVars
  <2>7. StoreCovers'
    BY <1>b, <1>c, <2>c, HeadOfQueue
       DEF StoreCovers, Covers, TypedInv, StoreTyped, RecoverBackup, Opening, historyVars
  <2>8. ASSUME SqliteReadable PROVE StoreHasAll' /\ BackupHasAll' /\ NothingYet'
    <3>1. StoreHasAll'
      BY <2>a DEF BackupInv, StoreHasAll, HasAll, RecoverBackup, Opening
    <3>2. BackupHasAll'
      BY <2>a DEF BackupInv, BackupHasAll, HasAll, RecoverBackup, Opening
    <3>3. NothingYet'
      BY <2>a DEF BackupInv, NothingYet, RecoverBackup, Opening
    <3> QED BY <3>1, <3>2, <3>3
  <2> QED BY <1>c, <2>1, <2>2, <2>3, <2>4, <2>5, <2>6, <2>7, <2>8 DEF BackupInv
<1> QED BY <1>1, <1>2, <1>3, <1>4, <1>5, <1>6, <1>7, SameDevice DEF StorageIInv, TypedInv

LEMMA RecoveryRefusedStep ==
    ASSUME StorageIInv, RecoveryRefused, UNCHANGED faults
    PROVE  StorageIInv'
<1>a. edits' = edits /\ Known' = Known /\ KnownJob' = KnownJob
  BY SameEdits DEF RecoveryRefused, Opening, diskVars, backupVars, historyVars
<1>b. TypedInv /\ StoreShape /\ QueueShape /\ Calls /\ (OpensInOrder => Course)
  BY DEF StorageIInv
<1>c. SafeCells' = SafeCells /\ (SqliteReadable' <=> SqliteReadable)
  BY SameDevice
<1>1. StoreTyped' /\ ModesTyped'
  BY <1>a, <1>b DEF TypedInv, StoreTyped, ModesTyped, RecoveryRefused, Opening, diskVars
<1>2. DisksTyped' /\ WriterTyped'
  BY <1>a, <1>b
     DEF TypedInv, DisksTyped, WriterTyped, RecoveryRefused, Opening, diskVars, backupVars,
         historyVars
<1>3. StoreShape'
  BY <1>b DEF StoreShape, RecoveryRefused, Opening
<1>4. QueueShape'
  BY <1>b DEF QueueShape, RecoveryRefused, Opening
<1>5. Calls'
  BY <1>b DEF Calls, Running, RecoveryRefused, Opening, backupVars
<1>6. ASSUME OpensInOrder PROVE Course'
  BY <1>b, <1>6 DEF Course, Running, OpensInOrder, RecoveryRefused, Opening
<1>7. ASSUME BackupHolds PROVE BackupInv'
  <2>a. OpensInOrder /\ Course /\ BackupInv
    BY <1>6, <1>7 DEF StorageIInv, BackupHolds
  <2>1. Ordered'
    BY <2>a DEF BackupInv, Ordered, RecoveryRefused, Opening
  <2>2. Modes'
    BY <2>a DEF BackupInv, Modes, RecoveryRefused, Opening, diskVars
  <2>3. InFlush'
    BY <2>a DEF BackupInv, InFlush, Running, Course, RecoveryRefused, Opening
  <2>4. BackupComes'
    BY <2>a DEF BackupInv, BackupComes, RecoveryRefused, Opening, backupVars
  <2>5. Durable'
    BY <2>a DEF BackupInv, Durable, Running, Course, RecoveryRefused, Opening, diskVars
  <2>6. BackupCovers'
    BY <1>c, <2>a
       DEF BackupInv, BackupCovers, Covers, RecoveryRefused, Opening, diskVars, backupVars,
           historyVars
  <2>7. StoreCovers'
    BY <1>c, <2>a
       DEF BackupInv, StoreCovers, Covers, RecoveryRefused, Opening, diskVars, historyVars
  <2>8. ASSUME SqliteReadable PROVE StoreHasAll' /\ BackupHasAll' /\ NothingYet'
    <3>1. StoreHasAll'
      BY <2>a DEF BackupInv, StoreHasAll, HasAll, RecoveryRefused, Opening
    <3>2. BackupHasAll'
      BY <2>a DEF BackupInv, BackupHasAll, HasAll, RecoveryRefused, Opening
    <3>3. NothingYet'
      BY <2>a DEF BackupInv, NothingYet, RecoveryRefused, Opening, diskVars
    <3> QED BY <3>1, <3>2, <3>3
  <2> QED BY <1>c, <2>1, <2>2, <2>3, <2>4, <2>5, <2>6, <2>7, <2>8 DEF BackupInv
<1> QED BY <1>1, <1>2, <1>3, <1>4, <1>5, <1>6, <1>7, SameDevice DEF StorageIInv, TypedInv

LEMMA QuarantineStep ==
    ASSUME StorageIInv, Quarantine, UNCHANGED faults
    PROVE  StorageIInv'
<1>a. edits' = edits /\ Known' = Known /\ KnownJob' = KnownJob
  BY SameEdits DEF Quarantine, Opening
<1>b. TypedInv /\ StoreShape /\ QueueShape /\ Calls /\ (OpensInOrder => Course)
  BY DEF StorageIInv
<1>c. SafeCells' = SafeCells /\ (SqliteReadable' <=> SqliteReadable)
  BY SameDevice
<1>1. StoreTyped' /\ ModesTyped'
  BY <1>a, <1>b
     DEF TypedInv, StoreTyped, ModesTyped, Quarantine, Opening, RequireReload, diskVars
<1>2. DisksTyped' /\ WriterTyped'
  BY <1>a, <1>b
     DEF TypedInv, DisksTyped, WriterTyped, Quarantine, Opening, diskVars, backupVars,
         historyVars
<1>3. StoreShape'
  BY <1>b DEF StoreShape, Quarantine, Opening, RequireReload
<1>4. QueueShape'
  BY <1>b DEF QueueShape, Quarantine, Opening, RequireReload
<1>5. Calls'
  BY <1>b DEF Calls, Running, Quarantine, Opening, backupVars
<1>6. ASSUME OpensInOrder PROVE Course'
  BY <1>b, <1>6 DEF Course, Running, Quarantine, Opening, RequireReload
<1>7. ASSUME BackupHolds PROVE BackupInv'
  <2>a. OpensInOrder /\ Course /\ BackupInv
    BY <1>6, <1>7 DEF StorageIInv, BackupHolds
  <2>1. Ordered'
    BY <2>a DEF BackupInv, Ordered, Quarantine, Opening, RequireReload
  <2>2. Modes'
    BY <2>a DEF BackupInv, Modes, Quarantine, Opening, RequireReload
  <2>3. InFlush'
    BY <2>a DEF BackupInv, InFlush, Running, Course, Quarantine, Opening
  <2>4. BackupComes'
    BY <2>a DEF BackupInv, BackupComes, Quarantine, Opening, backupVars
  <2>5. Durable'
    BY <1>c, <2>a
       DEF BackupInv, Durable, Running, Quarantine, Opening, diskVars, historyVars
  <2>6. BackupCovers'
    BY <1>c, <2>a
       DEF BackupInv, BackupCovers, Covers, Quarantine, Opening, diskVars, backupVars,
           historyVars
  <2>7. StoreCovers'
    BY <2>a DEF BackupInv, StoreCovers, Covers, Quarantine, Opening, RequireReload
  <2>8. ASSUME SqliteReadable PROVE StoreHasAll' /\ BackupHasAll' /\ NothingYet'
    <3>1. StoreHasAll'
      BY <2>a DEF BackupInv, StoreHasAll, HasAll, Quarantine, Opening
    <3>2. BackupHasAll'
      BY <2>a DEF BackupInv, BackupHasAll, HasAll, Quarantine, Opening
    <3>3. NothingYet'
      BY <2>a DEF BackupInv, NothingYet, Quarantine, Opening, RequireReload
    <3> QED BY <3>1, <3>2, <3>3
  <2> QED BY <1>c, <2>1, <2>2, <2>3, <2>4, <2>5, <2>6, <2>7, <2>8 DEF BackupInv
<1> QED BY <1>1, <1>2, <1>3, <1>4, <1>5, <1>6, <1>7, SameDevice DEF StorageIInv, TypedInv

LEMMA OpenFailsStep ==
    ASSUME StorageIInv, OpenFails, UNCHANGED faults
    PROVE  StorageIInv'
<1>a. edits' = edits /\ Known' = Known /\ KnownJob' = KnownJob
  BY SameEdits DEF OpenFails, Opening, diskVars, backupVars, historyVars
<1>b. TypedInv /\ StoreShape /\ QueueShape /\ Calls /\ (OpensInOrder => Course)
  BY DEF StorageIInv
<1>c. SafeCells' = SafeCells /\ (SqliteReadable' <=> SqliteReadable)
  BY SameDevice
<1>1. StoreTyped' /\ ModesTyped'
  BY <1>a, <1>b DEF TypedInv, StoreTyped, ModesTyped, OpenFails, Opening, diskVars
<1>2. DisksTyped' /\ WriterTyped'
  BY <1>a, <1>b
     DEF TypedInv, DisksTyped, WriterTyped, OpenFails, Opening, diskVars, backupVars,
         historyVars
<1>3. StoreShape'
  BY <1>b DEF StoreShape, OpenFails, Opening
<1>4. QueueShape'
  BY <1>b DEF QueueShape, OpenFails, Opening
<1>5. Calls'
  BY <1>b DEF Calls, Running, OpenFails, Opening, backupVars
<1>6. ASSUME OpensInOrder PROVE Course'
  BY <1>b, <1>6 DEF Course, Running, OpensInOrder, OpenFails, Opening
<1>7. ASSUME BackupHolds PROVE BackupInv'
  <2>a. OpensInOrder /\ Course /\ BackupInv
    BY <1>6, <1>7 DEF StorageIInv, BackupHolds
  <2>1. Ordered'
    BY <2>a DEF BackupInv, Ordered, OpenFails, Opening
  <2>2. Modes'
    BY <2>a DEF BackupInv, Modes, Running, OpenFails, Opening, diskVars
  <2>3. InFlush'
    BY <2>a DEF BackupInv, InFlush, Running, Course, OpenFails, Opening
  <2>4. BackupComes'
    BY <2>a DEF BackupInv, BackupComes, OpenFails, Opening, backupVars
  <2>5. Durable'
    BY <1>c, <2>a DEF BackupInv, Durable, Running, OpenFails, Opening, diskVars, historyVars
  <2>6. BackupCovers'
    BY <1>c, <2>a
       DEF BackupInv, BackupCovers, Covers, OpenFails, Opening, diskVars, backupVars,
           historyVars
  <2>7. StoreCovers'
    BY <1>c, <2>a
       DEF BackupInv, StoreCovers, Covers, OpenFails, Opening, diskVars, historyVars
  <2>8. ASSUME SqliteReadable PROVE StoreHasAll' /\ BackupHasAll' /\ NothingYet'
    <3>1. StoreHasAll'
      BY <2>a DEF BackupInv, StoreHasAll, HasAll, OpenFails, Opening
    <3>2. BackupHasAll'
      BY <2>a DEF BackupInv, BackupHasAll, HasAll, OpenFails, Opening
    <3>3. NothingYet'
      BY <2>8 DEF SqliteReadable, OpenFails
    <3> QED BY <3>1, <3>2, <3>3
  <2> QED BY <1>c, <2>1, <2>2, <2>3, <2>4, <2>5, <2>6, <2>7, <2>8 DEF BackupInv
<1> QED BY <1>1, <1>2, <1>3, <1>4, <1>5, <1>6, <1>7, SameDevice DEF StorageIInv, TypedInv

LEMMA ReopenStep ==
    ASSUME StorageIInv, Reopen, UNCHANGED faults
    PROVE  StorageIInv'
<1>a. edits' = edits /\ Known' = Known /\ KnownJob' = KnownJob
  BY SameEdits DEF Reopen, storeVars, diskVars, backupVars, historyVars
<1>b. TypedInv /\ StoreShape /\ QueueShape /\ Calls /\ (OpensInOrder => Course)
  BY DEF StorageIInv
<1>c. SafeCells' = SafeCells /\ (SqliteReadable' <=> SqliteReadable)
  BY SameDevice
<1>1. StoreTyped' /\ ModesTyped'
  BY <1>a, <1>b DEF TypedInv, StoreTyped, ModesTyped, Reopen, storeVars, diskVars
<1>2. DisksTyped' /\ WriterTyped'
  BY <1>a, <1>b
     DEF TypedInv, DisksTyped, WriterTyped, Reopen, diskVars, backupVars, historyVars
<1>3. StoreShape'
  BY <1>b DEF StoreShape, Reopen, storeVars
<1>4. QueueShape'
  BY <1>b DEF QueueShape, Reopen
<1>5. Calls'
  BY <1>b DEF Calls, Running, Reopen, backupVars
<1>6. ASSUME OpensInOrder PROVE Course'
  BY <1>b, <1>6 DEF Course, Running, OpensInOrder, Reopen
<1>7. ASSUME BackupHolds PROVE BackupInv'
  <2>a. OpensInOrder /\ Course /\ BackupInv
    BY <1>6, <1>7 DEF StorageIInv, BackupHolds
  <2>1. Ordered'
    BY <2>a DEF BackupInv, Ordered, Reopen, storeVars
  <2>2. Modes'
    BY <2>a DEF BackupInv, Modes, Running, Reopen, diskVars
  <2>3. InFlush'
    BY <2>a DEF BackupInv, InFlush, Running, Reopen, diskVars, backupVars
  <2>4. BackupComes'
    BY <2>a DEF BackupInv, BackupComes, Reopen, backupVars
  <2>5. Durable'
    BY <1>c, <2>a DEF BackupInv, Durable, Running, Reopen, diskVars, historyVars
  <2>6. BackupCovers'
    BY <1>c, <2>a
       DEF BackupInv, BackupCovers, Covers, Reopen, diskVars, backupVars, historyVars
  <2>7. StoreCovers'
    BY <1>c, <2>a
       DEF BackupInv, StoreCovers, Covers, Reopen, storeVars, diskVars, historyVars
  <2>8. ASSUME SqliteReadable PROVE StoreHasAll' /\ BackupHasAll' /\ NothingYet'
    <3>1. StoreHasAll'
      BY <2>a DEF BackupInv, StoreHasAll, HasAll, Reopen
    <3>2. BackupHasAll'
      BY <2>a DEF BackupInv, BackupHasAll, HasAll, Reopen
    <3>3. NothingYet'
      BY <2>a, <2>8 DEF BackupInv, NothingYet, Course, Reopen, diskVars
    <3> QED BY <3>1, <3>2, <3>3
  <2> QED BY <1>c, <2>1, <2>2, <2>3, <2>4, <2>5, <2>6, <2>7, <2>8 DEF BackupInv
<1> QED BY <1>1, <1>2, <1>3, <1>4, <1>5, <1>6, <1>7, SameDevice DEF StorageIInv, TypedInv

LEMMA EndRecoveryStep ==
    ASSUME StorageIInv, EndRecovery, UNCHANGED faults
    PROVE  StorageIInv'
<1>a. edits' = edits /\ Known' = Known /\ KnownJob' = KnownJob
  BY SameEdits DEF EndRecovery, RequireReload, backupVars, historyVars
<1>b. TypedInv /\ StoreShape /\ QueueShape /\ Calls /\ (OpensInOrder => Course)
  BY DEF StorageIInv
<1>c. SafeCells' = SafeCells /\ (SqliteReadable' <=> SqliteReadable)
  BY SameDevice
<1>1. StoreTyped' /\ ModesTyped'
  BY <1>a, <1>b DEF TypedInv, StoreTyped, ModesTyped, EndRecovery, RequireReload
<1>2. DisksTyped' /\ WriterTyped'
  BY <1>a, <1>b DEF TypedInv, DisksTyped, WriterTyped, EndRecovery, backupVars, historyVars
<1>3. StoreShape'
  BY <1>b DEF StoreShape, EndRecovery, RequireReload
<1>4. QueueShape'
  BY <1>b DEF QueueShape, EndRecovery, RequireReload
<1>5. Calls'
  BY <1>b DEF Calls, Running, EndRecovery, backupVars
<1>6. ASSUME OpensInOrder PROVE Course'
  BY <1>b, <1>6 DEF Course, Running, EndRecovery
<1>7. ASSUME BackupHolds PROVE BackupInv'
  <2>a. OpensInOrder /\ Course /\ BackupInv
    BY <1>6, <1>7 DEF StorageIInv, BackupHolds
  <2>1. Ordered'
    BY <2>a DEF BackupInv, Ordered, EndRecovery, RequireReload
  <2>2. Modes'
    BY <2>a DEF BackupInv, Modes, Running, Course, EndRecovery
  <2>3. InFlush'
    BY <2>a DEF BackupInv, InFlush, Running, Course, EndRecovery
  <2>4. BackupComes'
    BY <2>a DEF BackupInv, BackupComes, EndRecovery, backupVars
  <2>5. Durable'
    BY <1>c, <2>a DEF BackupInv, Durable, Running, EndRecovery, historyVars
  <2>6. BackupCovers'
    BY <1>c, <2>a DEF BackupInv, BackupCovers, Covers, EndRecovery, backupVars, historyVars
  <2>7. StoreCovers'
    BY <2>a DEF BackupInv, StoreCovers, Covers, EndRecovery, RequireReload
  <2>8. ASSUME SqliteReadable PROVE StoreHasAll' /\ BackupHasAll' /\ NothingYet'
    <3>1. StoreHasAll'
      BY <2>a DEF BackupInv, StoreHasAll, HasAll, EndRecovery, RequireReload
    <3>2. BackupHasAll'
      BY <2>a DEF BackupInv, BackupHasAll, HasAll, EndRecovery, RequireReload
    <3>3. NothingYet'
      BY <2>a DEF BackupInv, NothingYet, EndRecovery
    <3> QED BY <3>1, <3>2, <3>3
  <2> QED BY <1>c, <2>1, <2>2, <2>3, <2>4, <2>5, <2>6, <2>7, <2>8 DEF BackupInv
<1> QED BY <1>1, <1>2, <1>3, <1>4, <1>5, <1>6, <1>7, SameDevice DEF StorageIInv, TypedInv

LEMMA LoadBackupStep ==
    ASSUME StorageIInv, LoadBackup, UNCHANGED faults
    PROVE  StorageIInv'
<1>a. edits' = edits /\ Known' = Known /\ KnownJob' = KnownJob
  BY SameEdits DEF LoadBackup
<1>b. TypedInv /\ StoreShape /\ QueueShape /\ Calls /\ (OpensInOrder => Course)
  BY DEF StorageIInv
<1>c. SafeCells' = SafeCells /\ (SqliteReadable' <=> SqliteReadable)
  BY SameDevice
<1>d. json \in Known
  BY <1>b DEF TypedInv, DisksTyped
<1>e. /\ fetch' \in [data : Known, canonical : BOOLEAN, there : BOOLEAN]
      /\ fetch'.there /\ fetch'.data = json /\ ~fetch'.canonical
  BY <1>d, Loads DEF LoadBackup
<1>1. StoreTyped' /\ ModesTyped'
  BY <1>a, <1>b, <1>e DEF TypedInv, StoreTyped, ModesTyped, LoadBackup, diskVars, modeVars
<1>2. DisksTyped' /\ WriterTyped'
  BY <1>a, <1>b
     DEF TypedInv, DisksTyped, WriterTyped, LoadBackup, diskVars, backupVars, historyVars
<1>3. StoreShape'
  BY <1>b, <1>e DEF StoreShape, LoadBackup, StoreIdle, modeVars
<1>4. QueueShape'
  BY DEF QueueShape, LoadBackup, StoreIdle
<1>5. Calls'
  BY <1>b DEF Calls, Running, LoadBackup, backupVars
<1>6. ASSUME OpensInOrder PROVE Course'
  BY <1>b, <1>6 DEF Course, Running, LoadBackup, modeVars
<1>7. ASSUME BackupHolds PROVE BackupInv'
  <2>a. OpensInOrder /\ Course /\ BackupInv
    BY <1>6, <1>7 DEF StorageIInv, BackupHolds
  <2>1. Ordered'
    BY <2>a DEF BackupInv, Ordered, LoadBackup, StoreIdle
  <2>2. Modes'
    BY <2>a DEF BackupInv, Modes, Running, LoadBackup, diskVars, modeVars
  <2>3. InFlush'
    BY <2>a DEF BackupInv, InFlush, Running, LoadBackup, StoreIdle
  <2>4. BackupComes'
    BY <2>a DEF BackupInv, BackupComes, LoadBackup, BackupTrusted, backupVars
  <2>5. Durable'
    BY <1>c, <2>a
       DEF BackupInv, Durable, Running, LoadBackup, diskVars, modeVars, historyVars
  <2>6. BackupCovers'
    BY <1>c, <2>a
       DEF BackupInv, BackupCovers, Covers, LoadBackup, diskVars, backupVars, historyVars
  <2>7. StoreCovers'
    BY <1>c, <1>e, <2>a
       DEF BackupInv, StoreCovers, BackupCovers, Covers, LoadBackup, diskVars, modeVars,
           historyVars
  <2>8. ASSUME SqliteReadable PROVE StoreHasAll' /\ BackupHasAll' /\ NothingYet'
    <3>1. StoreHasAll'
      BY <1>e, <2>a, <2>8
         DEF BackupInv, StoreHasAll, BackupHasAll, HasAll, Running, LoadBackup, StoreIdle,
             BackupTrusted, modeVars, historyVars
    <3>2. BackupHasAll'
      BY <2>a, <2>8
         DEF BackupInv, BackupHasAll, HasAll, Running, LoadBackup, diskVars, backupVars,
             modeVars, historyVars
    <3>3. NothingYet'
      BY <2>a, <2>8 DEF BackupInv, NothingYet, Modes, LoadBackup, diskVars, modeVars
    <3> QED BY <3>1, <3>2, <3>3
  <2> QED BY <1>c, <2>1, <2>2, <2>3, <2>4, <2>5, <2>6, <2>7, <2>8 DEF BackupInv
<1> QED BY <1>1, <1>2, <1>3, <1>4, <1>5, <1>6, <1>7, SameDevice DEF StorageIInv, TypedInv

LEMMA LoadSqliteStep ==
    ASSUME StorageIInv, LoadSqlite, UNCHANGED faults
    PROVE  StorageIInv'
<1>a. edits' = edits /\ Known' = Known /\ KnownJob' = KnownJob
  BY SameEdits DEF LoadSqlite, StoreIdle, diskVars, modeVars, historyVars
<1>b. TypedInv /\ StoreShape /\ QueueShape /\ Calls /\ (OpensInOrder => Course)
  BY DEF StorageIInv
<1>c. SafeCells' = SafeCells /\ (SqliteReadable' <=> SqliteReadable)
  BY SameDevice
<1>d. /\ sql \in Known /\ edits \in Nat /\ acked \in Known
      /\ (conn = "ready" /\ reload) \in BOOLEAN
  BY <1>b DEF TypedInv, StoreTyped, DisksTyped
<1>e. /\ fetch' \in [data : Known, canonical : BOOLEAN, there : BOOLEAN]
      /\ fetch'.there /\ fetch'.data = sql /\ (fetch'.canonical <=> conn = "ready" /\ reload)
  BY <1>d, Loads DEF LoadSqlite
<1>1. StoreTyped' /\ ModesTyped'
  BY <1>a, <1>b, <1>e DEF TypedInv, StoreTyped, ModesTyped, LoadSqlite, diskVars, modeVars
<1>2. DisksTyped' /\ WriterTyped'
  BY <1>a, <1>b DEF TypedInv, DisksTyped, WriterTyped, LoadSqlite, diskVars, historyVars
<1>3. StoreShape'
  BY <1>b, <1>e DEF StoreShape, LoadSqlite, StoreIdle, modeVars
<1>4. QueueShape'
  BY DEF QueueShape, LoadSqlite, StoreIdle
<1>5. Calls'
  BY <1>b DEF Calls, Running, LoadSqlite
<1>6. ASSUME OpensInOrder PROVE Course'
  BY <1>b, <1>6 DEF Course, Running, LoadSqlite, modeVars
<1>7. ASSUME BackupHolds PROVE BackupInv'
  <2>a. OpensInOrder /\ Course /\ BackupInv
    BY <1>6, <1>7 DEF StorageIInv, BackupHolds
  <2>b. (conn = "ready" => ~ahead /\ ~marker) /\ (~ahead => conn = "ready")
    <3>1. ahead => conn = "quarantined" \/ (pending = NoDoc /\ writing = NoWrite /\ ~fresh)
      BY <1>7 DEF LoadSqlite, BackupHolds
    <3> QED BY <2>a, <3>1 DEF BackupInv, Modes, BackupComes, Course, StoreIdle, LoadSqlite
  <2>c. conn = "ready" => Below(SafeCells, acked, sql)
    BY <2>a, <2>b DEF BackupInv, Durable
  <2>d. conn = "ready" => Covers(sql)
    BY <1>d, <2>c, Documents, SafeCellsAreCells DEF Covers
  <2>1. Ordered'
    BY <2>a DEF BackupInv, Ordered, LoadSqlite, StoreIdle
  <2>2. Modes'
    BY <2>a DEF BackupInv, Modes, Running, LoadSqlite, diskVars, modeVars
  <2>3. InFlush'
    BY <2>a DEF BackupInv, InFlush, Running, LoadSqlite, StoreIdle
  <2>4. BackupComes'
    BY <2>a DEF BackupInv, BackupComes, LoadSqlite, StoreIdle, modeVars
  <2>5. Durable'
    BY <1>c, <2>a
       DEF BackupInv, Durable, Running, LoadSqlite, diskVars, modeVars, historyVars
  <2>6. BackupCovers'
    BY <1>c, <2>a, <2>b, <2>d
       DEF BackupInv, BackupCovers, Covers, LoadSqlite, diskVars, historyVars
  <2>7. StoreCovers'
    BY <1>c, <1>e, <2>a, <2>d
       DEF BackupInv, StoreCovers, Covers, Course, LoadSqlite, diskVars, modeVars,
           historyVars
  <2>8. ASSUME SqliteReadable PROVE StoreHasAll' /\ BackupHasAll' /\ NothingYet'
    <3>1. StoreHasAll'
      BY <1>e, <2>a, <2>8, <2>c, SafeCellsAreCells
         DEF BackupInv, StoreHasAll, HasAll, LoadSqlite, modeVars, historyVars
    <3>2. BackupHasAll'
      BY <2>a, <2>8
         DEF BackupInv, BackupHasAll, HasAll, Running, LoadSqlite, diskVars, modeVars,
             historyVars
    <3>3. NothingYet'
      BY <2>a DEF BackupInv, NothingYet, Course, LoadSqlite, modeVars
    <3> QED BY <3>1, <3>2, <3>3
  <2> QED BY <1>c, <2>1, <2>2, <2>3, <2>4, <2>5, <2>6, <2>7, <2>8 DEF BackupInv
<1> QED BY <1>1, <1>2, <1>3, <1>4, <1>5, <1>6, <1>7, SameDevice DEF StorageIInv, TypedInv

LEMMA LoadFallbackStep ==
    ASSUME StorageIInv, LoadFallback, UNCHANGED faults
    PROVE  StorageIInv'
<1>a. edits' = edits /\ Known' = Known /\ KnownJob' = KnownJob
  BY SameEdits DEF LoadFallback
<1>b. TypedInv /\ StoreShape /\ QueueShape /\ Calls /\ (OpensInOrder => Course)
  BY DEF StorageIInv
<1>c. SafeCells' = SafeCells /\ (SqliteReadable' <=> SqliteReadable)
  BY SameDevice
<1>d. json \in Known /\ fetch \in [data : Known, canonical : BOOLEAN, there : BOOLEAN]
  BY <1>b DEF TypedInv, DisksTyped, StoreTyped
<1>e. /\ fetch' \in [data : Known, canonical : BOOLEAN, there : BOOLEAN]
      /\ \/ fetch' = fetch
         \/ fetch'.there /\ fetch'.data = json /\ ~fetch'.canonical
  BY <1>d, Loads DEF LoadFallback
<1>1. StoreTyped' /\ ModesTyped'
  BY <1>a, <1>b, <1>e DEF TypedInv, StoreTyped, ModesTyped, LoadFallback, diskVars
<1>2. DisksTyped' /\ WriterTyped'
  BY <1>a, <1>b
     DEF TypedInv, DisksTyped, WriterTyped, LoadFallback, diskVars, backupVars, historyVars
<1>3. StoreShape'
  BY <1>b, <1>e DEF StoreShape, LoadFallback, StoreIdle
<1>4. QueueShape'
  BY <1>b DEF QueueShape, LoadFallback
<1>5. Calls'
  BY <1>b DEF Calls, Running, LoadFallback, backupVars
<1>6. ASSUME OpensInOrder PROVE Course'
  BY <1>b, <1>6 DEF Course, Running, LoadFallback
<1>7. ASSUME BackupHolds PROVE BackupInv'
  <2>a. OpensInOrder /\ Course /\ BackupInv
    BY <1>6, <1>7 DEF StorageIInv, BackupHolds
  <2>b. SqliteReadable => conn = "failed"
    BY DEF SqliteReadable, LoadFallback
  <2>1. Ordered'
    BY <2>a DEF BackupInv, Ordered, LoadFallback
  <2>2. Modes'
    BY <2>a DEF BackupInv, Modes, Running, LoadFallback, diskVars
  <2>3. InFlush'
    BY <2>a DEF BackupInv, InFlush, Running, LoadFallback, StoreIdle
  <2>4. BackupComes'
    BY <2>a DEF BackupInv, BackupComes, LoadFallback, StoreIdle, backupVars
  <2>5. Durable'
    BY <1>c, <2>a DEF BackupInv, Durable, Running, LoadFallback, diskVars, historyVars
  <2>6. BackupCovers'
    BY <1>c, <2>a
       DEF BackupInv, BackupCovers, Covers, LoadFallback, diskVars, backupVars, historyVars
  <2>7. StoreCovers'
    BY <1>c, <1>e, <2>a
       DEF BackupInv, StoreCovers, BackupCovers, Covers, LoadFallback, diskVars, historyVars
  <2>8. ASSUME SqliteReadable PROVE StoreHasAll' /\ BackupHasAll' /\ NothingYet'
    <3>1. StoreHasAll'
      BY <2>8, <2>b DEF StoreHasAll, LoadFallback
    <3>2. BackupHasAll'
      BY <2>8, <2>b DEF BackupHasAll, LoadFallback
    <3>3. NothingYet'
      BY <2>a, <2>8, <2>b DEF BackupInv, NothingYet, LoadFallback, diskVars
    <3> QED BY <3>1, <3>2, <3>3
  <2> QED BY <1>c, <2>1, <2>2, <2>3, <2>4, <2>5, <2>6, <2>7, <2>8 DEF BackupInv
<1> QED BY <1>1, <1>2, <1>3, <1>4, <1>5, <1>6, <1>7, SameDevice DEF StorageIInv, TypedInv

LEMMA ApplyLoadStep ==
    ASSUME StorageIInv, ApplyLoad, UNCHANGED faults
    PROVE  StorageIInv'
<1>a. edits' = edits /\ Known' = Known /\ KnownJob' = KnownJob
  BY SameEdits DEF ApplyLoad, diskVars, backupVars, historyVars
<1>b. TypedInv /\ StoreShape /\ QueueShape /\ Calls /\ (OpensInOrder => Course)
  BY DEF StorageIInv
<1>c. SafeCells' = SafeCells /\ (SqliteReadable' <=> SqliteReadable)
  BY SameDevice
<1>d. /\ fetch \in [data : Known, canonical : BOOLEAN, there : BOOLEAN]
      /\ fetch.there /\ mem' = fetch.data /\ mem' \in Known /\ edits \in Nat
  BY <1>b DEF TypedInv, StoreTyped, ApplyLoad
<1>e. NoDoc \notin Known /\ fetch' = NoRead /\ ~fetch'.there /\ ~fetch'.canonical
      /\ fetch' \in [data : Known, canonical : BOOLEAN, there : BOOLEAN]
  BY <1>a, <1>d, NothingKnown DEF ApplyLoad, NoRead
<1>f. queue = <<>> /\ Len(queue) = 0 /\ retained = NoSnapshot
  BY <1>b, <1>d DEF StoreShape
<1>1. StoreTyped' /\ ModesTyped'
  BY <1>a, <1>b, <1>e DEF TypedInv, StoreTyped, ModesTyped, ApplyLoad, diskVars
<1>2. DisksTyped' /\ WriterTyped'
  BY <1>a, <1>b
     DEF TypedInv, DisksTyped, WriterTyped, ApplyLoad, diskVars, backupVars, historyVars
<1>3. StoreShape'
  BY <1>b, <1>e DEF StoreShape, ApplyLoad
<1>4. QueueShape'
  BY <1>b DEF QueueShape, StoreShape, ApplyLoad
<1>5. Calls'
  BY <1>b DEF Calls, Running, ApplyLoad, backupVars
<1>6. ASSUME OpensInOrder PROVE Course'
  BY <1>b, <1>6 DEF Course, StoreShape, Running, ApplyLoad
<1>7. ASSUME BackupHolds PROVE BackupInv'
  <2>a. OpensInOrder /\ Course /\ BackupInv
    BY <1>6, <1>7 DEF StorageIInv, BackupHolds
  <2>1. Ordered'
    BY <1>b, <2>a DEF BackupInv, Ordered, StoreShape, ApplyLoad
  <2>2. Modes'
    BY <1>b, <2>a DEF BackupInv, Modes, Running, StoreShape, ApplyLoad, diskVars
  <2>3. InFlush'
    BY <2>a DEF BackupInv, InFlush, Running, ApplyLoad, diskVars, backupVars
  <2>4. BackupComes'
    BY <2>a DEF BackupInv, BackupComes, Running, ApplyLoad, backupVars
  <2>5. Durable'
    BY <1>c, <2>a DEF BackupInv, Durable, Running, ApplyLoad, diskVars, historyVars
  <2>6. BackupCovers'
    BY <1>c, <2>a
       DEF BackupInv, BackupCovers, Covers, ApplyLoad, diskVars, backupVars, historyVars
  <2>7. StoreCovers'
    BY <1>c, <1>d, <1>e, <1>f, <2>a
       DEF BackupInv, StoreCovers, Covers, ApplyLoad, diskVars, historyVars
  <2>8. ASSUME SqliteReadable PROVE StoreHasAll' /\ BackupHasAll' /\ NothingYet'
    <3>1. StoreHasAll'
      BY <1>d, <1>e, <1>f, <2>a, <2>8
         DEF BackupInv, StoreHasAll, HasAll, ApplyLoad, historyVars
    <3>2. BackupHasAll'
      BY <1>b, <2>a, <2>8
         DEF BackupInv, BackupHasAll, HasAll, Running, Modes, StoreShape, ApplyLoad,
             diskVars, backupVars, historyVars
    <3>3. NothingYet'
      BY <1>b, <2>a, <2>8 DEF BackupInv, NothingYet, StoreShape, ApplyLoad, diskVars
    <3> QED BY <3>1, <3>2, <3>3
  <2> QED BY <1>c, <2>1, <2>2, <2>3, <2>4, <2>5, <2>6, <2>7, <2>8 DEF BackupInv
<1> QED BY <1>1, <1>2, <1>3, <1>4, <1>5, <1>6, <1>7, SameDevice DEF StorageIInv, TypedInv

LEMMA OtherReadsStep ==
    ASSUME StorageIInv, OtherReads, UNCHANGED faults
    PROVE  StorageIInv'
<1>a. edits' = edits /\ Known' = Known /\ KnownJob' = KnownJob
  BY SameEdits DEF OtherReads, storeVars
<1>b. TypedInv /\ StoreShape /\ QueueShape /\ Calls /\ (OpensInOrder => Course)
  BY DEF StorageIInv
<1>c. SafeCells' = SafeCells /\ (SqliteReadable' <=> SqliteReadable)
  BY SameDevice
<1>1. StoreTyped' /\ ModesTyped'
  <2>1. StoreTyped'
    BY <1>a, <1>b DEF TypedInv, StoreTyped, DisksTyped, OtherReads, storeVars
  <2>2. ModesTyped'
    BY <1>b DEF TypedInv, ModesTyped, OtherReads, diskVars, modeVars
  <2> QED BY <2>1, <2>2
<1>2. DisksTyped' /\ WriterTyped'
  BY <1>a, <1>b
     DEF TypedInv, DisksTyped, WriterTyped, OtherReads, diskVars, backupVars, historyVars
<1>3. StoreShape'
  BY <1>b DEF StoreShape, OtherReads, storeVars, modeVars
<1>4. QueueShape'
  BY DEF QueueShape, OtherReads
<1>5. Calls'
  BY <1>b DEF Calls, Running, OtherReads, backupVars
<1>6. ASSUME OpensInOrder PROVE Course'
  BY DEF Course, Running, OtherReads, modeVars
<1>7. ASSUME BackupHolds PROVE BackupInv'
  <2>a. OpensInOrder /\ Course /\ BackupInv
    BY <1>6, <1>7 DEF StorageIInv, BackupHolds
  <2>1. Ordered'
    BY <2>a DEF BackupInv, Ordered, OtherReads, storeVars, modeVars
  <2>2. Modes'
    BY <2>a DEF BackupInv, Modes, Running, OtherReads, diskVars, modeVars
  <2>3. InFlush'
    BY <2>a DEF BackupInv, InFlush, Running, OtherReads
  <2>4. BackupComes'
    BY <2>a DEF BackupInv, BackupComes, OtherReads, backupVars, modeVars
  <2>5. Durable'
    BY <1>c, <2>a DEF BackupInv, Durable, Running, Modes, OtherReads, diskVars, historyVars
  <2>6. BackupCovers'
    BY <1>c, <2>a
       DEF BackupInv, BackupCovers, Covers, OtherReads, diskVars, backupVars, historyVars
  <2>7. StoreCovers'
    BY <1>c, <2>a
       DEF BackupInv, StoreCovers, Covers, OtherReads, storeVars, diskVars, modeVars,
           historyVars
  <2>8. ASSUME SqliteReadable PROVE StoreHasAll' /\ BackupHasAll' /\ NothingYet'
    <3>1. StoreHasAll'
      BY <2>a, <2>8
         DEF BackupInv, StoreHasAll, HasAll, OtherReads, storeVars, modeVars, historyVars
    <3>2. BackupHasAll'
      BY <2>a DEF BackupInv, BackupHasAll, HasAll, OtherReads, modeVars
    <3>3. NothingYet'
      BY <2>a DEF BackupInv, NothingYet, OtherReads, modeVars
    <3> QED BY <3>1, <3>2, <3>3
  <2> QED BY <1>c, <2>1, <2>2, <2>3, <2>4, <2>5, <2>6, <2>7, <2>8 DEF BackupInv
<1> QED BY <1>1, <1>2, <1>3, <1>4, <1>5, <1>6, <1>7, SameDevice DEF StorageIInv, TypedInv

LEMMA OtherHasReadStep ==
    ASSUME StorageIInv, OtherHasRead, UNCHANGED faults
    PROVE  StorageIInv'
<1>a. edits' = edits /\ Known' = Known /\ KnownJob' = KnownJob
  BY SameEdits DEF OtherHasRead, storeVars, diskVars, historyVars
<1>b. TypedInv /\ StoreShape /\ QueueShape /\ Calls /\ (OpensInOrder => Course)
  BY DEF StorageIInv
<1>c. SafeCells' = SafeCells /\ (SqliteReadable' <=> SqliteReadable)
  BY SameDevice
<1>1. StoreTyped' /\ ModesTyped'
  BY <1>a, <1>b DEF TypedInv, StoreTyped, ModesTyped, OtherHasRead, storeVars, diskVars
<1>2. DisksTyped' /\ WriterTyped'
  BY <1>a, <1>b
     DEF TypedInv, DisksTyped, WriterTyped, StoreTyped, OtherHasRead, diskVars, historyVars
<1>3. StoreShape'
  BY <1>b DEF StoreShape, OtherHasRead, storeVars
<1>4. QueueShape'
  BY <1>b DEF QueueShape, OtherHasRead
<1>5. Calls'
  BY <1>b DEF Calls, Running, OtherHasRead
<1>6. ASSUME OpensInOrder PROVE Course'
  BY <1>b, <1>6 DEF Course, Running, OtherHasRead
<1>7. ASSUME BackupHolds PROVE BackupInv'
  <2>a. OpensInOrder /\ Course /\ BackupInv
    BY <1>6, <1>7 DEF StorageIInv, BackupHolds
  <2>1. Ordered'
    BY <2>a DEF BackupInv, Ordered, OtherHasRead, storeVars
  <2>2. Modes'
    BY <2>a DEF BackupInv, Modes, Running, OtherHasRead, diskVars
  <2>3. InFlush'
    BY <2>a DEF BackupInv, InFlush, Running, Modes, OtherHasRead, diskVars
  <2>4. BackupComes'
    BY <2>a DEF BackupInv, BackupComes, Running, OtherHasRead
  <2>5. Durable'
    BY <1>c, <2>a DEF BackupInv, Durable, Running, OtherHasRead, diskVars, historyVars
  <2>6. BackupCovers'
    <3>1. conn = "ready" /\ read \in Known /\ edits \in Nat /\ sql \in Known /\ acked \in Known
      BY <1>b DEF TypedInv, StoreTyped, DisksTyped, StoreShape, OtherHasRead
    <3>2. ~ahead => Below(SafeCells, acked, sql)
      BY <2>a, <3>1 DEF BackupInv, Modes, Durable
    <3>3. ~ahead => Covers(read)
      BY <3>1, <3>2, Documents, SafeCellsAreCells DEF Covers
    <3> QED BY <1>c, <2>a, <3>3
               DEF BackupInv, BackupCovers, Covers, OtherHasRead, diskVars, historyVars
  <2>7. StoreCovers'
    BY <1>c, <2>a
       DEF BackupInv, StoreCovers, Covers, OtherHasRead, storeVars, diskVars, historyVars
  <2>8. ASSUME SqliteReadable PROVE StoreHasAll' /\ BackupHasAll' /\ NothingYet'
    <3>1. StoreHasAll'
      BY <2>a, <2>8 DEF BackupInv, StoreHasAll, HasAll, OtherHasRead, storeVars, historyVars
    <3>2. BackupHasAll'
      BY <2>a, <2>8
         DEF BackupInv, BackupHasAll, HasAll, Running, OtherHasRead, diskVars, historyVars
    <3>3. NothingYet'
      BY <1>b, <2>a DEF BackupInv, NothingYet, StoreShape, OtherHasRead
    <3> QED BY <3>1, <3>2, <3>3
  <2> QED BY <1>c, <2>1, <2>2, <2>3, <2>4, <2>5, <2>6, <2>7, <2>8 DEF BackupInv
<1> QED BY <1>1, <1>2, <1>3, <1>4, <1>5, <1>6, <1>7, SameDevice DEF StorageIInv, TypedInv

LEMMA FlushStoreStep ==
    ASSUME StorageIInv, FlushStore, UNCHANGED faults
    PROVE  StorageIInv'
<1>a. edits' = edits /\ Known' = Known /\ KnownJob' = KnownJob
  BY SameEdits DEF FlushStore, diskVars, backupVars, modeVars, historyVars
<1>b. TypedInv /\ StoreShape /\ QueueShape /\ Calls /\ (OpensInOrder => Course)
  BY DEF StorageIInv
<1>c. SafeCells' = SafeCells /\ (SqliteReadable' <=> SqliteReadable)
  BY SameDevice
<1>d. /\ retained \in [version : 0..edits, data : Known] /\ reload \in BOOLEAN
      /\ mem # NoDoc /\ ~fetch.there /\ queue = <<>> /\ Len(queue) = 0
  BY <1>b DEF TypedInv, StoreTyped, ModesTyped, StoreShape, FlushStore
<1> DEFINE job == NewJob("data", NoDoc, retained.version, retained.data)
<1>e. /\ job \in KnownJob /\ job.kind = "data" /\ job.data = retained.data
      /\ job.step = "queued" /\ job.refused = reload
  BY <1>d DEF NewJob, KnownJob
<1>f. queue' = <<job>>
  BY DEF FlushStore
<1> HIDE DEF job
<1>g. /\ queue' \in Seq(KnownJob) /\ Len(queue') = 1 /\ queue' # <<>>
      /\ queue'[1] = job /\ Head(queue') = job
  BY <1>e, <1>f
<1>h. NoSnapshot \in [version : 0..edits, data : Known] /\ edits \in Nat
  BY <1>b, NothingKnown DEF TypedInv, StoreTyped
<1>1. StoreTyped' /\ ModesTyped'
  BY <1>a, <1>b, <1>g, <1>h
     DEF TypedInv, StoreTyped, ModesTyped, FlushStore, diskVars, modeVars
<1>2. DisksTyped' /\ WriterTyped'
  BY <1>a, <1>b
     DEF TypedInv, DisksTyped, WriterTyped, FlushStore, diskVars, backupVars, historyVars
<1>3. StoreShape'
  BY <1>b DEF StoreShape, FlushStore, modeVars
<1>4. QueueShape'
  BY <1>e, <1>g DEF QueueShape, FlushStore, modeVars
<1>5. Calls'
  BY <1>b DEF Calls, Running, FlushStore, backupVars
<1>6. ASSUME OpensInOrder PROVE Course'
  BY <1>b, <1>6, <1>e, <1>g DEF Course, Running, FlushStore, modeVars
<1>7. ASSUME BackupHolds PROVE BackupInv'
  <2>a. OpensInOrder /\ Course /\ BackupInv
    BY <1>6, <1>7 DEF StorageIInv, BackupHolds
  <2>1. Ordered'
    <3>1. ~reload => retained.data = mem /\ Below(Cells, mem, mem)
      <4>1. ~reload => retained.data = mem
        BY <2>a DEF BackupInv, Ordered, FlushStore
      <4>2. retained.data \in Known
        BY <1>d
      <4> QED BY <1>h, <4>1, <4>2, Documents
    <3> QED BY <1>e, <1>g, <3>1 DEF Ordered, FlushStore, modeVars
  <2>2. Modes'
    BY <2>a, <1>e, <1>g DEF BackupInv, Modes, Running, FlushStore, diskVars, modeVars
  <2>3. InFlush'
    BY <2>a, <1>e, <1>g DEF BackupInv, InFlush, Running, FlushStore
  <2>4. BackupComes'
    BY <2>a DEF BackupInv, BackupComes, FlushStore, backupVars, modeVars
  <2>5. Durable'
    BY <1>c, <2>a, <1>e, <1>g
       DEF BackupInv, Durable, Running, FlushStore, diskVars, modeVars, historyVars
  <2>6. BackupCovers'
    BY <1>c, <2>a
       DEF BackupInv, BackupCovers, Covers, FlushStore, diskVars, backupVars, historyVars
  <2>7. StoreCovers'
    <3>1. ~reload => retained.data = mem
      BY <2>a DEF BackupInv, Ordered, FlushStore
    <3> QED BY <1>c, <1>d, <1>e, <1>g, <2>a, <3>1
               DEF BackupInv, StoreCovers, Covers, FlushStore, diskVars, modeVars,
                   historyVars
  <2>8. ASSUME SqliteReadable PROVE StoreHasAll' /\ BackupHasAll' /\ NothingYet'
    <3>1. StoreHasAll'
      <4>1. ~reload => retained.data = mem
        BY <2>a DEF BackupInv, Ordered, FlushStore
      <4> QED BY <1>d, <1>e, <1>g, <2>a, <2>8, <4>1
                 DEF BackupInv, StoreHasAll, HasAll, FlushStore, modeVars, historyVars
    <3>2. BackupHasAll'
      BY <2>a, <2>8
         DEF BackupInv, BackupHasAll, HasAll, Running, FlushStore, diskVars, backupVars,
             modeVars, historyVars
    <3>3. NothingYet'
      BY <2>a, <2>8 DEF BackupInv, NothingYet, FlushStore, diskVars, modeVars
    <3> QED BY <3>1, <3>2, <3>3
  <2> QED BY <1>c, <2>1, <2>2, <2>3, <2>4, <2>5, <2>6, <2>7, <2>8 DEF BackupInv
<1> QED BY <1>1, <1>2, <1>3, <1>4, <1>5, <1>6, <1>7, SameDevice DEF StorageIInv, TypedInv

LEMMA StartSaveStep ==
    ASSUME StorageIInv, StartSave, UNCHANGED faults
    PROVE  StorageIInv'
<1>a. edits' = edits /\ Known' = Known /\ KnownJob' = KnownJob
  BY SameEdits DEF StartSave, storeVars, diskVars, modeVars, historyVars
<1>b. TypedInv /\ StoreShape /\ QueueShape /\ Calls /\ (OpensInOrder => Course)
  BY DEF StorageIInv
<1>c. SafeCells' = SafeCells /\ (SqliteReadable' <=> SqliteReadable)
  BY SameDevice
<1>d. queue # <<>> /\ GoTo("sqlite")
  BY DEF StartSave, Running
<1>e. /\ queue' \in Seq(KnownJob) /\ Len(queue') = Len(queue) /\ queue' # <<>>
      /\ Head(queue').step = "sqlite" /\ Head(queue').data = Head(queue).data
      /\ \A k \in 1..Len(queue) :
            /\ k > 1 => queue'[k] = queue[k]
            /\ queue'[k].kind = queue[k].kind /\ queue'[k].cell = queue[k].cell
            /\ queue'[k].version = queue[k].version /\ queue'[k].data = queue[k].data
            /\ queue'[k].refused = queue[k].refused
  BY <1>b, <1>d, OnItsWay
<1>f. /\ writing' \in [data : Known, fresh : BOOLEAN, by : {"nobody", "save", "other"}]
      /\ writing'.data = writing.data /\ writing'.by = writing.by /\ ~writing'.fresh
      /\ writing' = NoWrite <=> writing = NoWrite
  <2>1. /\ writing \in [data : Known, fresh : BOOLEAN, by : {"nobody", "save", "other"}]
        /\ writing' = [writing EXCEPT !.fresh = FALSE]
        /\ writing.by = "nobody" => writing = NoWrite
    BY <1>b DEF TypedInv, WriterTyped, StartSave
  <2>2. NoWrite.by = "nobody" /\ NoWrite.fresh = FALSE
    BY DEF NoWrite
  <2>3. writing = NoWrite => writing' = NoWrite
    <3>1. ASSUME writing.fresh = FALSE PROVE [writing EXCEPT !.fresh = FALSE] = writing
      BY <2>1, <3>1
    <3> QED BY <2>1, <2>2, <3>1
  <2>4. writing' \in [data : Known, fresh : BOOLEAN, by : {"nobody", "save", "other"}]
    BY <2>1
  <2>5. writing'.data = writing.data /\ writing'.by = writing.by /\ writing'.fresh = FALSE
    BY <2>1
  <2>6. writing' = NoWrite => writing = NoWrite
    BY <2>1, <2>2, <2>5
  <2> QED BY <2>3, <2>4, <2>5, <2>6
<1>1. StoreTyped' /\ ModesTyped'
  BY <1>a, <1>b, <1>e
     DEF TypedInv, StoreTyped, ModesTyped, StartSave, storeVars, diskVars, modeVars
<1>2. DisksTyped' /\ WriterTyped'
  BY <1>a, <1>b, <1>f
     DEF TypedInv, DisksTyped, WriterTyped, StartSave, diskVars, historyVars
<1>3. StoreShape'
  BY <1>b, <1>e DEF StoreShape, StartSave, storeVars, modeVars
<1>4. QueueShape'
  BY <1>b, <1>e DEF QueueShape, StartSave, modeVars
<1>5. Calls'
  BY <1>b DEF Calls, Running, StartSave
<1>6. ASSUME OpensInOrder PROVE Course'
  BY <1>b, <1>6, <1>e DEF Course, Running, StartSave, modeVars
<1>7. ASSUME BackupHolds PROVE BackupInv'
  <2>a. OpensInOrder /\ Course /\ BackupInv
    BY <1>6, <1>7 DEF StorageIInv, BackupHolds
  <2>1. Ordered'
    BY <2>a, <1>e DEF BackupInv, Ordered, StartSave, storeVars, modeVars
  <2>2. Modes'
    BY <2>a, <1>e DEF BackupInv, Modes, Running, StartSave, diskVars, modeVars
  <2>3. InFlush'
    BY <2>a, <1>e DEF BackupInv, InFlush, Running, StartSave
  <2>4. BackupComes'
    BY <2>a, <1>e DEF BackupInv, BackupComes, Running, StartSave
  <2>5. Durable'
    BY <1>c, <2>a, <1>e
       DEF BackupInv, Durable, Running, StartSave, diskVars, modeVars, historyVars
  <2>6. BackupCovers'
    BY <1>c, <2>a, <1>f
       DEF BackupInv, BackupCovers, Covers, StartSave, diskVars, historyVars
  <2>7. StoreCovers'
    BY <1>c, <2>a, <1>e
       DEF BackupInv, StoreCovers, Covers, StartSave, storeVars, diskVars, modeVars,
           historyVars
  <2>8. ASSUME SqliteReadable PROVE StoreHasAll' /\ BackupHasAll' /\ NothingYet'
    <3>1. StoreHasAll'
      BY <2>a, <2>8, <1>e
         DEF BackupInv, StoreHasAll, HasAll, StartSave, storeVars, modeVars, historyVars
    <3>2. BackupHasAll'
      BY <2>a, <2>8
         DEF BackupInv, BackupHasAll, HasAll, Running, StartSave, modeVars, historyVars
    <3>3. NothingYet'
      BY <1>b, <2>a, <2>8, <1>e
         DEF BackupInv, NothingYet, StoreShape, StartSave, diskVars, modeVars
    <3> QED BY <3>1, <3>2, <3>3
  <2> QED BY <1>c, <2>1, <2>2, <2>3, <2>4, <2>5, <2>6, <2>7, <2>8 DEF BackupInv
<1> QED BY <1>1, <1>2, <1>3, <1>4, <1>5, <1>6, <1>7, SameDevice DEF StorageIInv, TypedInv

LEMMA RefuseSaveStep ==
    ASSUME StorageIInv, RefuseSave, UNCHANGED faults
    PROVE  StorageIInv'
<1>a. edits' = edits /\ Known' = Known /\ KnownJob' = KnownJob
  BY SameEdits DEF RefuseSave, Reject
<1>b. TypedInv /\ StoreShape /\ QueueShape /\ Calls /\ (OpensInOrder => Course)
  BY DEF StorageIInv
<1>c. SafeCells' = SafeCells /\ (SqliteReadable' <=> SqliteReadable)
  BY SameDevice
<1>d. /\ queue # <<>> /\ queue' = Tail(queue) /\ UNCHANGED <<edits, reload>>
      /\ Head(queue) = queue[1] /\ 1 \in 1..Len(queue) /\ Head(queue).data \in Known
  BY <1>b, HeadOfQueue DEF RefuseSave, modeVars, Running, Acknowledge, Reject
<1>e. /\ queue' \in Seq(KnownJob) /\ QueueShape'
      /\ Len(queue') \in Nat
      /\ \A k \in 1..Len(queue') :
            k + 1 \in 1..Len(queue) /\ 1 <= k + 1 /\ queue'[k] = queue[k + 1]
      /\ \A step \in {"sqlite", "clear", "mark", "flush"} : ~Running(step)'
  BY <1>b, <1>d, Ended DEF Running
<1>f. /\ retained' \in [version : 0..edits, data : Known] /\ ~fetch.there /\ mem # NoDoc
      /\ UNCHANGED <<mem, edits, fetch, historyVars>>
  BY <1>b, <1>d, Rejected DEF RefuseSave, Reject
<1>1. StoreTyped' /\ ModesTyped'
  BY <1>a, <1>b, <1>e, <1>f
     DEF TypedInv, StoreTyped, ModesTyped, RefuseSave, diskVars, modeVars
<1>2. DisksTyped' /\ WriterTyped'
  BY <1>a, <1>b, <1>f
     DEF TypedInv, DisksTyped, WriterTyped, RefuseSave, diskVars, backupVars, historyVars
<1>3. StoreShape'
  BY <1>b, <1>f DEF StoreShape, RefuseSave, modeVars
<1>4. QueueShape'
  BY <1>e
<1>5. Calls'
  BY <1>b DEF Calls, Running, RefuseSave, backupVars
<1>6. ASSUME OpensInOrder PROVE Course'
  BY <1>b, <1>6, <1>e DEF Course, RefuseSave, modeVars
<1>7. ASSUME BackupHolds PROVE BackupInv'
  <2>a. OpensInOrder /\ Course /\ BackupInv
    BY <1>6, <1>7 DEF StorageIInv, BackupHolds
  <2>b. reload
    BY <1>b, <1>d, <2>a DEF RefuseSave, WritesAllowed, Course, QueueShape
  <2>1. Ordered'
    BY <1>d, <2>b DEF Ordered
  <2>2. Modes'
    BY <1>e, <2>a DEF BackupInv, Modes, RefuseSave, diskVars, modeVars
  <2>3. InFlush'
    BY <1>e DEF InFlush
  <2>4. BackupComes'
    BY <2>a, <2>b DEF BackupInv, BackupComes, Modes, RefuseSave, backupVars, modeVars
  <2>5. Durable'
    BY <1>c, <1>e, <1>f, <2>a
       DEF BackupInv, Durable, RefuseSave, diskVars, modeVars, historyVars
  <2>6. BackupCovers'
    BY <1>c, <1>f, <2>a
       DEF BackupInv, BackupCovers, Covers, RefuseSave, diskVars, backupVars, historyVars
  <2>7. StoreCovers'
    BY <1>d, <1>f, <2>a, <2>b DEF BackupInv, StoreCovers, Covers, RefuseSave
  <2>8. ASSUME SqliteReadable PROVE StoreHasAll' /\ BackupHasAll' /\ NothingYet'
    <3>1. StoreHasAll'
      BY <1>d, <1>f, <2>a, <2>b DEF BackupInv, StoreHasAll, HasAll, RefuseSave
    <3>2. BackupHasAll'
      BY <1>d, <2>b DEF BackupHasAll
    <3>3. NothingYet'
      BY <2>a, <2>b DEF BackupInv, NothingYet, RefuseSave, modeVars
    <3> QED BY <3>1, <3>2, <3>3
  <2> QED BY <1>c, <2>1, <2>2, <2>3, <2>4, <2>5, <2>6, <2>7, <2>8 DEF BackupInv
<1> QED BY <1>1, <1>2, <1>3, <1>4, <1>5, <1>6, <1>7, SameDevice DEF StorageIInv, TypedInv

LEMMA CommitRowStep ==
    ASSUME StorageIInv, CommitRow, UNCHANGED faults
    PROVE  StorageIInv'
<1>a. edits' = edits /\ Known' = Known /\ KnownJob' = KnownJob
  BY SameEdits DEF CommitRow, storeVars
<1>b. TypedInv /\ StoreShape /\ QueueShape /\ Calls /\ (OpensInOrder => Course)
  BY DEF StorageIInv
<1>c. SafeCells' = SafeCells /\ (SqliteReadable' <=> SqliteReadable)
  BY SameDevice
<1>d. /\ queue # <<>> /\ queue' = Tail(queue) /\ UNCHANGED <<edits, reload>>
      /\ Head(queue) = queue[1] /\ 1 \in 1..Len(queue) /\ Head(queue).data \in Known
  BY <1>a, <1>b, HeadOfQueue DEF CommitRow, Running, Acknowledge, Reject
<1>e. /\ queue' \in Seq(KnownJob) /\ QueueShape'
      /\ Len(queue') \in Nat
      /\ \A k \in 1..Len(queue') :
            k + 1 \in 1..Len(queue) /\ 1 <= k + 1 /\ queue'[k] = queue[k + 1]
      /\ \A step \in {"sqlite", "clear", "mark", "flush"} : ~Running(step)'
  BY <1>b, <1>d, Ended DEF Running
<1>f. /\ acked' \in Known /\ UNCHANGED crashes
      /\ \A cells \in SUBSET Cells : \A f \in Known :
            Below(cells, acked, f) /\ Below(cells, Head(queue).data, f)
               => Below(cells, acked', f)
  BY <1>b, <1>d, Acknowledged DEF CommitRow, storeVars, Acknowledge
<1>g. /\ edits \in Nat /\ NoDoc \notin Known /\ mem \in Known /\ ~fetch.there
      /\ \A k \in 1..Len(queue) : queue[k].data \in Known
      /\ sql \in Known /\ json \in Known /\ SafeCells \in SUBSET Cells
      /\ pending \in Known \cup {NoDoc} /\ writing.data \in Known
  BY <1>b, <1>d, HeadOfQueue, NothingKnown, SafeCellsAreCells
     DEF TypedInv, StoreTyped, DisksTyped, WriterTyped, StoreShape
<1>h. /\ sql' \in Known
      /\ Below(SafeCells, acked, sql) => Below(SafeCells, acked', sql')
      /\ \A d \in Known : Below(SafeCells, acked, Merged(sql, d))
                             => Below(SafeCells, acked', Merged(sql', d))
  BY <1>b, <1>g, RowStored
<1>1. StoreTyped' /\ ModesTyped'
  BY <1>a, <1>b, <1>e DEF TypedInv, StoreTyped, ModesTyped, CommitRow, storeVars
<1>2. DisksTyped' /\ WriterTyped'
  BY <1>a, <1>b, <1>d, <1>f, <1>h DEF TypedInv, DisksTyped, WriterTyped, CommitRow
<1>3. StoreShape'
  BY <1>b, <1>e DEF StoreShape, CommitRow, storeVars
<1>4. QueueShape'
  BY <1>e
<1>5. Calls'
  BY <1>b DEF Calls, Running, CommitRow
<1>6. ASSUME OpensInOrder PROVE Course'
  BY <1>b, <1>6, <1>e DEF Course, CommitRow
<1>7. ASSUME BackupHolds PROVE BackupInv'
  <2>a. OpensInOrder /\ Course /\ BackupInv
    BY <1>6, <1>7 DEF StorageIInv, BackupHolds
  <2>b. conn = "ready" /\ ~reload
    BY DEF CommitRow, WritesAllowed
  <2>1. Ordered'
    BY <1>d, <1>e, <2>a DEF BackupInv, Ordered, CommitRow, storeVars
  <2>2. Modes'
    BY <1>d, <1>e, <2>a, <2>b DEF BackupInv, Modes, CommitRow, storeVars
  <2>3. InFlush'
    BY <1>e DEF InFlush
  <2>4. BackupComes'
    BY <1>d, <1>g, <2>a DEF BackupInv, BackupComes, CommitRow, storeVars
  <2>5. Durable'
    BY <1>c, <1>e, <1>h, <2>a DEF BackupInv, Durable, CommitRow
  <2>6. BackupCovers'
    <3>1. Covers(Head(queue).data)
      BY <1>d, <2>a, <2>b DEF BackupInv, StoreCovers
    <3> QED BY <1>c, <1>d, <1>g, <1>h, <2>a, <3>1
               DEF BackupInv, BackupCovers, Covers, CommitRow
  <2>7. StoreCovers'
    BY <1>c, <1>e, <1>g, <1>h, <2>a DEF BackupInv, StoreCovers, Covers, CommitRow, storeVars
  <2>8. ASSUME SqliteReadable PROVE StoreHasAll' /\ BackupHasAll' /\ NothingYet'
    <3>1. StoreHasAll'
      <4>1. HasAll(mem) /\ Below(Cells, Head(queue).data, mem)
        BY <1>d, <1>g, <2>a, <2>b, <2>8 DEF BackupInv, StoreHasAll, Ordered
      <4>2. ASSUME NEW k \in 1..Len(queue')
            PROVE  Below(Cells, acked', queue'[k].data)
        <5>1. k + 1 \in 1..Len(queue) /\ queue'[k] = queue[k + 1] /\ 1 <= k + 1
          BY <1>e
        <5>2. HasAll(queue[k + 1].data) /\ Below(Cells, Head(queue).data, queue[k + 1].data)
          BY <1>d, <2>a, <2>b, <2>8, <5>1 DEF BackupInv, StoreHasAll, Ordered
        <5> QED BY <1>f, <1>g, <5>1, <5>2 DEF HasAll
      <4> QED BY <1>f, <1>g, <4>1, <4>2 DEF StoreHasAll, HasAll, CommitRow, storeVars
    <3>2. BackupHasAll'
      <4>1. HasAll(Head(queue).data)
        BY <1>d, <2>a, <2>b, <2>8 DEF BackupInv, StoreHasAll
      <4>2. Below(Cells, acked', Head(queue).data)
        BY <1>d, <1>f, <1>g, <4>1, Documents DEF HasAll
      <4> QED BY <1>d, <1>g, <4>2 DEF BackupHasAll, HasAll, CommitRow, storeVars
    <3>3. NothingYet'
      BY <1>d, <2>b DEF NothingYet, CommitRow, storeVars
    <3> QED BY <3>1, <3>2, <3>3
  <2> QED BY <1>c, <2>1, <2>2, <2>3, <2>4, <2>5, <2>6, <2>7, <2>8 DEF BackupInv
<1> QED BY <1>1, <1>2, <1>3, <1>4, <1>5, <1>6, <1>7, SameDevice DEF StorageIInv, TypedInv

LEMMA CommitSnapshotStep ==
    ASSUME StorageIInv, CommitSnapshot, UNCHANGED faults
    PROVE  StorageIInv'
<1>a. edits' = edits /\ Known' = Known /\ KnownJob' = KnownJob
  BY SameEdits DEF CommitSnapshot, storeVars, backupVars, historyVars
<1>b. TypedInv /\ StoreShape /\ QueueShape /\ Calls /\ (OpensInOrder => Course)
  BY DEF StorageIInv
<1>c. SafeCells' = SafeCells /\ (SqliteReadable' <=> SqliteReadable)
  BY SameDevice
<1>d. queue # <<>> /\ GoTo("clear")
  BY DEF CommitSnapshot, Running
<1>e. /\ queue' \in Seq(KnownJob) /\ Len(queue') = Len(queue) /\ queue' # <<>>
      /\ Head(queue').step = "clear" /\ Head(queue').data = Head(queue).data
      /\ \A k \in 1..Len(queue) :
            /\ k > 1 => queue'[k] = queue[k]
            /\ queue'[k].kind = queue[k].kind /\ queue'[k].cell = queue[k].cell
            /\ queue'[k].version = queue[k].version /\ queue'[k].data = queue[k].data
            /\ queue'[k].refused = queue[k].refused
  BY <1>b, <1>d, OnItsWay
<1>f. conn = "ready" /\ ~reload
  BY DEF CommitSnapshot, WritesAllowed
<1>g. Head(queue) = queue[1] /\ 1 \in 1..Len(queue) /\ Head(queue).data \in Known
  BY <1>b, <1>d, HeadOfQueue
<1>h. /\ sql \in Known /\ json \in Known /\ acked \in Known /\ edits \in Nat
      /\ sql' \in Known
  <2>1. sql \in Known /\ json \in Known /\ acked \in Known /\ edits \in Nat
    BY <1>b DEF TypedInv, StoreTyped, DisksTyped
  <2>2. sql \in [Cells -> 0..edits] /\ Head(queue).data \in [Cells -> 0..edits]
    BY <1>g, <2>1 DEF Known
  <2>3. sql' = [c \in Cells |-> IF c \in Settings THEN Head(queue).data[c]
                               ELSE Later(sql[c], Head(queue).data[c])]
    BY DEF CommitSnapshot, Stored
  <2>4. sql' \in [Cells -> 0..edits]
    BY <2>1, <2>2, <2>3 DEF Later
  <2> QED BY <2>1, <2>4 DEF Known
<1>1. StoreTyped' /\ ModesTyped'
  <2>1. StoreTyped'
    BY <1>a, <1>b, <1>e DEF TypedInv, StoreTyped, CommitSnapshot, storeVars
  <2>2. ModesTyped'
    BY <1>b DEF TypedInv, ModesTyped, CommitSnapshot
  <2> QED BY <2>1, <2>2
<1>2. DisksTyped' /\ WriterTyped'
  BY <1>a, <1>b, <1>h
     DEF TypedInv, DisksTyped, WriterTyped, CommitSnapshot, backupVars, historyVars
<1>3. StoreShape'
  BY <1>b, <1>e DEF StoreShape, CommitSnapshot, storeVars
<1>4. QueueShape'
  BY <1>b, <1>e DEF QueueShape, CommitSnapshot
<1>5. Calls'
  BY <1>b DEF Calls, Running, CommitSnapshot, backupVars
<1>6. ASSUME OpensInOrder PROVE Course'
  BY <1>f DEF Course, CommitSnapshot
<1>7. ASSUME BackupHolds PROVE BackupInv'
  <2>a. OpensInOrder /\ Course /\ BackupInv
    BY <1>6, <1>7 DEF StorageIInv, BackupHolds
  <2>b. Covers(Head(queue).data) /\ (SqliteReadable => HasAll(Head(queue).data))
    BY <1>f, <1>g, <2>a DEF BackupInv, StoreCovers, StoreHasAll
  <2>c. Below(SafeCells, acked, sql') /\ Below(SafeCells, Head(queue).data, sql')
    BY <1>b, <2>b, SnapshotStored
  <2>d. \A d \in Known : Below(SafeCells, acked, Merged(sql', d))
    BY <1>h, <2>c, Documents, SafeCellsAreCells
  <2>1. Ordered'
    BY <2>a, <1>e DEF BackupInv, Ordered, CommitSnapshot, storeVars
  <2>2. Modes'
    BY <2>a, <1>e DEF BackupInv, Modes, Running, CommitSnapshot
  <2>3. InFlush'
    BY <2>a, <1>e DEF BackupInv, InFlush, Running, CommitSnapshot
  <2>4. BackupComes'
    BY <2>a, <1>e DEF BackupInv, BackupComes, Running, CommitSnapshot, backupVars
  <2>5. Durable'
    BY <1>c, <1>e, <2>c DEF Durable, CommitSnapshot, historyVars
  <2>6. BackupCovers'
    BY <1>b, <1>c, <1>h, <2>d
       DEF BackupCovers, Covers, TypedInv, WriterTyped, CommitSnapshot, backupVars,
           historyVars
  <2>7. StoreCovers'
    BY <1>b, <1>c, <1>e, <2>d, HeadOfQueue
       DEF StoreCovers, Covers, TypedInv, StoreTyped, CommitSnapshot, storeVars, historyVars
  <2>8. ASSUME SqliteReadable PROVE StoreHasAll' /\ BackupHasAll' /\ NothingYet'
    <3>1. StoreHasAll'
      BY <2>a, <2>8, <1>e
         DEF BackupInv, StoreHasAll, HasAll, CommitSnapshot, storeVars, historyVars
    <3>2. BackupHasAll'
      BY <2>a, <2>8
         DEF BackupInv, BackupHasAll, HasAll, Running, CommitSnapshot, backupVars,
             historyVars
    <3>3. NothingYet'
      BY <2>a, <1>f DEF BackupInv, NothingYet, CommitSnapshot
    <3> QED BY <3>1, <3>2, <3>3
  <2> QED BY <1>c, <2>1, <2>2, <2>3, <2>4, <2>5, <2>6, <2>7, <2>8 DEF BackupInv
<1> QED BY <1>1, <1>2, <1>3, <1>4, <1>5, <1>6, <1>7, SameDevice DEF StorageIInv, TypedInv

LEMMA ClearMarkerStep ==
    ASSUME StorageIInv, ClearMarker, UNCHANGED faults
    PROVE  StorageIInv'
<1>a. edits' = edits /\ Known' = Known /\ KnownJob' = KnownJob
  BY SameEdits DEF ClearMarker, storeVars
<1>b. TypedInv /\ StoreShape /\ QueueShape /\ Calls /\ (OpensInOrder => Course)
  BY DEF StorageIInv
<1>c. SafeCells' = SafeCells /\ (SqliteReadable' <=> SqliteReadable)
  BY SameDevice
<1>d. /\ queue # <<>> /\ queue' = Tail(queue) /\ UNCHANGED <<edits, reload>>
      /\ Head(queue) = queue[1] /\ 1 \in 1..Len(queue) /\ Head(queue).data \in Known
  BY <1>a, <1>b, HeadOfQueue DEF ClearMarker, Running, Acknowledge, Reject
<1>e. /\ queue' \in Seq(KnownJob) /\ QueueShape'
      /\ Len(queue') \in Nat
      /\ \A k \in 1..Len(queue') :
            k + 1 \in 1..Len(queue) /\ 1 <= k + 1 /\ queue'[k] = queue[k + 1]
      /\ \A step \in {"sqlite", "clear", "mark", "flush"} : ~Running(step)'
  BY <1>b, <1>d, Ended DEF Running
<1>f. /\ acked' \in Known /\ UNCHANGED crashes
      /\ \A cells \in SUBSET Cells : \A f \in Known :
            Below(cells, acked, f) /\ Below(cells, Head(queue).data, f)
               => Below(cells, acked', f)
  BY <1>b, <1>d, Acknowledged DEF ClearMarker, storeVars, Acknowledge
<1>g. /\ edits \in Nat /\ NoDoc \notin Known /\ mem \in Known /\ ~fetch.there
      /\ \A k \in 1..Len(queue) : queue[k].data \in Known
      /\ sql \in Known /\ json \in Known /\ SafeCells \in SUBSET Cells
      /\ pending \in Known \cup {NoDoc} /\ writing.data \in Known
  BY <1>b, <1>d, HeadOfQueue, NothingKnown, SafeCellsAreCells
     DEF TypedInv, StoreTyped, DisksTyped, WriterTyped, StoreShape
<1>1. StoreTyped' /\ ModesTyped'
  <2>1. StoreTyped'
    BY <1>a, <1>b, <1>e DEF TypedInv, StoreTyped, ClearMarker, storeVars
  <2>2. ModesTyped'
    BY <1>b DEF TypedInv, ModesTyped, ClearMarker
  <2> QED BY <2>1, <2>2
<1>2. DisksTyped' /\ WriterTyped'
  BY <1>a, <1>b, <1>d, <1>f DEF TypedInv, DisksTyped, WriterTyped, ClearMarker
<1>3. StoreShape'
  BY <1>b, <1>e DEF StoreShape, ClearMarker, storeVars
<1>4. QueueShape'
  BY <1>e
<1>5. Calls'
  BY <1>b DEF Calls, Running, ClearMarker
<1>6. ASSUME OpensInOrder PROVE Course'
  BY <1>b, <1>6 DEF Course, ClearMarker
<1>7. ASSUME BackupHolds PROVE BackupInv'
  <2>a. OpensInOrder /\ Course /\ BackupInv
    BY <1>6, <1>7 DEF StorageIInv, BackupHolds
  <2>b. conn = "ready" /\ ~reload
    BY <2>a DEF ClearMarker, Course
  <2>c. Below(SafeCells, acked', sql)
    BY <1>f, <1>g, <2>a DEF BackupInv, Durable, ClearMarker
  <2>d. \A d \in Known : Below(SafeCells, acked', Merged(sql, d))
    BY <1>f, <1>g, <2>c, Documents
  <2>1. Ordered'
    BY <2>a, <1>d DEF BackupInv, Ordered, ClearMarker, storeVars
  <2>2. Modes'
    BY <1>e, <1>7, <2>a, <2>b DEF BackupInv, BackupHolds, Modes, ClearMarker
  <2>3. InFlush'
    BY <1>e DEF InFlush
  <2>4. BackupComes'
    BY <2>a DEF BackupInv, BackupComes, ClearMarker, storeVars
  <2>5. Durable'
    BY <1>c, <1>e, <2>c DEF Durable, ClearMarker, storeVars
  <2>6. BackupCovers'
    BY <1>c, <1>d, <1>g, <2>d DEF BackupCovers, Covers, ClearMarker, storeVars
  <2>7. StoreCovers'
    BY <1>c, <1>e, <1>g, <2>d DEF StoreCovers, Covers, ClearMarker, storeVars
  <2>8. ASSUME SqliteReadable PROVE StoreHasAll' /\ BackupHasAll' /\ NothingYet'
    <3>1. StoreHasAll'
      <4>1. HasAll(mem) /\ Below(Cells, Head(queue).data, mem)
        BY <1>d, <1>g, <2>a, <2>b, <2>8 DEF BackupInv, StoreHasAll, Ordered
      <4>2. ASSUME NEW k \in 1..Len(queue')
            PROVE  Below(Cells, acked', queue'[k].data)
        <5>1. k + 1 \in 1..Len(queue) /\ queue'[k] = queue[k + 1] /\ 1 <= k + 1
          BY <1>e
        <5>2. HasAll(queue[k + 1].data) /\ Below(Cells, Head(queue).data, queue[k + 1].data)
          BY <1>d, <2>a, <2>b, <2>8, <5>1 DEF BackupInv, StoreHasAll, Ordered
        <5> QED BY <1>f, <1>g, <5>1, <5>2 DEF HasAll
      <4> QED BY <1>f, <1>g, <4>1, <4>2 DEF StoreHasAll, HasAll, ClearMarker, storeVars
    <3>2. BackupHasAll'
      <4>1. HasAll(Head(queue).data)
        BY <1>d, <2>a, <2>b, <2>8 DEF BackupInv, StoreHasAll
      <4>2. Below(Cells, acked', Head(queue).data)
        BY <1>d, <1>f, <1>g, <4>1, Documents DEF HasAll
      <4> QED BY <1>d, <1>g, <4>2 DEF BackupHasAll, HasAll, ClearMarker, storeVars
    <3>3. NothingYet'
      BY <1>d, <2>b DEF NothingYet, ClearMarker, storeVars
    <3> QED BY <3>1, <3>2, <3>3
  <2> QED BY <1>c, <2>1, <2>2, <2>3, <2>4, <2>5, <2>6, <2>7, <2>8 DEF BackupInv
<1> QED BY <1>1, <1>2, <1>3, <1>4, <1>5, <1>6, <1>7, SameDevice DEF StorageIInv, TypedInv

LEMMA SqliteRefusesStep ==
    ASSUME StorageIInv, SqliteRefuses, UNCHANGED faults
    PROVE  StorageIInv'
<1>a. edits' = edits /\ Known' = Known /\ KnownJob' = KnownJob
  BY SameEdits DEF SqliteRefuses, storeVars, diskVars, backupVars, historyVars
<1>b. TypedInv /\ StoreShape /\ QueueShape /\ Calls /\ (OpensInOrder => Course)
  BY DEF StorageIInv
<1>c. SafeCells' = SafeCells /\ (SqliteReadable' <=> SqliteReadable)
  BY SameDevice
<1>d. queue # <<>> /\ GoTo("mark")
  BY DEF SqliteRefuses, Running
<1>e. /\ queue' \in Seq(KnownJob) /\ Len(queue') = Len(queue) /\ queue' # <<>>
      /\ Head(queue').step = "mark" /\ Head(queue').data = Head(queue).data
      /\ \A k \in 1..Len(queue) :
            /\ k > 1 => queue'[k] = queue[k]
            /\ queue'[k].kind = queue[k].kind /\ queue'[k].cell = queue[k].cell
            /\ queue'[k].version = queue[k].version /\ queue'[k].data = queue[k].data
            /\ queue'[k].refused = queue[k].refused
  BY <1>b, <1>d, OnItsWay
<1>f. conn \in {"failed", "ready"} /\ (conn = "ready" => ~reload)
  BY DEF SqliteRefuses, WritesAllowed
<1>1. StoreTyped' /\ ModesTyped'
  BY <1>a, <1>b, <1>e
     DEF TypedInv, StoreTyped, ModesTyped, SqliteRefuses, storeVars, diskVars
<1>2. DisksTyped' /\ WriterTyped'
  BY <1>a, <1>b
     DEF TypedInv, DisksTyped, WriterTyped, SqliteRefuses, diskVars, backupVars, historyVars
<1>3. StoreShape'
  BY <1>b, <1>e DEF StoreShape, SqliteRefuses, storeVars
<1>4. QueueShape'
  BY <1>b, <1>e DEF QueueShape, SqliteRefuses
<1>5. Calls'
  BY <1>b DEF Calls, Running, SqliteRefuses, backupVars
<1>6. ASSUME OpensInOrder PROVE Course'
  BY <1>b, <1>6, <1>e, <1>f DEF Course, Running, SqliteRefuses
<1>7. ASSUME BackupHolds PROVE BackupInv'
  <2>a. OpensInOrder /\ Course /\ BackupInv
    BY <1>6, <1>7 DEF StorageIInv, BackupHolds
  <2>1. Ordered'
    BY <2>a, <1>e DEF BackupInv, Ordered, SqliteRefuses, storeVars
  <2>2. Modes'
    BY <2>a, <1>e DEF BackupInv, Modes, Running, SqliteRefuses, diskVars
  <2>3. InFlush'
    BY <2>a, <1>e DEF BackupInv, InFlush, Running, SqliteRefuses
  <2>4. BackupComes'
    BY <2>a, <1>e DEF BackupInv, BackupComes, Running, SqliteRefuses, backupVars
  <2>5. Durable'
    BY <1>c, <2>a, <1>e
       DEF BackupInv, Durable, Running, SqliteRefuses, diskVars, historyVars
  <2>6. BackupCovers'
    BY <1>c, <2>a
       DEF BackupInv, BackupCovers, Covers, SqliteRefuses, diskVars, backupVars, historyVars
  <2>7. StoreCovers'
    BY <1>c, <2>a, <1>e
       DEF BackupInv, StoreCovers, Covers, SqliteRefuses, storeVars, diskVars, historyVars
  <2>8. ASSUME SqliteReadable PROVE StoreHasAll' /\ BackupHasAll' /\ NothingYet'
    <3>1. StoreHasAll'
      BY <2>a, <2>8, <1>e
         DEF BackupInv, StoreHasAll, HasAll, SqliteRefuses, storeVars, historyVars
    <3>2. BackupHasAll'
      BY <2>a, <1>e DEF BackupInv, BackupHasAll, HasAll, Running, SqliteRefuses
    <3>3. NothingYet'
      BY <2>a, <2>8, <1>f DEF BackupInv, NothingYet, SqliteRefuses, diskVars
    <3> QED BY <3>1, <3>2, <3>3
  <2> QED BY <1>c, <2>1, <2>2, <2>3, <2>4, <2>5, <2>6, <2>7, <2>8 DEF BackupInv
<1> QED BY <1>1, <1>2, <1>3, <1>4, <1>5, <1>6, <1>7, SameDevice DEF StorageIInv, TypedInv

LEMMA MarkAheadStep ==
    ASSUME StorageIInv, MarkAhead, UNCHANGED faults
    PROVE  StorageIInv'
<1>a. edits' = edits /\ Known' = Known /\ KnownJob' = KnownJob
  BY SameEdits DEF MarkAhead, storeVars, historyVars
<1>b. TypedInv /\ StoreShape /\ QueueShape /\ Calls /\ (OpensInOrder => Course)
  BY DEF StorageIInv
<1>c. SafeCells' = SafeCells /\ (SqliteReadable' <=> SqliteReadable)
  BY SameDevice
<1>d. queue # <<>> /\ GoTo("flush")
  BY DEF MarkAhead, Running
<1>e. /\ queue' \in Seq(KnownJob) /\ Len(queue') = Len(queue) /\ queue' # <<>>
      /\ Head(queue').step = "flush" /\ Head(queue').data = Head(queue).data
      /\ \A k \in 1..Len(queue) :
            /\ k > 1 => queue'[k] = queue[k]
            /\ queue'[k].kind = queue[k].kind /\ queue'[k].cell = queue[k].cell
            /\ queue'[k].version = queue[k].version /\ queue'[k].data = queue[k].data
            /\ queue'[k].refused = queue[k].refused
  BY <1>b, <1>d, OnItsWay
<1>f. Head(queue) = queue[1] /\ 1 \in 1..Len(queue) /\ Head(queue).data \in Known
  BY <1>b, <1>d, HeadOfQueue
<1>g. edits \in Nat /\ NoDoc \notin Known
  BY <1>b, NothingKnown DEF TypedInv, StoreTyped
<1>1. StoreTyped' /\ ModesTyped'
  BY <1>a, <1>b, <1>e DEF TypedInv, StoreTyped, ModesTyped, MarkAhead, storeVars
<1>2. DisksTyped' /\ WriterTyped'
  BY <1>a, <1>b, <1>f DEF TypedInv, DisksTyped, WriterTyped, MarkAhead, historyVars
<1>3. StoreShape'
  BY <1>b, <1>f DEF StoreShape, MarkAhead, storeVars
<1>4. QueueShape'
  BY <1>b, <1>e DEF QueueShape, MarkAhead
<1>5. Calls'
  BY <1>b, <1>e, CallsOnChain DEF Calls, Running, TypedInv, WriterTyped, MarkAhead
<1>6. ASSUME OpensInOrder PROVE Course'
  BY <1>b, <1>6, <1>e DEF Course, Running, MarkAhead
<1>7. ASSUME BackupHolds PROVE BackupInv'
  <2>a. OpensInOrder /\ Course /\ BackupInv
    BY <1>6, <1>7 DEF StorageIInv, BackupHolds
  <2>1. Ordered'
    BY <2>a, <1>e DEF BackupInv, Ordered, MarkAhead, storeVars
  <2>2. Modes'
    BY <2>a DEF BackupInv, Modes, Course, MarkAhead
  <2>3. InFlush'
    BY <2>a, <1>e, <1>f, <1>g DEF BackupInv, InFlush, MarkAhead
  <2>4. BackupComes'
    BY <2>a, <1>f, <1>g DEF BackupInv, BackupComes, MarkAhead
  <2>5. Durable'
    BY <2>a, <1>e DEF BackupInv, Durable, Running, Course, Modes, MarkAhead
  <2>6. BackupCovers'
    BY <1>c, <1>f, <2>a
       DEF BackupInv, BackupCovers, StoreCovers, Covers, Course, MarkAhead, historyVars
  <2>7. StoreCovers'
    BY <1>c, <2>a, <1>e
       DEF BackupInv, StoreCovers, Covers, MarkAhead, storeVars, historyVars
  <2>8. ASSUME SqliteReadable PROVE StoreHasAll' /\ BackupHasAll' /\ NothingYet'
    <3>1. StoreHasAll'
      BY <2>a, <2>8, <1>e
         DEF BackupInv, StoreHasAll, HasAll, MarkAhead, storeVars, historyVars
    <3>2. BackupHasAll'
      BY <1>f, <1>g, <2>a, <2>8
         DEF BackupInv, BackupHasAll, StoreHasAll, HasAll, MarkAhead, historyVars
    <3>3. NothingYet'
      BY <1>b, <2>a, <2>8, <1>d DEF BackupInv, NothingYet, StoreShape, MarkAhead
    <3> QED BY <3>1, <3>2, <3>3
  <2> QED BY <1>c, <2>1, <2>2, <2>3, <2>4, <2>5, <2>6, <2>7, <2>8 DEF BackupInv
<1> QED BY <1>1, <1>2, <1>3, <1>4, <1>5, <1>6, <1>7, SameDevice DEF StorageIInv, TypedInv

LEMMA MarkFailsStep ==
    ASSUME StorageIInv, MarkFails, UNCHANGED faults
    PROVE  StorageIInv'
<1>a. edits' = edits /\ Known' = Known /\ KnownJob' = KnownJob
  BY SameEdits DEF MarkFails, Reject
<1>b. TypedInv /\ StoreShape /\ QueueShape /\ Calls /\ (OpensInOrder => Course)
  BY DEF StorageIInv
<1>c. /\ queue # <<>> /\ queue' = Tail(queue) /\ UNCHANGED <<edits, reload>>
      /\ Head(queue) = queue[1] /\ 1 \in 1..Len(queue) /\ Head(queue).data \in Known
  BY <1>b, HeadOfQueue DEF MarkFails, modeVars, Running, Acknowledge, Reject
<1>d. /\ queue' \in Seq(KnownJob) /\ QueueShape'
      /\ Len(queue') \in Nat
      /\ \A k \in 1..Len(queue') :
            k + 1 \in 1..Len(queue) /\ 1 <= k + 1 /\ queue'[k] = queue[k + 1]
      /\ \A step \in {"sqlite", "clear", "mark", "flush"} : ~Running(step)'
  BY <1>b, <1>c, Ended DEF Running
<1>e. /\ retained' \in [version : 0..edits, data : Known] /\ ~fetch.there /\ mem # NoDoc
      /\ UNCHANGED <<mem, edits, fetch, historyVars>>
  BY <1>b, <1>c, Rejected DEF MarkFails, Reject
<1>1. StoreTyped' /\ ModesTyped'
  BY <1>a, <1>b, <1>d, <1>e
     DEF TypedInv, StoreTyped, ModesTyped, MarkFails, diskVars, modeVars
<1>2. DisksTyped' /\ WriterTyped'
  BY <1>a, <1>b, <1>e
     DEF TypedInv, DisksTyped, WriterTyped, MarkFails, diskVars, backupVars, historyVars
<1>3. StoreShape'
  BY <1>b, <1>e DEF StoreShape, MarkFails, modeVars
<1>4. QueueShape'
  BY <1>d
<1>5. Calls'
  BY <1>b DEF Calls, Running, MarkFails, backupVars
<1>6. ASSUME OpensInOrder PROVE Course'
  BY <1>b, <1>6, <1>d DEF Course, MarkFails, modeVars
<1>7. ASSUME BackupHolds PROVE BackupInv'
  BY <1>7 DEF BackupHolds, MarkFails
<1> QED BY <1>1, <1>2, <1>3, <1>4, <1>5, <1>6, <1>7, SameDevice DEF StorageIInv, TypedInv

LEMMA FlushBackupStep ==
    ASSUME StorageIInv, FlushBackup, UNCHANGED faults
    PROVE  StorageIInv'
<1>a. edits' = edits /\ Known' = Known /\ KnownJob' = KnownJob
  BY SameEdits DEF FlushBackup, storeVars, diskVars, modeVars, historyVars
<1>b. TypedInv /\ StoreShape /\ QueueShape /\ Calls /\ (OpensInOrder => Course)
  BY DEF StorageIInv
<1>c. SafeCells' = SafeCells /\ (SqliteReadable' <=> SqliteReadable)
  BY SameDevice
<1>1. StoreTyped' /\ ModesTyped'
  BY <1>a, <1>b
     DEF TypedInv, StoreTyped, ModesTyped, FlushBackup, storeVars, diskVars, modeVars
<1>2. DisksTyped' /\ WriterTyped'
  BY <1>a, <1>b DEF TypedInv, DisksTyped, WriterTyped, FlushBackup, diskVars, historyVars
<1>3. StoreShape'
  BY <1>b DEF StoreShape, FlushBackup, storeVars, modeVars
<1>4. QueueShape'
  BY <1>b DEF QueueShape, FlushBackup, modeVars
<1>5. Calls'
  BY <1>b, CallsOnChain DEF Calls, Running, TypedInv, WriterTyped, FlushBackup
<1>6. ASSUME OpensInOrder PROVE Course'
  BY <1>b, <1>6 DEF Course, Running, FlushBackup, modeVars
<1>7. ASSUME BackupHolds PROVE BackupInv'
  <2>a. OpensInOrder /\ Course /\ BackupInv
    BY <1>6, <1>7 DEF StorageIInv, BackupHolds
  <2>1. Ordered'
    BY <2>a DEF BackupInv, Ordered, FlushBackup, storeVars, modeVars
  <2>2. Modes'
    BY <2>a DEF BackupInv, Modes, Running, FlushBackup, diskVars, modeVars
  <2>3. InFlush'
    BY <2>a DEF BackupInv, InFlush, Running, FlushBackup
  <2>4. BackupComes'
    BY <2>a DEF BackupInv, BackupComes, FlushBackup
  <2>5. Durable'
    BY <1>c, <2>a
       DEF BackupInv, Durable, Running, FlushBackup, diskVars, modeVars, historyVars
  <2>6. BackupCovers'
    BY <1>c, <2>a DEF BackupInv, BackupCovers, Covers, FlushBackup, diskVars, historyVars
  <2>7. StoreCovers'
    BY <1>c, <2>a
       DEF BackupInv, StoreCovers, Covers, FlushBackup, storeVars, diskVars, modeVars,
           historyVars
  <2>8. ASSUME SqliteReadable PROVE StoreHasAll' /\ BackupHasAll' /\ NothingYet'
    <3>1. StoreHasAll'
      BY <2>a, <2>8
         DEF BackupInv, StoreHasAll, HasAll, FlushBackup, storeVars, modeVars, historyVars
    <3>2. BackupHasAll'
      BY <2>a, <2>8
         DEF BackupInv, BackupHasAll, HasAll, Running, FlushBackup, modeVars, historyVars
    <3>3. NothingYet'
      BY <2>a, <2>8 DEF BackupInv, NothingYet, FlushBackup, storeVars, diskVars, modeVars
    <3> QED BY <3>1, <3>2, <3>3
  <2> QED BY <1>c, <2>1, <2>2, <2>3, <2>4, <2>5, <2>6, <2>7, <2>8 DEF BackupInv
<1> QED BY <1>1, <1>2, <1>3, <1>4, <1>5, <1>6, <1>7, SameDevice DEF StorageIInv, TypedInv

LEMMA WriteNextStep ==
    ASSUME StorageIInv, WriteNext, UNCHANGED faults
    PROVE  StorageIInv'
<1>a. edits' = edits /\ Known' = Known /\ KnownJob' = KnownJob
  BY SameEdits DEF WriteNext, storeVars, diskVars, modeVars, historyVars
<1>b. TypedInv /\ StoreShape /\ QueueShape /\ Calls /\ (OpensInOrder => Course)
  BY DEF StorageIInv
<1>c. SafeCells' = SafeCells /\ (SqliteReadable' <=> SqliteReadable)
  BY SameDevice
<1>d. /\ chain \in Seq({"save", "other"}) /\ chain # <<>> /\ Head(chain) \in {"save", "other"}
      /\ Tail(chain) \in Seq({"save", "other"}) /\ pending \in Known /\ pending # NoDoc
      /\ writing = NoWrite
  BY <1>b, CallsOnChain DEF TypedInv, WriterTyped, WriteNext
<1>e. /\ writing' \in [data : Known, fresh : BOOLEAN, by : {"nobody", "save", "other"}]
      /\ writing'.data = pending /\ writing'.fresh /\ writing'.by = Head(chain)
  BY <1>d DEF WriteNext
<1>f. writing' # NoWrite /\ NoWrite.by = "nobody"
  BY <1>d, <1>e DEF NoWrite
<1>1. StoreTyped' /\ ModesTyped'
  BY <1>a, <1>b
     DEF TypedInv, StoreTyped, ModesTyped, WriteNext, storeVars, diskVars, modeVars
<1>2. DisksTyped' /\ WriterTyped'
  BY <1>a, <1>b DEF TypedInv, DisksTyped, WriterTyped, WriteNext, diskVars, historyVars
<1>3. StoreShape'
  BY <1>b DEF StoreShape, WriteNext, storeVars, modeVars
<1>4. QueueShape'
  BY <1>b DEF QueueShape, WriteNext, modeVars
<1>5. Calls'
  <2>1. OneSave(chain') /\ (~Running("flush") => NoSave(chain'))
    BY <1>b, <1>d, CallsOnChain DEF Calls, WriteNext
  <2>2. Head(chain) = "save" => NoSave(chain') /\ Running("flush")
    BY <1>b, <1>d, CallsOnChain DEF Calls, WriteNext
  <2> QED BY <2>1, <2>2 DEF Calls, Running, WriteNext
<1>6. ASSUME OpensInOrder PROVE Course'
  BY <1>b, <1>6 DEF Course, Running, WriteNext, modeVars
<1>7. ASSUME BackupHolds PROVE BackupInv'
  <2>a. OpensInOrder /\ Course /\ BackupInv
    BY <1>6, <1>7 DEF StorageIInv, BackupHolds
  <2>1. Ordered'
    BY <2>a DEF BackupInv, Ordered, WriteNext, storeVars, modeVars
  <2>2. Modes'
    BY <2>a DEF BackupInv, Modes, Running, WriteNext, diskVars, modeVars
  <2>3. InFlush'
    BY <2>a, <1>f DEF BackupInv, InFlush, Running, WriteNext
  <2>4. BackupComes'
    BY <2>a, <1>f DEF BackupInv, BackupComes, WriteNext
  <2>5. Durable'
    BY <1>c, <2>a
       DEF BackupInv, Durable, Running, WriteNext, diskVars, modeVars, historyVars
  <2>6. BackupCovers'
    BY <1>c, <2>a DEF BackupInv, BackupCovers, Covers, WriteNext, diskVars, historyVars
  <2>7. StoreCovers'
    BY <1>c, <2>a
       DEF BackupInv, StoreCovers, Covers, WriteNext, storeVars, diskVars, modeVars,
           historyVars
  <2>8. ASSUME SqliteReadable PROVE StoreHasAll' /\ BackupHasAll' /\ NothingYet'
    <3>1. StoreHasAll'
      BY <2>a, <2>8
         DEF BackupInv, StoreHasAll, HasAll, WriteNext, storeVars, modeVars, historyVars
    <3>2. BackupHasAll'
      BY <2>a, <2>8, <1>f
         DEF BackupInv, BackupHasAll, HasAll, Running, WriteNext, modeVars, historyVars
    <3>3. NothingYet'
      BY <2>a, <2>8 DEF BackupInv, NothingYet, WriteNext, storeVars, diskVars, modeVars
    <3> QED BY <3>1, <3>2, <3>3
  <2> QED BY <1>c, <2>1, <2>2, <2>3, <2>4, <2>5, <2>6, <2>7, <2>8 DEF BackupInv
<1> QED BY <1>1, <1>2, <1>3, <1>4, <1>5, <1>6, <1>7, SameDevice DEF StorageIInv, TypedInv

LEMMA OtherFindsNothingStep ==
    ASSUME StorageIInv, NothingToWrite, Head(chain) # "save", UNCHANGED faults
    PROVE  StorageIInv'
<1>a. edits' = edits /\ Known' = Known /\ KnownJob' = KnownJob
  BY SameEdits DEF NothingToWrite, FlushReturns, storeVars
<1>b. TypedInv /\ StoreShape /\ QueueShape /\ Calls /\ (OpensInOrder => Course)
  BY DEF StorageIInv
<1>c. SafeCells' = SafeCells /\ (SqliteReadable' <=> SqliteReadable)
  BY SameDevice
<1>d. /\ chain \in Seq({"save", "other"}) /\ chain # <<>> /\ chain' = Tail(chain)
      /\ Tail(chain) \in Seq({"save", "other"}) /\ UNCHANGED <<queue, historyVars>>
  BY <1>b DEF TypedInv, WriterTyped, NothingToWrite, FlushReturns
<1>1. StoreTyped' /\ ModesTyped'
  BY <1>a, <1>b
     DEF TypedInv, StoreTyped, ModesTyped, NothingToWrite, FlushReturns, storeVars,
         diskVars, modeVars
<1>2. DisksTyped' /\ WriterTyped'
  BY <1>a, <1>b
     DEF TypedInv, DisksTyped, WriterTyped, NothingToWrite, FlushReturns, diskVars,
         historyVars
<1>3. StoreShape'
  BY <1>b DEF StoreShape, NothingToWrite, FlushReturns, storeVars, modeVars
<1>4. QueueShape'
  BY <1>b DEF QueueShape, NothingToWrite, FlushReturns, modeVars
<1>5. Calls'
  <2>1. OneSave(chain') /\ (NoSave(chain) => NoSave(chain'))
    BY <1>b, <1>d, CallsOnChain DEF Calls
  <2> QED BY <1>b, <2>1 DEF Calls, Running, NothingToWrite, FlushReturns
<1>6. ASSUME OpensInOrder PROVE Course'
  BY <1>b, <1>6 DEF Course, Running, NothingToWrite, FlushReturns, modeVars
<1>7. ASSUME BackupHolds PROVE BackupInv'
  <2>a. OpensInOrder /\ Course /\ BackupInv
    BY <1>6, <1>7 DEF StorageIInv, BackupHolds
  <2>1. Ordered'
    BY <2>a DEF BackupInv, Ordered, NothingToWrite, FlushReturns, storeVars, modeVars
  <2>2. Modes'
    BY <2>a DEF BackupInv, Modes, Running, NothingToWrite, FlushReturns, diskVars, modeVars
  <2>3. InFlush'
    BY <2>a DEF BackupInv, InFlush, Running, NothingToWrite, FlushReturns, diskVars
  <2>4. BackupComes'
    BY <2>a DEF BackupInv, BackupComes, Running, NothingToWrite, FlushReturns, modeVars
  <2>5. Durable'
    BY <1>c, <2>a
       DEF BackupInv, Durable, Running, NothingToWrite, FlushReturns, diskVars, modeVars,
           historyVars
  <2>6. BackupCovers'
    BY <1>c, <2>a
       DEF BackupInv, BackupCovers, Covers, NothingToWrite, FlushReturns, diskVars,
           historyVars
  <2>7. StoreCovers'
    BY <1>c, <2>a
       DEF BackupInv, StoreCovers, Covers, NothingToWrite, FlushReturns, storeVars,
           diskVars, modeVars, historyVars
  <2>8. ASSUME SqliteReadable PROVE StoreHasAll' /\ BackupHasAll' /\ NothingYet'
    <3>1. StoreHasAll'
      BY <2>a, <2>8
         DEF BackupInv, StoreHasAll, HasAll, NothingToWrite, FlushReturns, storeVars,
             modeVars, historyVars
    <3>2. BackupHasAll'
      BY <2>a, <2>8
         DEF BackupInv, BackupHasAll, HasAll, Running, NothingToWrite, FlushReturns,
             diskVars, modeVars, historyVars
    <3>3. NothingYet'
      BY <2>a, <2>8
         DEF BackupInv, NothingYet, NothingToWrite, FlushReturns, storeVars, diskVars,
             modeVars
    <3> QED BY <3>1, <3>2, <3>3
  <2> QED BY <1>c, <2>1, <2>2, <2>3, <2>4, <2>5, <2>6, <2>7, <2>8 DEF BackupInv
<1> QED BY <1>1, <1>2, <1>3, <1>4, <1>5, <1>6, <1>7, SameDevice DEF StorageIInv, TypedInv

LEMMA SaveFindsNothingStep ==
    ASSUME StorageIInv, NothingToWrite, Head(chain) = "save", UNCHANGED faults
    PROVE  StorageIInv'
<1>a. edits' = edits /\ Known' = Known /\ KnownJob' = KnownJob
  BY SameEdits DEF NothingToWrite, storeVars, diskVars, modeVars
<1>b. TypedInv /\ StoreShape /\ QueueShape /\ Calls /\ (OpensInOrder => Course)
  BY DEF StorageIInv
<1>c. SafeCells' = SafeCells /\ (SqliteReadable' <=> SqliteReadable)
  BY SameDevice
<1>1. /\ chain \in Seq({"save", "other"}) /\ chain # <<>> /\ Head(chain) = "save"
      /\ writing = NoWrite
  BY <1>b DEF TypedInv, WriterTyped, NothingToWrite
<1>2. /\ chain[1] = "save" /\ 1 \in 1..Len(chain) /\ chain' = Tail(chain)
      /\ Acknowledge /\ pending = NoDoc
  BY <1>1 DEF NothingToWrite, FlushReturns
<1>d. /\ Running("flush") /\ queue # <<>> /\ queue' = Tail(queue) /\ UNCHANGED <<edits, reload>>
      /\ Acknowledge /\ pending = NoDoc
      /\ Head(queue) = queue[1] /\ 1 \in 1..Len(queue) /\ Head(queue).data \in Known
  BY <1>a, <1>b, <1>2, HeadOfQueue
     DEF Calls, NoSave, Running, Acknowledge, NothingToWrite, modeVars
<1>e. /\ queue' \in Seq(KnownJob) /\ QueueShape'
      /\ Len(queue') \in Nat
      /\ \A k \in 1..Len(queue') :
            k + 1 \in 1..Len(queue) /\ 1 <= k + 1 /\ queue'[k] = queue[k + 1]
      /\ \A step \in {"sqlite", "clear", "mark", "flush"} : ~Running(step)'
  BY <1>b, <1>d, Ended DEF Running
<1>f. /\ acked' \in Known /\ UNCHANGED crashes
      /\ \A cells \in SUBSET Cells : \A f \in Known :
            Below(cells, acked, f) /\ Below(cells, Head(queue).data, f)
               => Below(cells, acked', f)
  BY <1>b, <1>d, Acknowledged DEF Acknowledge
<1>g. /\ edits \in Nat /\ NoDoc \notin Known /\ mem \in Known /\ ~fetch.there
      /\ \A k \in 1..Len(queue) : queue[k].data \in Known
      /\ sql \in Known /\ json \in Known /\ SafeCells \in SUBSET Cells
      /\ pending \in Known \cup {NoDoc} /\ writing.data \in Known
  BY <1>b, <1>d, HeadOfQueue, NothingKnown, SafeCellsAreCells
     DEF TypedInv, StoreTyped, DisksTyped, WriterTyped, StoreShape
<1>3. StoreTyped' /\ ModesTyped'
  BY <1>a, <1>b, <1>e
     DEF TypedInv, StoreTyped, ModesTyped, NothingToWrite, storeVars, diskVars, modeVars
<1>4. DisksTyped' /\ WriterTyped'
  BY <1>a, <1>b, <1>2, <1>f DEF TypedInv, DisksTyped, WriterTyped, NothingToWrite, diskVars
<1>5. StoreShape'
  BY <1>b, <1>e DEF StoreShape, NothingToWrite, storeVars, modeVars
<1>6. QueueShape'
  BY <1>e
<1>7. Calls'
  <2>1. NoSave(chain') /\ OneSave(chain')
    BY <1>1, <1>2, <1>b, CallsOnChain DEF Calls
  <2>2. writing'.by # "save"
    BY <1>1 DEF NoWrite, NothingToWrite
  <2> QED BY <2>1, <2>2 DEF Calls
<1>8. ASSUME OpensInOrder PROVE Course'
  BY <1>b, <1>8, <1>e DEF Course, NothingToWrite, modeVars
<1>9. ASSUME BackupHolds PROVE BackupInv'
  <2>a. OpensInOrder /\ Course /\ BackupInv
    BY <1>8, <1>9 DEF StorageIInv, BackupHolds
  <2>b. ~reload /\ ahead /\ marker /\ conn \in {"ready", "failed"}
    BY <1>d, <2>a DEF BackupInv, Modes, Course
  <2>c. json' = Head(queue).data /\ fresh' /\ writing' = NoWrite
    BY <1>d, <2>a DEF BackupInv, InFlush, NothingToWrite, diskVars
  <2>d. \A d \in Known :
            Below(Cells, Head(queue).data, d) /\ Below(SafeCells, acked, Merged(sql, d))
                => Below(SafeCells, acked', Merged(sql, d))
    <3>1. ASSUME NEW d \in Known, Below(Cells, Head(queue).data, d),
                 Below(SafeCells, acked, Merged(sql, d))
          PROVE  Below(SafeCells, acked', Merged(sql, d))
      <4>1. Merged(sql, d) \in Known /\ Below(SafeCells, Head(queue).data, d)
        BY <1>d, <1>g, <3>1, BelowFewer, Documents
      <4>2. Below(SafeCells, Head(queue).data, Merged(sql, d))
        BY <1>d, <1>g, <4>1, Documents
      <4> QED BY <1>f, <1>g, <3>1, <4>1, <4>2
    <3> QED BY <3>1
  <2>1. Ordered'
    BY <2>a, <1>d, <1>e DEF BackupInv, Ordered, NothingToWrite, storeVars
  <2>2. Modes'
    BY <2>a, <2>b DEF BackupInv, Modes, NothingToWrite, diskVars, modeVars
  <2>3. InFlush'
    BY <1>e DEF InFlush
  <2>4. BackupComes'
    BY <2>c DEF BackupComes
  <2>5. Durable'
    BY <1>e, <2>b DEF Durable, NothingToWrite, storeVars, diskVars, modeVars
  <2>6. BackupCovers'
    <3>1. Covers(Head(queue).data) /\ Below(Cells, Head(queue).data, Head(queue).data)
      BY <1>d, <1>g, <2>a, <2>b, Documents DEF BackupInv, StoreCovers
    <3> QED BY <1>c, <1>d, <2>c, <2>d, <3>1
               DEF BackupCovers, Covers, NothingToWrite, diskVars
  <2>7. StoreCovers'
    <3>1. Covers(mem) /\ Below(Cells, Head(queue).data, mem)
      BY <1>d, <1>g, <2>a, <2>b DEF BackupInv, StoreCovers, Ordered
    <3>2. ASSUME NEW k \in 1..Len(queue')
          PROVE  Below(SafeCells, acked', Merged(sql, queue'[k].data))
      <4>1. k + 1 \in 1..Len(queue) /\ queue'[k] = queue[k + 1] /\ 1 <= k + 1
        BY <1>e
      <4>2. Covers(queue[k + 1].data) /\ Below(Cells, Head(queue).data, queue[k + 1].data)
        BY <1>d, <2>a, <2>b, <4>1 DEF BackupInv, StoreCovers, Ordered
      <4> QED BY <1>g, <2>d, <4>1, <4>2 DEF Covers
    <3> QED BY <1>c, <1>g, <2>d, <3>1, <3>2
               DEF StoreCovers, Covers, NothingToWrite, storeVars, diskVars
  <2>8. ASSUME SqliteReadable PROVE StoreHasAll' /\ BackupHasAll' /\ NothingYet'
    <3>1. StoreHasAll'
      <4> SUFFICES ASSUME conn = "ready" PROVE StoreHasAll'
        BY DEF StoreHasAll, NothingToWrite, storeVars, diskVars, modeVars
      <4>1. HasAll(mem) /\ Below(Cells, Head(queue).data, mem)
        BY <1>d, <1>g, <2>a, <2>b, <2>8 DEF BackupInv, StoreHasAll, Ordered
      <4>2. ASSUME NEW k \in 1..Len(queue')
            PROVE  Below(Cells, acked', queue'[k].data)
        <5>1. k + 1 \in 1..Len(queue) /\ queue'[k] = queue[k + 1] /\ 1 <= k + 1
          BY <1>e
        <5>2. HasAll(queue[k + 1].data) /\ Below(Cells, Head(queue).data, queue[k + 1].data)
          BY <1>d, <2>a, <2>b, <2>8, <5>1 DEF BackupInv, StoreHasAll, Ordered
        <5> QED BY <1>f, <1>g, <5>1, <5>2 DEF HasAll
      <4> QED BY <1>f, <1>g, <4>1, <4>2 DEF StoreHasAll, HasAll, NothingToWrite, storeVars
    <3>2. BackupHasAll'
      <4>1. conn = "ready" => HasAll(Head(queue).data)
        BY <1>d, <2>a, <2>b, <2>8 DEF BackupInv, StoreHasAll
      <4>2. conn = "ready" => Below(Cells, acked', Head(queue).data)
        BY <1>d, <1>f, <1>g, <4>1, Documents DEF HasAll
      <4> QED BY <2>c, <4>2 DEF BackupHasAll, HasAll, NothingToWrite, modeVars
    <3>3. NothingYet'
      BY <2>b DEF NothingYet, NothingToWrite, diskVars
    <3> QED BY <3>1, <3>2, <3>3
  <2> QED BY <1>c, <2>1, <2>2, <2>3, <2>4, <2>5, <2>6, <2>7, <2>8 DEF BackupInv
<1> QED BY <1>3, <1>4, <1>5, <1>6, <1>7, <1>8, <1>9, SameDevice DEF StorageIInv, TypedInv

LEMMA OtherLandsStep ==
    ASSUME StorageIInv, BackupLands, writing.by # "save", UNCHANGED faults
    PROVE  StorageIInv'
<1>a. edits' = edits /\ Known' = Known /\ KnownJob' = KnownJob
  BY SameEdits DEF BackupLands, FlushReturns, storeVars, modeVars, historyVars
<1>b. TypedInv /\ StoreShape /\ QueueShape /\ Calls /\ (OpensInOrder => Course)
  BY DEF StorageIInv
<1>c. SafeCells' = SafeCells /\ (SqliteReadable' <=> SqliteReadable)
  BY SameDevice
<1>d. writing # NoWrite /\ writing' = NoWrite /\ NoWrite.by = "nobody"
  BY DEF BackupLands, NoWrite
<1>e. writing' \in [data : Known, fresh : BOOLEAN, by : {"nobody", "save", "other"}]
  BY <1>b, <1>d, NothingKnown DEF TypedInv, StoreTyped
<1>1. StoreTyped' /\ ModesTyped'
  BY <1>a, <1>b
     DEF TypedInv, StoreTyped, ModesTyped, BackupLands, FlushReturns, storeVars, modeVars
<1>2. DisksTyped' /\ WriterTyped'
  BY <1>a, <1>b, <1>e
     DEF TypedInv, DisksTyped, WriterTyped, BackupLands, FlushReturns, historyVars
<1>3. StoreShape'
  BY <1>b DEF StoreShape, BackupLands, FlushReturns, storeVars, modeVars
<1>4. QueueShape'
  BY <1>b DEF QueueShape, BackupLands, FlushReturns, modeVars
<1>5. Calls'
  BY <1>b, <1>d DEF Calls, Running, BackupLands, FlushReturns
<1>6. ASSUME OpensInOrder PROVE Course'
  BY <1>b, <1>6 DEF Course, Running, BackupLands, FlushReturns, modeVars
<1>7. ASSUME BackupHolds PROVE BackupInv'
  <2>a. OpensInOrder /\ Course /\ BackupInv
    BY <1>6, <1>7 DEF StorageIInv, BackupHolds
  <2>1. Ordered'
    BY <2>a DEF BackupInv, Ordered, BackupLands, FlushReturns, storeVars, modeVars
  <2>2. Modes'
    BY <2>a DEF BackupInv, Modes, Running, BackupLands, FlushReturns, modeVars
  <2>3. InFlush'
    BY <2>a DEF BackupInv, InFlush, Running, BackupLands, FlushReturns
  <2>4. BackupComes'
    BY <2>a DEF BackupInv, BackupComes, Running, BackupLands, FlushReturns, modeVars
  <2>5. Durable'
    BY <1>c, <2>a
       DEF BackupInv, Durable, Running, BackupLands, FlushReturns, modeVars, historyVars
  <2>6. BackupCovers'
    BY <1>c, <2>a
       DEF BackupInv, BackupCovers, Covers, BackupLands, FlushReturns, historyVars
  <2>7. StoreCovers'
    BY <1>c, <2>a
       DEF BackupInv, StoreCovers, Covers, BackupLands, FlushReturns, storeVars, modeVars,
           historyVars
  <2>8. ASSUME SqliteReadable PROVE StoreHasAll' /\ BackupHasAll' /\ NothingYet'
    <3>1. StoreHasAll'
      BY <2>a, <2>8
         DEF BackupInv, StoreHasAll, HasAll, BackupLands, FlushReturns, storeVars, modeVars,
             historyVars
    <3>2. BackupHasAll'
      BY <2>a, <2>8
         DEF BackupInv, BackupHasAll, HasAll, Running, BackupLands, FlushReturns, modeVars,
             historyVars
    <3>3. NothingYet'
      BY <2>a, <2>8
         DEF BackupInv, NothingYet, BackupLands, FlushReturns, storeVars, modeVars
    <3> QED BY <3>1, <3>2, <3>3
  <2> QED BY <1>c, <2>1, <2>2, <2>3, <2>4, <2>5, <2>6, <2>7, <2>8 DEF BackupInv
<1> QED BY <1>1, <1>2, <1>3, <1>4, <1>5, <1>6, <1>7, SameDevice DEF StorageIInv, TypedInv

LEMMA SaveWritesOnStep ==
    ASSUME StorageIInv, BackupLands, writing.by = "save", pending # NoDoc, UNCHANGED faults
    PROVE  StorageIInv'
<1>a. edits' = edits /\ Known' = Known /\ KnownJob' = KnownJob
  BY SameEdits DEF BackupLands, FlushReturns, storeVars, modeVars, historyVars
<1>b. TypedInv /\ StoreShape /\ QueueShape /\ Calls /\ (OpensInOrder => Course)
  BY DEF StorageIInv
<1>c. SafeCells' = SafeCells /\ (SqliteReadable' <=> SqliteReadable)
  BY SameDevice
<1>d. writing # NoWrite /\ writing' = NoWrite /\ NoWrite.by = "nobody"
  BY DEF BackupLands, NoWrite
<1>e. writing' \in [data : Known, fresh : BOOLEAN, by : {"nobody", "save", "other"}]
  BY <1>b, <1>d, NothingKnown DEF TypedInv, StoreTyped
<1>1. StoreTyped' /\ ModesTyped'
  BY <1>a, <1>b
     DEF TypedInv, StoreTyped, ModesTyped, BackupLands, FlushReturns, storeVars, modeVars
<1>2. DisksTyped' /\ WriterTyped'
  BY <1>a, <1>b, <1>e
     DEF TypedInv, DisksTyped, WriterTyped, BackupLands, FlushReturns, historyVars
<1>3. StoreShape'
  BY <1>b DEF StoreShape, BackupLands, FlushReturns, storeVars, modeVars
<1>4. QueueShape'
  BY <1>b DEF QueueShape, BackupLands, FlushReturns, modeVars
<1>5. Calls'
  <2>1. chain \in Seq({"save", "other"}) /\ NoSave(chain) /\ Running("flush")
    BY <1>b DEF Calls, TypedInv, WriterTyped
  <2>2. chain' = Append(chain, "save") /\ queue' = queue
    BY DEF BackupLands, FlushReturns
  <2>3. OneSave(chain')
    BY <2>1, <2>2, CallsOnChain
  <2> QED BY <1>d, <2>1, <2>2, <2>3 DEF Calls, Running
<1>6. ASSUME OpensInOrder PROVE Course'
  BY <1>b, <1>6 DEF Course, Running, BackupLands, FlushReturns, modeVars
<1>7. ASSUME BackupHolds PROVE BackupInv'
  <2>a. OpensInOrder /\ Course /\ BackupInv
    BY <1>6, <1>7 DEF StorageIInv, BackupHolds
  <2>1. Ordered'
    BY <2>a DEF BackupInv, Ordered, BackupLands, FlushReturns, storeVars, modeVars
  <2>2. Modes'
    BY <2>a DEF BackupInv, Modes, Running, BackupLands, FlushReturns, modeVars
  <2>3. InFlush'
    BY <2>a DEF BackupInv, InFlush, Running, BackupLands, FlushReturns
  <2>4. BackupComes'
    BY <2>a DEF BackupInv, BackupComes, BackupLands, FlushReturns
  <2>5. Durable'
    BY <1>c, <2>a
       DEF BackupInv, Durable, Running, BackupLands, FlushReturns, modeVars, historyVars
  <2>6. BackupCovers'
    BY <1>c, <2>a
       DEF BackupInv, BackupCovers, Covers, BackupLands, FlushReturns, historyVars
  <2>7. StoreCovers'
    BY <1>c, <2>a
       DEF BackupInv, StoreCovers, Covers, BackupLands, FlushReturns, storeVars, modeVars,
           historyVars
  <2>8. ASSUME SqliteReadable PROVE StoreHasAll' /\ BackupHasAll' /\ NothingYet'
    <3>1. StoreHasAll'
      BY <2>a, <2>8
         DEF BackupInv, StoreHasAll, HasAll, BackupLands, FlushReturns, storeVars, modeVars,
             historyVars
    <3>2. BackupHasAll'
      BY <2>a, <2>8
         DEF BackupInv, BackupHasAll, HasAll, Running, BackupLands, FlushReturns, modeVars,
             historyVars
    <3>3. NothingYet'
      BY <2>a, <2>8
         DEF BackupInv, NothingYet, BackupLands, FlushReturns, storeVars, modeVars
    <3> QED BY <3>1, <3>2, <3>3
  <2> QED BY <1>c, <2>1, <2>2, <2>3, <2>4, <2>5, <2>6, <2>7, <2>8 DEF BackupInv
<1> QED BY <1>1, <1>2, <1>3, <1>4, <1>5, <1>6, <1>7, SameDevice DEF StorageIInv, TypedInv

LEMMA SaveLandsStep ==
    ASSUME StorageIInv, BackupLands, writing.by = "save", pending = NoDoc, UNCHANGED faults
    PROVE  StorageIInv'
<1>a. edits' = edits /\ Known' = Known /\ KnownJob' = KnownJob
  BY SameEdits DEF BackupLands, storeVars, modeVars
<1>b. TypedInv /\ StoreShape /\ QueueShape /\ Calls /\ (OpensInOrder => Course)
  BY DEF StorageIInv
<1>c. SafeCells' = SafeCells /\ (SqliteReadable' <=> SqliteReadable)
  BY SameDevice
<1>d. /\ Running("flush") /\ queue # <<>> /\ queue' = Tail(queue) /\ UNCHANGED <<edits, reload>>
      /\ Acknowledge /\ pending = NoDoc
      /\ Head(queue) = queue[1] /\ 1 \in 1..Len(queue) /\ Head(queue).data \in Known
  BY <1>a, <1>b, HeadOfQueue
     DEF Calls, Running, Acknowledge, FlushReturns, BackupLands, modeVars
<1>e. /\ queue' \in Seq(KnownJob) /\ QueueShape'
      /\ Len(queue') \in Nat
      /\ \A k \in 1..Len(queue') :
            k + 1 \in 1..Len(queue) /\ 1 <= k + 1 /\ queue'[k] = queue[k + 1]
      /\ \A step \in {"sqlite", "clear", "mark", "flush"} : ~Running(step)'
  BY <1>b, <1>d, Ended DEF Running
<1>f. /\ acked' \in Known /\ UNCHANGED crashes
      /\ \A cells \in SUBSET Cells : \A f \in Known :
            Below(cells, acked, f) /\ Below(cells, Head(queue).data, f)
               => Below(cells, acked', f)
  BY <1>b, <1>d, Acknowledged DEF Acknowledge
<1>g. /\ edits \in Nat /\ NoDoc \notin Known /\ mem \in Known /\ ~fetch.there
      /\ \A k \in 1..Len(queue) : queue[k].data \in Known
      /\ sql \in Known /\ json \in Known /\ SafeCells \in SUBSET Cells
      /\ pending \in Known \cup {NoDoc} /\ writing.data \in Known
  BY <1>b, <1>d, HeadOfQueue, NothingKnown, SafeCellsAreCells
     DEF TypedInv, StoreTyped, DisksTyped, WriterTyped, StoreShape
<1>h. writing # NoWrite /\ writing' = NoWrite /\ chain' = chain /\ NoWrite.by = "nobody"
  BY <1>d DEF BackupLands, FlushReturns, NoWrite
<1>1. StoreTyped' /\ ModesTyped'
  BY <1>a, <1>b, <1>e DEF TypedInv, StoreTyped, ModesTyped, BackupLands, storeVars, modeVars
<1>2. DisksTyped' /\ WriterTyped'
  <2>1. writing' \in [data : Known, fresh : BOOLEAN, by : {"nobody", "save", "other"}]
    BY <1>g, <1>h, NothingKnown
  <2> QED BY <1>a, <1>b, <1>f, <1>h, <2>1 DEF TypedInv, DisksTyped, WriterTyped, BackupLands
<1>3. StoreShape'
  BY <1>b, <1>e DEF StoreShape, BackupLands, storeVars, modeVars
<1>4. QueueShape'
  BY <1>e
<1>5. Calls'
  BY <1>b, <1>h, CallsOnChain DEF Calls, TypedInv, WriterTyped
<1>6. ASSUME OpensInOrder PROVE Course'
  BY <1>b, <1>6, <1>e DEF Course, BackupLands, modeVars
<1>7. ASSUME BackupHolds PROVE BackupInv'
  <2>a. OpensInOrder /\ Course /\ BackupInv
    BY <1>6, <1>7 DEF StorageIInv, BackupHolds
  <2>b. ~reload /\ ahead /\ marker /\ conn \in {"ready", "failed"}
    BY <1>d, <2>a DEF BackupInv, Modes, Course
  <2>c. json' = Head(queue).data /\ fresh' /\ writing' = NoWrite
    BY <1>d, <1>h, <2>a DEF BackupInv, InFlush, BackupLands
  <2>d. \A d \in Known :
            Below(Cells, Head(queue).data, d) /\ Below(SafeCells, acked, Merged(sql, d))
                => Below(SafeCells, acked', Merged(sql, d))
    <3>1. ASSUME NEW d \in Known, Below(Cells, Head(queue).data, d),
                 Below(SafeCells, acked, Merged(sql, d))
          PROVE  Below(SafeCells, acked', Merged(sql, d))
      <4>1. Merged(sql, d) \in Known /\ Below(SafeCells, Head(queue).data, d)
        BY <1>d, <1>g, <3>1, BelowFewer, Documents
      <4>2. Below(SafeCells, Head(queue).data, Merged(sql, d))
        BY <1>d, <1>g, <4>1, Documents
      <4> QED BY <1>f, <1>g, <3>1, <4>1, <4>2
    <3> QED BY <3>1
  <2>1. Ordered'
    BY <2>a, <1>d DEF BackupInv, Ordered, BackupLands, storeVars
  <2>2. Modes'
    BY <2>a, <2>b DEF BackupInv, Modes, BackupLands, modeVars
  <2>3. InFlush'
    BY <1>e DEF InFlush
  <2>4. BackupComes'
    BY <2>c DEF BackupComes
  <2>5. Durable'
    BY <1>e, <2>b DEF Durable, BackupLands, storeVars, modeVars
  <2>6. BackupCovers'
    <3>1. Covers(Head(queue).data) /\ Below(Cells, Head(queue).data, Head(queue).data)
      BY <1>d, <1>g, <2>a, <2>b, Documents DEF BackupInv, StoreCovers
    <3> QED BY <1>c, <1>d, <2>c, <2>d, <3>1 DEF BackupCovers, Covers, BackupLands
  <2>7. StoreCovers'
    <3>1. Covers(mem) /\ Below(Cells, Head(queue).data, mem)
      BY <1>d, <1>g, <2>a, <2>b DEF BackupInv, StoreCovers, Ordered
    <3>2. ASSUME NEW k \in 1..Len(queue')
          PROVE  Below(SafeCells, acked', Merged(sql, queue'[k].data))
      <4>1. k + 1 \in 1..Len(queue) /\ queue'[k] = queue[k + 1] /\ 1 <= k + 1
        BY <1>e
      <4>2. Covers(queue[k + 1].data) /\ Below(Cells, Head(queue).data, queue[k + 1].data)
        BY <1>d, <2>a, <2>b, <4>1 DEF BackupInv, StoreCovers, Ordered
      <4> QED BY <1>g, <2>d, <4>1, <4>2 DEF Covers
    <3> QED BY <1>c, <1>g, <2>d, <3>1, <3>2 DEF StoreCovers, Covers, BackupLands, storeVars
  <2>8. ASSUME SqliteReadable PROVE StoreHasAll' /\ BackupHasAll' /\ NothingYet'
    <3>1. StoreHasAll'
      <4> SUFFICES ASSUME conn = "ready" PROVE StoreHasAll'
        BY DEF StoreHasAll, BackupLands, storeVars, modeVars
      <4>1. HasAll(mem) /\ Below(Cells, Head(queue).data, mem)
        BY <1>d, <1>g, <2>a, <2>b, <2>8 DEF BackupInv, StoreHasAll, Ordered
      <4>2. ASSUME NEW k \in 1..Len(queue')
            PROVE  Below(Cells, acked', queue'[k].data)
        <5>1. k + 1 \in 1..Len(queue) /\ queue'[k] = queue[k + 1] /\ 1 <= k + 1
          BY <1>e
        <5>2. HasAll(queue[k + 1].data) /\ Below(Cells, Head(queue).data, queue[k + 1].data)
          BY <1>d, <2>a, <2>b, <2>8, <5>1 DEF BackupInv, StoreHasAll, Ordered
        <5> QED BY <1>f, <1>g, <5>1, <5>2 DEF HasAll
      <4> QED BY <1>f, <1>g, <4>1, <4>2 DEF StoreHasAll, HasAll, BackupLands, storeVars
    <3>2. BackupHasAll'
      <4>1. conn = "ready" => HasAll(Head(queue).data)
        BY <1>d, <2>a, <2>b, <2>8 DEF BackupInv, StoreHasAll
      <4>2. conn = "ready" => Below(Cells, acked', Head(queue).data)
        BY <1>d, <1>f, <1>g, <4>1, Documents DEF HasAll
      <4> QED BY <1>d, <2>c, <4>2 DEF BackupHasAll, HasAll, BackupLands, storeVars, modeVars
    <3>3. NothingYet'
      BY <1>d, <2>b DEF NothingYet, BackupLands, storeVars, modeVars
    <3> QED BY <3>1, <3>2, <3>3
  <2> QED BY <1>c, <2>1, <2>2, <2>3, <2>4, <2>5, <2>6, <2>7, <2>8 DEF BackupInv
<1> QED BY <1>1, <1>2, <1>3, <1>4, <1>5, <1>6, <1>7, SameDevice DEF StorageIInv, TypedInv

LEMMA OtherFailsStep ==
    ASSUME StorageIInv, BackupFails, writing.by # "save", UNCHANGED faults
    PROVE  StorageIInv'
<1>a. edits' = edits /\ Known' = Known /\ KnownJob' = KnownJob
  BY SameEdits DEF BackupFails, storeVars, diskVars, modeVars, historyVars
<1>b. TypedInv /\ StoreShape /\ QueueShape /\ Calls /\ (OpensInOrder => Course)
  BY DEF StorageIInv
<1>c. writing # NoWrite /\ writing' = NoWrite /\ NoWrite.by = "nobody"
  BY DEF BackupFails, NoWrite
<1>d. writing' \in [data : Known, fresh : BOOLEAN, by : {"nobody", "save", "other"}]
  BY <1>b, <1>c, NothingKnown DEF TypedInv, StoreTyped
<1>1. StoreTyped' /\ ModesTyped'
  BY <1>a, <1>b
     DEF TypedInv, StoreTyped, ModesTyped, BackupFails, storeVars, diskVars, modeVars
<1>2. DisksTyped' /\ WriterTyped'
  BY <1>a, <1>b, <1>d
     DEF TypedInv, DisksTyped, WriterTyped, BackupFails, diskVars, historyVars
<1>3. StoreShape'
  BY <1>b DEF StoreShape, BackupFails, storeVars, modeVars
<1>4. QueueShape'
  BY <1>b DEF QueueShape, BackupFails, modeVars
<1>5. Calls'
  BY <1>b, <1>c DEF Calls, Running, BackupFails
<1>6. ASSUME OpensInOrder PROVE Course'
  BY <1>b, <1>6 DEF Course, Running, BackupFails, modeVars
<1>7. ASSUME BackupHolds PROVE BackupInv'
  BY <1>7 DEF BackupHolds, BackupFails
<1> QED BY <1>1, <1>2, <1>3, <1>4, <1>5, <1>6, <1>7, SameDevice DEF StorageIInv, TypedInv

LEMMA SaveFailsStep ==
    ASSUME StorageIInv, BackupFails, writing.by = "save", UNCHANGED faults
    PROVE  StorageIInv'
<1>a. edits' = edits /\ Known' = Known /\ KnownJob' = KnownJob
  BY SameEdits DEF BackupFails, Reject
<1>b. TypedInv /\ StoreShape /\ QueueShape /\ Calls /\ (OpensInOrder => Course)
  BY DEF StorageIInv
<1>c. writing # NoWrite /\ writing' = NoWrite /\ NoWrite.by = "nobody"
  BY DEF BackupFails, NoWrite
<1>d. writing' \in [data : Known, fresh : BOOLEAN, by : {"nobody", "save", "other"}]
  BY <1>b, <1>c, NothingKnown DEF TypedInv, StoreTyped
<1>e. Running("flush") /\ NoSave(chain) /\ Reject
  BY <1>b DEF Calls, BackupFails
<1>f. /\ queue # <<>> /\ queue' = Tail(queue) /\ UNCHANGED <<edits, reload>>
      /\ Head(queue) = queue[1] /\ 1 \in 1..Len(queue) /\ Head(queue).data \in Known
  BY <1>b, <1>e, HeadOfQueue DEF BackupFails, modeVars, Running, Reject
<1>g. /\ queue' \in Seq(KnownJob) /\ QueueShape'
      /\ Len(queue') \in Nat
      /\ \A k \in 1..Len(queue') :
            k + 1 \in 1..Len(queue) /\ 1 <= k + 1 /\ queue'[k] = queue[k + 1]
      /\ \A step \in {"sqlite", "clear", "mark", "flush"} : ~Running(step)'
  BY <1>b, <1>f, Ended DEF Running
<1>h. /\ retained' \in [version : 0..edits, data : Known] /\ ~fetch.there /\ mem # NoDoc
      /\ UNCHANGED <<mem, edits, fetch, historyVars>>
  BY <1>b, <1>f, <1>e, Rejected DEF Reject
<1>1. StoreTyped' /\ ModesTyped'
  BY <1>a, <1>b, <1>g, <1>h
     DEF TypedInv, StoreTyped, ModesTyped, BackupFails, diskVars, modeVars
<1>2. DisksTyped' /\ WriterTyped'
  BY <1>a, <1>b, <1>h, <1>d
     DEF TypedInv, DisksTyped, WriterTyped, BackupFails, diskVars, historyVars
<1>3. StoreShape'
  BY <1>b, <1>h DEF StoreShape, BackupFails, modeVars
<1>4. QueueShape'
  BY <1>g
<1>5. Calls'
  BY <1>b, <1>c DEF Calls, BackupFails
<1>6. ASSUME OpensInOrder PROVE Course'
  BY <1>b, <1>6, <1>g DEF Course, BackupFails, modeVars
<1>7. ASSUME BackupHolds PROVE BackupInv'
  BY <1>7 DEF BackupHolds, BackupFails
<1> QED BY <1>1, <1>2, <1>3, <1>4, <1>5, <1>6, <1>7, SameDevice DEF StorageIInv, TypedInv

LEMMA CrashStep ==
    ASSUME StorageIInv, Crash, UNCHANGED faults
    PROVE  StorageIInv'
<1>a. edits' = edits /\ Known' = Known /\ KnownJob' = KnownJob
  BY SameEdits DEF Crash
<1>b. TypedInv /\ StoreShape /\ QueueShape /\ Calls /\ (OpensInOrder => Course)
  BY DEF StorageIInv
<1>c. SafeCells' = SafeCells /\ (SqliteReadable' <=> SqliteReadable)
  BY SameDevice
<1>d. /\ json \in Known /\ writing.data \in Known /\ json' \in {json, writing.data}
      /\ (json' # json => writing # NoWrite /\ json' = writing.data)
  BY <1>b DEF TypedInv, DisksTyped, WriterTyped, Crash
<1>e. /\ edits \in Nat /\ NoDoc \notin Known /\ NoWrite.by = "nobody"
      /\ ~NoRead.there /\ ~NoRead.canonical
      /\ NoRead \in [data : Known, canonical : BOOLEAN, there : BOOLEAN]
      /\ NoSnapshot \in [version : 0..edits, data : Known]
      /\ NoWrite \in [data : Known, fresh : BOOLEAN, by : {"nobody", "save", "other"}]
  BY <1>b, NothingKnown DEF TypedInv, StoreTyped, NoWrite, NoRead
<1>f. queue' = <<>> /\ Len(queue') = 0 /\ queue' \in Seq(KnownJob)
  BY DEF Crash
<1>1. StoreTyped' /\ ModesTyped'
  <2>1. StoreTyped'
    BY <1>a, <1>b, <1>e, <1>f DEF TypedInv, StoreTyped, Crash
  <2>2. ModesTyped'
    BY <1>b DEF TypedInv, ModesTyped, Crash
  <2> QED BY <2>1, <2>2
<1>2. DisksTyped' /\ WriterTyped'
  BY <1>a, <1>b, <1>e DEF TypedInv, DisksTyped, WriterTyped, Crash
<1>3. StoreShape'
  BY <1>e DEF StoreShape, Crash
<1>4. QueueShape'
  BY DEF QueueShape, Crash
<1>5. Calls'
  <2>1. chain' = <<>> /\ writing'.by # "save"
    BY <1>e DEF Crash
  <2> QED BY <2>1 DEF Calls, NoSave, OneSave
<1>6. ASSUME OpensInOrder PROVE Course'
  BY DEF Course, Running, Crash
<1>7. ASSUME BackupHolds PROVE BackupInv'
  <2>a. OpensInOrder /\ Course /\ BackupInv
    BY <1>6, <1>7 DEF StorageIInv, BackupHolds
  <2>1. Ordered'
    BY <1>b, <2>a, <1>d, <1>e, <1>f DEF BackupInv, Ordered, StoreShape, Crash
  <2>2. Modes'
    BY <2>a DEF BackupInv, Modes, Running, Crash
  <2>3. InFlush'
    BY <2>a DEF BackupInv, InFlush, Running, Crash
  <2>4. BackupComes'
    BY <2>a DEF BackupInv, BackupComes, Crash
  <2>5. Durable'
    BY <1>c, <2>a DEF BackupInv, Durable, Running, Crash
  <2>6. BackupCovers'
    BY <1>c, <2>a DEF BackupInv, BackupCovers, Covers, Crash
  <2>7. StoreCovers'
    BY <2>a, <1>e DEF BackupInv, StoreCovers, Covers, Crash
  <2>8. ASSUME SqliteReadable PROVE StoreHasAll' /\ BackupHasAll' /\ NothingYet'
    <3>1. StoreHasAll'
      BY <2>a DEF BackupInv, StoreHasAll, HasAll, Crash
    <3>2. BackupHasAll'
      BY <2>a DEF BackupInv, BackupHasAll, HasAll, Crash
    <3>3. NothingYet'
      BY <2>a, <1>e DEF BackupInv, NothingYet, Crash
    <3> QED BY <3>1, <3>2, <3>3
  <2> QED BY <1>c, <2>1, <2>2, <2>3, <2>4, <2>5, <2>6, <2>7, <2>8 DEF BackupInv
<1> QED BY <1>1, <1>2, <1>3, <1>4, <1>5, <1>6, <1>7, SameDevice DEF StorageIInv, TypedInv

-----------------------------------------------------------------------------
(* A first launch. *)
LEMMA StorageInvInit ==
    ASSUME StorageInit
    PROVE  StorageIInv
<1>1. /\ edits = 0 /\ edits \in 0..MaxEdits /\ crashes \in 0..MaxCrashes
      /\ Empty \in Known /\ NoDoc \notin Known /\ mem = NoDoc /\ sql = Empty /\ json = Empty
      /\ acked = Empty /\ SafeCells \in SUBSET Cells
  BY CellsAndNoDoc, SafeCellsAreCells DEF StorageInit, Known
<1>2. /\ NoRead \in [data : Known, canonical : BOOLEAN, there : BOOLEAN]
      /\ NoSnapshot \in [version : 0..edits, data : Known]
      /\ NoWrite \in [data : Known, fresh : BOOLEAN, by : {"nobody", "save", "other"}]
      /\ ~NoRead.there /\ ~NoRead.canonical /\ NoWrite.by = "nobody"
  BY <1>1, NothingKnown DEF NoRead, NoWrite
<1>3. /\ queue = <<>> /\ Len(queue) = 0 /\ queue \in Seq(KnownJob)
      /\ chain = <<>> /\ Len(chain) = 0
  BY DEF StorageInit
<1>4. StoreTyped /\ DisksTyped /\ ModesTyped /\ WriterTyped
  <2>1. StoreTyped
    BY <1>1, <1>2, <1>3 DEF StorageInit, StoreTyped
  <2>2. DisksTyped /\ ModesTyped
    BY <1>1 DEF StorageInit, DisksTyped, ModesTyped
  <2>3. chain \in Seq({"save", "other"})
    BY <1>3
  <2>4. WriterTyped
    BY <1>1, <1>2, <2>3 DEF StorageInit, WriterTyped
  <2> QED BY <2>1, <2>2, <2>4
<1>5. StoreShape /\ QueueShape
  BY <1>2, <1>3 DEF StorageInit, StoreShape, QueueShape
<1>6. Calls
  BY <1>2, <1>3 DEF StorageInit, Calls, NoSave, OneSave
<1>7. Course
  BY <1>3 DEF StorageInit, Course, Running
<1>8. Below(SafeCells, Empty, Empty) /\ Below(SafeCells, Empty, Merged(Empty, Empty))
  BY <1>1, Documents
<1>9. BackupInv
  <2>1. Ordered /\ Modes /\ InFlush /\ BackupComes
    BY <1>3 DEF StorageInit, Ordered, Modes, InFlush, BackupComes, Running
  <2>2. Durable
    BY <1>1, <1>3, <1>8 DEF Durable, Running
  <2>3. BackupCovers
    BY <1>1, <1>8 DEF BackupCovers, Covers, StorageInit
  <2>4. StoreCovers
    BY <1>1, <1>2, <1>3 DEF StorageInit, StoreCovers
  <2>5. StoreHasAll /\ BackupHasAll /\ NothingYet
    BY <1>2 DEF StorageInit, StoreHasAll, BackupHasAll, NothingYet
  <2> QED BY <2>1, <2>2, <2>3, <2>4, <2>5 DEF BackupInv
<1> QED BY <1>4, <1>5, <1>6, <1>7, <1>9 DEF StorageIInv, TypedInv

LEMMA StorageInvStep ==
    ASSUME StorageIInv, [StorageNext]_storageVars
    PROVE  StorageIInv'
<1>1. CASE UNCHANGED storageVars
  <2>1. UNCHANGED <<mem, edits, retained, queue, sql, json, marker, ahead, prefer, conn, reload,
                    fetch, read, pending, chain, writing, fresh, acked, crashes, faults>>
    BY <1>1 DEF storageVars, storeVars, diskVars, backupVars, modeVars, historyVars
  <2>2. Known' = Known /\ KnownJob' = KnownJob /\ SafeCells' = SafeCells
    BY <2>1, SameEdits, SameDevice
  <2>3. TypedInv'
    BY <2>1, <2>2
       DEF StorageIInv, TypedInv, StoreTyped, DisksTyped, ModesTyped, WriterTyped
  <2>4. StoreShape' /\ QueueShape' /\ Calls'
    BY <2>1 DEF StorageIInv, StoreShape, QueueShape, Calls, Running
  <2>5. OpensInOrder => Course'
    BY <2>1 DEF StorageIInv, Course, Running
  <2>6. ASSUME BackupHolds PROVE BackupInv'
    <3>1. BackupInv
      BY <2>6 DEF StorageIInv
    <3>2. Ordered' /\ Modes' /\ InFlush' /\ BackupComes'
      BY <2>1, <3>1 DEF BackupInv, Ordered, Modes, InFlush, BackupComes, Running
    <3>3. Durable' /\ BackupCovers' /\ StoreCovers'
      BY <2>1, <2>2, <3>1 DEF BackupInv, Durable, BackupCovers, StoreCovers, Covers, Running
    <3>4. SqliteReadable => StoreHasAll' /\ BackupHasAll' /\ NothingYet'
      BY <2>1, <3>1 DEF BackupInv, StoreHasAll, BackupHasAll, NothingYet, HasAll, Running
    <3> QED BY <2>1, <3>2, <3>3, <3>4, SameDevice DEF BackupInv
  <2> QED BY <2>1, <2>3, <2>4, <2>5, <2>6, SameDevice DEF StorageIInv
<1>2. CASE StorageNext
  <2>1. Step /\ UNCHANGED faults
    BY <1>2 DEF StorageNext
  <2>2. CASE WriteNext
    BY <2>1, <2>2, WriteNextStep
  <2>3. CASE NothingToWrite
    BY <2>1, <2>3, SaveFindsNothingStep, OtherFindsNothingStep
  <2>4. CASE Crash
    BY <2>1, <2>4, CrashStep
  <2>5. CASE \E r \in Rows : EditRow(r)
    BY <2>1, <2>5, EditRowStep
  <2>6. CASE \E c \in Cells : EditSnapshot(c)
    BY <2>1, <2>6, EditSnapshotStep
  <2>7. CASE FlushStore
    BY <2>1, <2>7, FlushStoreStep
  <2>8. CASE Save
    BY <2>1, <2>8, StartSaveStep, RefuseSaveStep, CommitRowStep, CommitSnapshotStep,
       ClearMarkerStep, SqliteRefusesStep, MarkAheadStep, MarkFailsStep DEF Save
  <2>9. CASE FlushBackup
    BY <2>1, <2>9, FlushBackupStep
  <2>10. CASE BackupLands
    BY <2>1, <2>10, OtherLandsStep, SaveWritesOnStep, SaveLandsStep
  <2>11. CASE BackupFails
    BY <2>1, <2>11, OtherFailsStep, SaveFailsStep
  <2>12. CASE Open
    BY <2>1, <2>12, OpenCleanStep, RecoverBackupStep, EndRecoveryStep, RecoveryRefusedStep,
       QuarantineStep, OpenFailsStep, ReopenStep DEF Open
  <2>13. CASE Read
    BY <2>1, <2>13, LoadBackupStep, LoadSqliteStep, LoadFallbackStep, ApplyLoadStep,
       OtherReadsStep, OtherHasReadStep, PreferenceEndsStep DEF Read
  <2> QED BY <2>1, <2>2, <2>3, <2>4, <2>5, <2>6, <2>7, <2>8, <2>9, <2>10, <2>11, <2>12,
             <2>13
          DEF Step
<1> QED BY <1>1, <1>2

LEMMA StorageInvImplies ==
    ASSUME StorageIInv
    PROVE  StorageInv
<1>1. TypedInv
  BY DEF StorageIInv
<1>2. edits \in 0..MaxEdits /\ MaxEdits \in Nat /\ 0..edits \subseteq 0..MaxEdits
  BY <1>1 DEF TypedInv, StoreTyped
<1>3. Known \subseteq Doc
  BY <1>2 DEF Known, Doc
<1>4. KnownJob \subseteq Job
  BY <1>2, <1>3 DEF KnownJob, Job
<1>5. Seq(KnownJob) \subseteq Seq(Job)
  BY <1>4
<1>6. [version : 0..edits, data : Known] \subseteq Snapshot
  BY <1>2, <1>3 DEF Snapshot
<1>7. retained \in Snapshot /\ queue \in Seq(Job) /\ edits \in 0..MaxEdits
  BY <1>1, <1>5, <1>6 DEF TypedInv, StoreTyped
<1>8. /\ mem \in Doc \cup {NoDoc} /\ read \in Doc \cup {NoDoc} /\ pending \in Doc \cup {NoDoc}
      /\ sql \in Doc /\ json \in Doc /\ acked \in Doc /\ crashes \in 0..MaxCrashes
  BY <1>1, <1>3 DEF TypedInv, StoreTyped, DisksTyped, WriterTyped
<1>9. /\ fetch \in [data : Doc, canonical : BOOLEAN, there : BOOLEAN]
      /\ writing \in [data : Doc, fresh : BOOLEAN, by : {"nobody", "save", "other"}]
  BY <1>1, <1>3 DEF TypedInv, StoreTyped, WriterTyped
<1>10. StorageTypeOK
  BY <1>1, <1>7, <1>8, <1>9 DEF StorageTypeOK, TypedInv, ModesTyped, WriterTyped
<1>11. AcknowledgedSurvives
  BY DEF AcknowledgedSurvives, StorageIInv, BackupInv, Durable, BackupCovers, Covers, Below,
         Recoverable
<1>12. LoadsAcknowledged
  BY DEF LoadsAcknowledged, StorageIInv, BackupInv, StoreHasAll, HasAll, Below
<1> QED BY <1>10, <1>11, <1>12 DEF StorageInv

(* A save is acknowledged only while no reload is required. *)
LEMMA NoSaveStep ==
    ASSUME StorageIInv, [StorageNext]_storageVars, reload, OpensInOrder
    PROVE  acked' = acked
<1>1. Calls /\ Course
  BY DEF StorageIInv
<1>2. ~Running("clear") /\ ~Running("mark") /\ ~Running("flush")
  BY <1>1 DEF Course
<1>3. CASE UNCHANGED storageVars
  BY <1>3 DEF storageVars, historyVars
<1>4. CASE StorageNext
  <2>1. Step
    BY <1>4 DEF StorageNext
  <2>2. CASE NothingToWrite
    <3>1. chain \in Seq({"save", "other"}) /\ chain # <<>> /\ NoSave(chain)
      BY <1>1, <1>2, <2>2 DEF Calls, NothingToWrite, StorageIInv, TypedInv, WriterTyped
    <3>2. Head(chain) # "save"
      BY <3>1, CallsOnChain
    <3> QED BY <2>2, <3>2 DEF NothingToWrite, FlushReturns, historyVars
  <2>3. CASE BackupLands
    BY <1>1, <1>2, <2>3 DEF Calls, BackupLands, FlushReturns, historyVars
  <2>4. CASE Save
    <3>1. ~CommitRow /\ ~CommitSnapshot /\ ~ClearMarker
      BY <1>2 DEF CommitRow, CommitSnapshot, ClearMarker, WritesAllowed
    <3> QED BY <2>4, <3>1
               DEF Save, StartSave, RefuseSave, SqliteRefuses, MarkAhead, MarkFails,
                              Reject, historyVars
  <2>5. CASE WriteNext \/ Crash \/ FlushBackup \/ BackupFails
    BY <2>5 DEF WriteNext, Crash, FlushBackup, BackupFails, Reject, historyVars
  <2>6. CASE (\E r \in Rows : EditRow(r)) \/ (\E c \in Cells : EditSnapshot(c)) \/ FlushStore
    BY <2>6 DEF EditRow, EditSnapshot, FlushStore, historyVars
  <2>7. CASE Open
    BY <2>7 DEF Open, OpenClean, RecoverBackup, EndRecovery, RecoveryRefused, Quarantine,
                OpenFails, Reopen, Opening, historyVars
  <2>8. CASE Read
    BY <2>8
       DEF Read, LoadBackup, LoadSqlite, LoadFallback, ApplyLoad, OtherReads, OtherHasRead,
                PreferenceEnds, historyVars
  <2> QED BY <2>1, <2>2, <2>3, <2>4, <2>5, <2>6, <2>7, <2>8 DEF Step
<1> QED BY <1>3, <1>4

(* StorageInv: whatever dies, fails to open or refuses a write, a save that   *)
(* was reported as done is on the disk where the next launch looks for it,    *)
(* and a load that the store may go on from has it.                           *)
THEOREM StorageCorrect == StorageSpec => []StorageInv
<1>1. StorageInit => StorageIInv
  BY StorageInvInit
<1>2. StorageIInv /\ [StorageNext]_storageVars => StorageIInv'
  BY StorageInvStep
<1>3. StorageIInv => StorageInv
  BY StorageInvImplies
<1> QED BY <1>1, <1>2, <1>3, PTL DEF StorageSpec

(* NoSaveBeforeReload: as long as the store has not reloaded what the backup  *)
(* had, assertSqliteWritesAllowed lets no save be reported as done.           *)
THEOREM QuarantineHolds == StorageSpec => NoSaveBeforeReload
<1>1. StorageInit => StorageIInv
  BY StorageInvInit
<1>2. StorageIInv /\ [StorageNext]_storageVars => StorageIInv'
  BY StorageInvStep
<1>3. StorageIInv /\ [StorageNext]_storageVars
         => [reload /\ OpensInOrder => acked' = acked]_storageVars
  BY NoSaveStep
<1> QED BY <1>1, <1>2, <1>3, PTL DEF StorageSpec, NoSaveBeforeReload

HIDE FaultsAssumption

-----------------------------------------------------------------------------
(* THE CONTROLLER, for any intervals, ceilings and delays a backend asks for. *)

USE TimesAssumption, MobileAssumption

TimersInv ==
    /\ debounce \in -2..Larger(DebounceFirst, DebounceContinuous)
    /\ initial \in -1..InitialDelay
    /\ periodic \in -1..PeriodicInterval

(* While the backend is to be left alone the controller is cooling down.      *)
PacingInv ==
    /\ sinceSync \in 0..Long /\ sinceFocus \in 0..Long
    /\ failures \in 0..AttemptCap /\ stretch \in 0..AdaptiveMax
    /\ cooldown \in Int /\ cooldown >= -1 /\ WithinCooldown(cooldown)
    /\ asked \in Nat /\ (asked > 0 => cooldown >= asked)

FlagsInv ==
    /\ suspended \in BOOLEAN /\ requestedWhileSuspended \in BOOLEAN /\ disposed \in BOOLEAN
    /\ unsynced \in BOOLEAN /\ carried \in BOOLEAN

(* What a throttle timer, a cycle and a follow-up may be together.  A user's  *)
(* follow-up asks for no interval, so that it never arms the timer.           *)
Consistent(timer, c, follow, waits) ==
    /\ timer \in Int /\ timer >= -1 /\ WithinWait(timer)
    /\ cooldown > 0 /\ ~disposed => timer = cooldown
    /\ c \in [phase : {"none", "gates", "syncing", "checked", "settled"},
              manual : BOOLEAN, since : 0..Long, suspended : BOOLEAN]
    /\ c.phase \in {"gates", "syncing", "checked"} /\ ~c.manual => asked = 0
    /\ follow \in Requests \cup {NoRequest}
    /\ follow # NoRequest => c.phase # "none"
    /\ follow.manual => follow.min = 0
    /\ waits \in BOOLEAN

PaceInv == TimersInv /\ PacingInv /\ FlagsInv /\ Consistent(throttle, cycle, queued, userWaits)

-----------------------------------------------------------------------------
(* Cool-downs *)

LEMMA Times ==
    /\ MinInterval \in Nat /\ FocusMinInterval \in Nat /\ FocusDedupe \in Nat
    /\ DebounceFirst \in Nat /\ DebounceContinuous \in Nat /\ InitialDelay \in Nat
    /\ PeriodicInterval \in Nat /\ AdaptiveMultiplier \in Nat /\ AdaptiveMax \in Nat
    /\ Long \in Nat
  OBVIOUS

(* The doubling of a cool-down never makes it less than it was.               *)
LEMMA PowerOfTwo ==
    ASSUME NEW n \in Nat
    PROVE  2 ^ n \in Nat /\ 2 ^ n >= 1
<1> DEFINE subsets == Cardinality(SUBSET (1..n))
<1>1. IsFiniteSet(1..n) /\ Cardinality(1..n) = n
  <2>1. 1 \in Int /\ n \in Int
    OBVIOUS
  <2>2. IsFiniteSet(1..n) /\ Cardinality(1..n) = IF 1 > n THEN 0 ELSE n - 1 + 1
    BY <2>1, FS_Interval, Zenon
  <2> QED BY <2>2
<1>2. IsFiniteSet(SUBSET (1..n)) /\ subsets = 2 ^ n
  BY <1>1, FS_SUBSET
<1>3. subsets \in Nat /\ subsets # 0
  <2>1. {} \in SUBSET (1..n)
    OBVIOUS
  <2>2. SUBSET (1..n) # {}
    BY <2>1
  <2> QED BY <1>2, <2>2, FS_CardinalityType, FS_EmptySet
<1> HIDE DEF subsets
<1>4. subsets >= 1
  BY <1>3
<1> QED BY <1>2, <1>3, <1>4

(* resolveSyncFailureCooldownMs: at least what the backend asked for, and no  *)
(* more than the ceiling or that.                                             *)
LEMMA CooldownBounds ==
    ASSUME NEW attempt \in Nat \ {0}, NEW retryAfter \in RetryAfters
    PROVE  /\ CooldownAfter(attempt, retryAfter) \in Nat \ {0}
           /\ CooldownAfter(attempt, retryAfter) >= retryAfter
           /\ WithinCooldown(CooldownAfter(attempt, retryAfter))
<1> DEFINE p == 2 ^ (attempt - 1)
<1>1. p \in Nat /\ p >= 1
  BY PowerOfTwo
<1> HIDE DEF p
<1>2. \A d \in Nat : d * p \in Nat /\ d * p >= d
  BY <1>1
<1>3. CASE retryAfter = 0
  <2>1. CooldownAfter(attempt, retryAfter) = Smaller(CooldownMax, CooldownBase * p)
    BY <1>3 DEF CooldownAfter, p
  <2> QED BY <1>2, <1>3, <2>1 DEF Smaller, WithinCooldown
<1>4. CASE retryAfter # 0
  <2>1. CooldownAfter(attempt, retryAfter)
            = Smaller(Larger(CooldownMax, retryAfter), retryAfter * p)
    BY <1>4 DEF CooldownAfter, p
  <2>2. retryAfter \in Nat /\ retryAfter * p \in Nat /\ retryAfter * p >= retryAfter
    BY <1>2
  <2> QED BY <1>4, <2>1, <2>2 DEF Smaller, Larger, WithinCooldown
<1> QED BY <1>3, <1>4

(* A wait that has gone by a little is within the same bounds.                *)
LEMMA Elapsed ==
    ASSUME NEW time \in Int, time >= -1
    PROVE  /\ Less(time) \in Int /\ Less(time) >= -1 /\ Less(time) <= time
           /\ WithinCooldown(time) => WithinCooldown(Less(time))
           /\ WithinWait(time) => WithinWait(Less(time))
  BY DEF Less, WithinCooldown, WithinWait

-----------------------------------------------------------------------------
(* Requests *)

(* A request keeps the retry armed, and starts no automatic cycle while the   *)
(* controller is cooling down.                                                *)
LEMMA RunCycleStep ==
    ASSUME PacingInv, FlagsInv, NEW timer, NEW waits \in BOOLEAN,
           Consistent(timer, NoCycle, NoRequest, waits), userWaits \in BOOLEAN,
           NEW request \in Requests, request.manual => request.min = 0,
           RunCycle(request, timer)
    PROVE  Consistent(throttle', cycle', NoRequest, userWaits')
<1>1. /\ EffectiveMinInterval(request.min) \in Nat
      /\ EffectiveMinInterval(request.min) <= MinInterval
         \/ EffectiveMinInterval(request.min) <= AdaptiveMax
      /\ request.min = 0 => EffectiveMinInterval(request.min) = 0
  BY DEF EffectiveMinInterval, Larger, PacingInv, Requests
<1>2. NoRequest.manual = FALSE /\ NoCycle.phase = "none"
  BY DEF NoRequest, NoCycle
<1>3. CASE /\ Cooling(request)
           /\ throttle' = ArmedFor(timer, cooldown)
           /\ cycle' = NoCycle
           /\ UNCHANGED userWaits
  BY <1>3 DEF Consistent, Cooling, ArmedFor, Armed, PacingInv, WithinWait
<1>4. CASE /\ ~Cooling(request)
           /\ TooSoon(request)
           /\ throttle' = ArmedFor(timer, EffectiveMinInterval(request.min) - sinceSync)
           /\ cycle' = NoCycle
           /\ UNCHANGED userWaits
  <2>1. cooldown <= 0
    BY <1>1, <1>4 DEF Cooling, TooSoon, PacingInv, Requests
  <2>2. throttle' \in Int /\ throttle' >= -1 /\ WithinWait(throttle')
    BY <1>1, <1>4 DEF Consistent, TooSoon, ArmedFor, Armed, WithinWait, PacingInv
  <2> QED BY <1>4, <2>1, <2>2 DEF Consistent, PacingInv
<1>5. CASE /\ ~Cooling(request)
           /\ ~TooSoon(request)
           /\ throttle' = timer
           /\ cycle' = [phase |-> "gates", manual |-> request.manual, since |-> 0,
                        suspended |-> suspended]
           /\ userWaits' = FALSE
  <2>1. ~request.manual => asked = 0
    BY <1>5 DEF Cooling, PacingInv
  <2>2. cycle' \in [phase : {"none", "gates", "syncing", "checked", "settled"},
                    manual : BOOLEAN, since : 0..Long, suspended : BOOLEAN]
        /\ cycle'.manual = request.manual
    BY <1>5 DEF FlagsInv, Requests
  <2> QED BY <1>2, <1>5, <2>1, <2>2 DEF Consistent
<1> QED BY <1>3, <1>4, <1>5 DEF RunCycle

(* Without a cycle and a follow-up everything else is still consistent.       *)
LEMMA AtRest ==
    ASSUME NEW timer, NEW c, NEW follow, NEW waits, Consistent(timer, c, follow, waits)
    PROVE  Consistent(timer, NoCycle, NoRequest, waits)
  BY DEF Consistent, NoCycle, NoRequest

(* autoSyncOrchestrator.run: a request joins the cycle in flight or starts.   *)
LEMMA RunStep ==
    ASSUME PacingInv, FlagsInv, NEW timer, Consistent(timer, cycle, queued, userWaits),
           NEW request \in Requests, request.manual => request.min = 0,
           Run(request, timer)
    PROVE  Consistent(throttle', cycle', queued', userWaits')
<1>1. CASE InFlight
  BY <1>1 DEF Run, InFlight, Consistent, Requests
<1>2. CASE ~InFlight
  <2>1. queued' = NoRequest
    BY <1>2 DEF Run, InFlight, Consistent
  <2>2. Consistent(throttle', cycle', NoRequest, userWaits')
    <3>1. RunCycle(request, timer)
      BY <1>2 DEF Run
    <3>2. userWaits \in BOOLEAN
      BY DEF Consistent
    <3> QED BY <3>1, <3>2, AtRest, RunCycleStep
  <2> QED BY <2>1, <2>2
<1> QED BY <1>1, <1>2

(* requestAutoSync                                                            *)
LEMMA RequestStep ==
    ASSUME PacingInv, FlagsInv, NEW timer, Consistent(timer, cycle, queued, userWaits),
           NEW min \in {0, MinInterval}, NEW retry,
           RequestAutoSync(min, retry, timer)
    PROVE  /\ Consistent(throttle', cycle', queued', userWaits')
           /\ requestedWhileSuspended' \in BOOLEAN
<1>1. requestedWhileSuspended' \in BOOLEAN
  BY DEF RequestAutoSync, FlagsInv
<1>2. CASE retry /\ Mobile /\ InFlight
  BY <1>1, <1>2 DEF RequestAutoSync
<1>3. CASE ~(retry /\ Mobile /\ InFlight) /\ cooldown > 0
  BY <1>1, <1>3 DEF RequestAutoSync, Consistent, ArmedFor, Armed, PacingInv, WithinWait
<1>4. CASE ~(retry /\ Mobile /\ InFlight) /\ ~(cooldown > 0)
  <2>1. Run([min |-> min, manual |-> FALSE], timer)
    BY <1>4 DEF RequestAutoSync
  <2>2. [min |-> min, manual |-> FALSE] \in Requests
        /\ ~[min |-> min, manual |-> FALSE].manual
    BY DEF Requests
  <2> QED BY <1>1, <2>1, <2>2, RunStep
<1> QED BY <1>2, <1>3, <1>4

-----------------------------------------------------------------------------
(* The triggers *)

(* What the steps of the controller's triggers leave alone. *)
LEMMA TriggerStep ==
    ASSUME PaceInv, NEW timer, Consistent(timer, cycle, queued, userWaits),
           NEW min \in {0, MinInterval}, NEW retry, RequestAutoSync(min, retry, timer),
           TimersInv', sinceFocus' \in 0..Long, suspended' \in BOOLEAN,
           UNCHANGED <<sinceSync, cooldown, failures, stretch, disposed, unsynced,
                       carried, asked>>
    PROVE  PaceInv'
<1>1. Consistent(throttle', cycle', queued', userWaits') /\ requestedWhileSuspended' \in BOOLEAN
  BY RequestStep DEF PaceInv
<1>2. PacingInv'
  BY DEF PaceInv, PacingInv, WithinCooldown
<1>3. FlagsInv'
  BY <1>1 DEF PaceInv, FlagsInv
<1> QED BY <1>1, <1>2, <1>3 DEF PaceInv, Consistent, WithinWait, WithinCooldown

(* Steps that change no timer but the throttle, and neither the pacing nor    *)
(* the flags.                                                                 *)
LEMMA QuietStep ==
    ASSUME PaceInv, UNCHANGED <<pacing, disposed, asked>>, TimersInv', suspended' \in BOOLEAN,
           requestedWhileSuspended' \in BOOLEAN, unsynced' \in BOOLEAN, carried' \in BOOLEAN,
           Consistent(throttle', cycle', queued', userWaits')
    PROVE  PaceInv'
<1>1. PacingInv'
  BY DEF PaceInv, PacingInv, WithinCooldown, pacing
<1>2. FlagsInv'
  BY DEF PaceInv, FlagsInv
<1> QED BY <1>1, <1>2 DEF PaceInv, Consistent, WithinWait, WithinCooldown, pacing

LEMMA SameTimers ==
    ASSUME PaceInv, UNCHANGED timers
    PROVE  TimersInv'
  BY DEF PaceInv, TimersInv, timers

(* requestSync, the user's. *)
LEMMA RequestSyncStep == PaceInv /\ RequestSync => PaceInv'
<1> SUFFICES ASSUME PaceInv, RequestSync PROVE PaceInv'
  OBVIOUS
<1>1. [min |-> 0, manual |-> TRUE] \in Requests /\ [min |-> 0, manual |-> TRUE].min = 0
  BY DEF Requests
<1>2. Consistent(throttle', cycle', queued', userWaits')
  BY <1>1, RunStep DEF RequestSync, PaceInv
<1> QED BY <1>2, QuietStep, SameTimers DEF RequestSync, work, PaceInv, FlagsInv

LEMMA EditStep == PaceInv /\ Edit => PaceInv'
<1> SUFFICES ASSUME PaceInv, Edit PROVE PaceInv'
  OBVIOUS
<1>1. TimersInv'
  BY Times DEF Edit, PaceInv, TimersInv, Larger
<1> QED BY <1>1, QuietStep DEF Edit, PaceInv, FlagsInv

LEMMA DebounceStep == PaceInv /\ DebounceFires => PaceInv'
<1> SUFFICES ASSUME PaceInv, DebounceFires PROVE PaceInv'
  OBVIOUS
<1>1. TimersInv'
  BY Times DEF DebounceFires, PaceInv, TimersInv, NoTimer, Larger
<1> QED BY <1>1, TriggerStep DEF DebounceFires, PaceInv, PacingInv, FlagsInv, pacing, work

(* The throttle timer has fired, and the controller is not cooling down.      *)
LEMMA ThrottleStep == PaceInv /\ ThrottleFires => PaceInv'
<1> SUFFICES ASSUME PaceInv, ThrottleFires PROVE PaceInv'
  OBVIOUS
<1>1. Consistent(NoTimer, cycle, queued, userWaits)
  BY DEF ThrottleFires, PaceInv, PacingInv, Consistent, NoTimer, WithinWait
<1>2. TimersInv'
  BY SameTimers DEF ThrottleFires
<1>3. CASE disposed
  <2>1. Consistent(throttle', cycle', queued', userWaits')
    BY <1>1, <1>3 DEF ThrottleFires
  <2> QED BY <1>2, <1>3, <2>1, QuietStep DEF ThrottleFires, work, PaceInv, FlagsInv
<1>4. CASE ~disposed
  BY <1>1, <1>2, <1>4, TriggerStep DEF ThrottleFires, PaceInv, PacingInv, FlagsInv, pacing, work
<1> QED BY <1>3, <1>4

LEMMA InitialStep == PaceInv /\ InitialFires => PaceInv'
<1> SUFFICES ASSUME PaceInv, InitialFires PROVE PaceInv'
  OBVIOUS
<1>1. TimersInv'
  BY Times DEF InitialFires, PaceInv, TimersInv, NoTimer
<1> QED BY <1>1, TriggerStep DEF InitialFires, PaceInv, PacingInv, FlagsInv, pacing, work

LEMMA PeriodicStep ==
    ASSUME PaceInv, NEW paused, PeriodicFires(paused)
    PROVE  PaceInv'
<1>1. TimersInv'
  BY Times DEF PeriodicFires, PaceInv, TimersInv
<1>2. CASE paused
  <2>1. Consistent(throttle', cycle', queued', userWaits')
    BY <1>2 DEF PeriodicFires, PaceInv
  <2> QED BY <1>1, <1>2, <2>1, QuietStep DEF PeriodicFires, work, PaceInv, FlagsInv
<1>3. CASE ~paused
  BY <1>1, <1>3, TriggerStep DEF PeriodicFires, PaceInv, PacingInv, FlagsInv, pacing, work
<1> QED BY <1>2, <1>3

LEMMA FocusStep == PaceInv /\ HandleFocus => PaceInv'
<1> SUFFICES ASSUME PaceInv, HandleFocus PROVE PaceInv'
  OBVIOUS
<1>1. TimersInv'
  BY SameTimers DEF HandleFocus
<1>2. sinceFocus' \in 0..Long
  BY Times DEF HandleFocus
<1> QED BY <1>1, <1>2, TriggerStep DEF HandleFocus, PaceInv, FlagsInv, work

LEMMA BlurStep == PaceInv /\ HandleBlur => PaceInv'
<1> SUFFICES ASSUME PaceInv, HandleBlur PROVE PaceInv'
  OBVIOUS
<1>1. TimersInv'
  BY SameTimers DEF HandleBlur
<1> QED BY <1>1, TriggerStep DEF HandleBlur, PaceInv, PacingInv, FlagsInv, pacing, work

LEMMA DisposeStep == PaceInv /\ Dispose => PaceInv'
<1> SUFFICES ASSUME PaceInv, Dispose PROVE PaceInv'
  OBVIOUS
<1>1. TimersInv'
  BY Times DEF Dispose, TimersInv, NoTimer, Larger
<1>2. PacingInv'
  BY DEF Dispose, PaceInv, PacingInv, WithinCooldown, pacing
<1>3. FlagsInv'
  BY DEF Dispose, PaceInv, FlagsInv, work
<1>4. throttle' \in Int /\ throttle' >= -1 /\ WithinWait(throttle)'
  BY Times DEF Dispose, WithinWait, NoTimer
<1>5. Consistent(throttle, cycle, queued, userWaits)'
  BY <1>4 DEF Dispose, PaceInv, Consistent, NoRequest, Requests, pacing
<1> QED BY <1>1, <1>2, <1>3, <1>5 DEF PaceInv

-----------------------------------------------------------------------------
(* The cycle *)

Phases == {"none", "gates", "syncing", "checked", "settled"}

(* A cycle goes on to its next phase. *)
LEMMA NextPhase ==
    ASSUME NEW c, NEW p \in Phases,
           c \in [phase : Phases, manual : BOOLEAN, since : 0..Long, suspended : BOOLEAN]
    PROVE  /\ [c EXCEPT !.phase = p] \in [phase : Phases, manual : BOOLEAN, since : 0..Long,
                                         suspended : BOOLEAN]
           /\ [c EXCEPT !.phase = p].phase = p
           /\ [c EXCEPT !.phase = p].manual = c.manual
  OBVIOUS

(* One that has settled is over. *)
LEMMA Settled ==
    /\ SettledCycle \in [phase : Phases, manual : BOOLEAN, since : 0..Long, suspended : BOOLEAN]
    /\ SettledCycle.phase = "settled"
<1>1. NoCycle \in [phase : Phases, manual : BOOLEAN, since : 0..Long, suspended : BOOLEAN]
  BY Times DEF NoCycle, Phases
<1> QED BY <1>1, NextPhase DEF SettledCycle, Phases

LEMMA GatesStep ==
    ASSUME PaceInv, GatesPass \/ GatesStop \/ LastFreshnessCheck
    PROVE  PaceInv'
<1>1. TimersInv'
  BY SameTimers DEF GatesPass, GatesStop, LastFreshnessCheck
<1>2. PacingInv'
  BY DEF GatesPass, GatesStop, LastFreshnessCheck, PaceInv, PacingInv, Consistent,
         WithinCooldown, pacing
<1>3. FlagsInv'
  BY DEF GatesPass, GatesStop, LastFreshnessCheck, PaceInv, FlagsInv, work
<1>4. Consistent(throttle, cycle', queued, userWaits)
  <2>1. CASE GatesStop
    <3>1. cycle' = SettledCycle /\ cycle.phase # "none"
      BY <2>1 DEF GatesStop
    <3> QED BY <3>1, Settled DEF PaceInv, Consistent, Phases
  <2>2. CASE GatesPass \/ LastFreshnessCheck
    <3>1. PICK p \in {"syncing", "checked"} : cycle' = [cycle EXCEPT !.phase = p]
      BY <2>2 DEF GatesPass, LastFreshnessCheck
    <3>2. cycle.phase \in {"gates", "syncing", "checked"}
      BY <2>2 DEF GatesPass, LastFreshnessCheck
    <3> QED BY <3>1, <3>2, NextPhase DEF PaceInv, Consistent, Phases
  <2> QED BY <2>1, <2>2
<1>5. UNCHANGED <<throttle, queued, userWaits, cooldown, disposed, asked>>
  BY DEF GatesPass, GatesStop, LastFreshnessCheck, pacing
<1> QED BY <1>1, <1>2, <1>3, <1>4, <1>5 DEF PaceInv, Consistent, WithinWait, WithinCooldown

(* The end of a cycle: nothing waits for it beyond the cool-down.             *)
LEMMA AfterSyncStep ==
    ASSUME PaceInv, AfterSync
    PROVE  /\ stretch' \in 0..AdaptiveMax /\ sinceSync' \in 0..Long
           /\ requestedWhileSuspended' \in BOOLEAN
           /\ queued' \in Requests \cup {NoRequest}
           /\ queued' # NoRequest => queued # NoRequest
           /\ queued'.manual => queued'.min = 0
<1>1. CASE Mobile
  <2>1. cycle.since \in Nat
    BY Times DEF PaceInv, Consistent
  <2>2. cycle.since * AdaptiveMultiplier \in Nat
    BY <2>1, Times
  <2>3. stretch' \in 0..AdaptiveMax /\ sinceSync' \in 0..Long
    BY <1>1, <2>2, Times DEF AfterSync, Smaller
  <2>4. requestedWhileSuspended' \in BOOLEAN
    BY <1>1 DEF AfterSync, PaceInv, FlagsInv
  <2>5. [min |-> MinInterval, manual |-> FALSE] \in Requests
        /\ [min |-> MinInterval, manual |-> FALSE].manual = FALSE
        /\ NoRequest.manual = FALSE
    BY DEF Requests, NoRequest
  <2> QED BY <1>1, <2>3, <2>4, <2>5 DEF AfterSync
<1>2. CASE ~Mobile
  BY <1>2 DEF AfterSync, PaceInv, PacingInv, FlagsInv, Consistent
<1> QED BY <1>1, <1>2

(* A cycle has reached the backend; `wait` is what the backend has asked for. *)
LEMMA SettleStep ==
    ASSUME PaceInv, AfterSync, UNCHANGED <<timers, sinceFocus, suspended, disposed, userWaits>>,
           cycle.phase # "none", cycle' = SettledCycle,
           unsynced' \in BOOLEAN, carried' \in BOOLEAN,
           failures' \in 0..AttemptCap,
           cooldown' \in Int, cooldown' >= -1, WithinCooldown(cooldown'),
           asked' \in Nat, asked' > 0 => cooldown' >= asked',
           throttle' \in Int, throttle' >= -1, WithinWait(throttle'),
           cooldown' > 0 /\ ~disposed => throttle' = cooldown'
    PROVE  PaceInv'
<1>1. TimersInv'
  BY SameTimers
<1>2. PacingInv'
  BY AfterSyncStep DEF PaceInv, PacingInv, WithinCooldown
<1>3. FlagsInv'
  BY AfterSyncStep DEF PaceInv, FlagsInv
<1>4. cycle' \in [phase : Phases, manual : BOOLEAN, since : 0..Long, suspended : BOOLEAN]
      /\ cycle'.phase = "settled"
  BY Settled
<1>5. userWaits' \in BOOLEAN
  BY DEF PaceInv, Consistent
<1>6. Consistent(throttle, cycle, queued, userWaits)'
  BY <1>4, <1>5, AfterSyncStep DEF Consistent, Phases, WithinWait, WithinCooldown
<1> QED BY <1>1, <1>2, <1>3, <1>6 DEF PaceInv

(* The cool-down is over. *)
LEMMA NothingLeft ==
    /\ NoCooldown \in Int /\ NoCooldown >= -1 /\ WithinCooldown(NoCooldown)
    /\ NoTimer \in Int /\ NoTimer >= -1 /\ WithinWait(NoTimer)
    /\ ~(NoCooldown > 0) /\ 0 \in 0..AttemptCap
  BY Times DEF NoCooldown, NoTimer, WithinCooldown, WithinWait, AttemptCap

LEMMA SuccessStep == PaceInv /\ SyncSucceeds => PaceInv'
<1> SUFFICES ASSUME PaceInv, SyncSucceeds PROVE PaceInv'
  OBVIOUS
<1>1. cycle.phase # "none" /\ cycle' = SettledCycle
      /\ unsynced' \in BOOLEAN /\ carried' \in BOOLEAN
  BY DEF SyncSucceeds, PaceInv, FlagsInv
<1>2. AfterSync /\ UNCHANGED <<timers, sinceFocus, suspended, disposed, userWaits>>
      /\ throttle' = NoTimer /\ cooldown' = NoCooldown /\ failures' = 0 /\ asked' = 0
  BY DEF SyncSucceeds
<1> QED BY <1>1, <1>2, NothingLeft, SettleStep

(* A failure leaves the controller cooling down for at least as long as the   *)
(* backend asked for, with its retry armed for the end of that.               *)
LEMMA FailureStep ==
    ASSUME PaceInv, NEW retryAfter \in RetryAfters, SyncFails(retryAfter)
    PROVE  PaceInv'
<1>1. failures' \in 0..AttemptCap /\ failures' \in Nat \ {0}
  BY DEF SyncFails, PaceInv, PacingInv, Smaller, AttemptCap
<1> DEFINE wait == CooldownAfter(failures', retryAfter)
<1>2. wait \in Nat \ {0} /\ wait >= retryAfter /\ WithinCooldown(wait)
  BY <1>1, CooldownBounds
<1>3. cooldown' = Larger(cooldown, wait) /\ asked' = Larger(asked, retryAfter)
      /\ throttle' = cooldown'
  BY DEF SyncFails
<1> HIDE DEF wait
<1>4. retryAfter \in Nat
  OBVIOUS
<1>5. cooldown \in Int /\ cooldown >= -1 /\ WithinCooldown(cooldown)
      /\ asked \in Nat /\ (asked > 0 => cooldown >= asked)
  BY DEF PaceInv, PacingInv
<1>6. /\ cooldown' \in Int /\ cooldown' >= -1 /\ WithinCooldown(cooldown')
      /\ asked' \in Nat /\ (asked' > 0 => cooldown' >= asked')
  BY <1>2, <1>3, <1>4, <1>5 DEF Larger
<1>7. WithinWait(throttle')
  BY <1>3, <1>6 DEF WithinWait
<1>8. cycle.phase # "none" /\ cycle' = SettledCycle
      /\ unsynced' \in BOOLEAN /\ carried' \in BOOLEAN
  BY DEF SyncFails, SyncGivesUp, PaceInv, FlagsInv
<1>9. AfterSync /\ UNCHANGED <<timers, sinceFocus, suspended, disposed, userWaits>>
  BY DEF SyncFails
<1> QED BY <1>1, <1>3, <1>6, <1>7, <1>8, <1>9, SettleStep

LEMMA OfflineStep == PaceInv /\ SyncOffline => PaceInv'
<1> SUFFICES ASSUME PaceInv, SyncOffline PROVE PaceInv'
  OBVIOUS
<1>1. cycle.phase # "none" /\ cycle' = SettledCycle
      /\ unsynced' \in BOOLEAN /\ carried' \in BOOLEAN
  BY DEF SyncOffline, SyncGivesUp, PaceInv, FlagsInv
<1>2. AfterSync /\ UNCHANGED <<timers, sinceFocus, suspended, disposed, userWaits>>
      /\ UNCHANGED <<throttle, cooldown, failures, asked>>
  BY DEF SyncOffline
<1> QED BY <1>1, <1>2, SettleStep DEF PaceInv, PacingInv, Consistent

LEMMA DrainStep == PaceInv /\ Drain => PaceInv'
<1> SUFFICES ASSUME PaceInv, Drain PROVE PaceInv'
  OBVIOUS
<1>1. Consistent(throttle, NoCycle, NoRequest, userWaits) /\ userWaits \in BOOLEAN
  BY AtRest DEF PaceInv, Consistent
<1>2. Consistent(throttle', cycle', queued', userWaits')
  <2>1. CASE disposed \/ queued = NoRequest
    BY <1>1, <2>1 DEF Drain
  <2>2. CASE ~(disposed \/ queued = NoRequest)
    <3>1. queued \in Requests /\ (queued.manual => queued.min = 0) /\ RunCycle(queued, throttle)
      BY <2>2 DEF Drain, PaceInv, Consistent
    <3>2. Consistent(throttle', cycle', NoRequest, userWaits')
      BY <1>1, <3>1, RunCycleStep DEF PaceInv
    <3> QED BY <3>2 DEF Drain
  <2> QED BY <2>1, <2>2
<1>3. TimersInv'
  BY SameTimers DEF Drain
<1> QED BY <1>2, <1>3, QuietStep DEF Drain, PaceInv, FlagsInv, work

(* Time passes: the retry and the end of the cool-down come nearer together.  *)
LEMMA TickStep == PaceInv /\ Tick => PaceInv'
<1> SUFFICES ASSUME PaceInv, Tick PROVE PaceInv'
  OBVIOUS
<1>1. TimersInv'
  BY Times DEF Tick, PaceInv, TimersInv, Less, Larger
<1>2. PacingInv'
  <2>1. cooldown' \in Int /\ cooldown' >= -1 /\ WithinCooldown(cooldown)'
    BY Elapsed DEF Tick, PaceInv, PacingInv, WithinCooldown
  <2>2. asked' \in Nat /\ (asked' > 0 => cooldown' >= asked')
    BY DEF Tick, PaceInv, PacingInv, Less
  <2> QED BY <2>1, <2>2, Times DEF Tick, PaceInv, PacingInv, More, Smaller
<1>3. FlagsInv'
  BY DEF Tick, PaceInv, FlagsInv, work
<1>4. throttle' \in Int /\ throttle' >= -1 /\ WithinWait(throttle')
  BY Elapsed DEF Tick, PaceInv, Consistent
<1>5. cooldown' > 0 /\ ~disposed' => throttle' = cooldown'
  BY DEF Tick, PaceInv, PacingInv, Consistent, Less
<1>6. /\ cycle' \in [phase : Phases, manual : BOOLEAN, since : 0..Long, suspended : BOOLEAN]
      /\ cycle'.phase = cycle.phase /\ cycle'.manual = cycle.manual
  <2>1. cycle \in [phase : Phases, manual : BOOLEAN, since : 0..Long, suspended : BOOLEAN]
    BY DEF PaceInv, Consistent, Phases
  <2>2. More(cycle.since) \in 0..Long
    BY <2>1, Times DEF More, Smaller
  <2> QED BY <2>1, <2>2 DEF Tick
<1>7. asked = 0 => asked' = 0
  BY DEF Tick, Less
<1>8. Consistent(throttle, cycle, queued, userWaits)'
  BY <1>4, <1>5, <1>6, <1>7 DEF Tick, PaceInv, Consistent, Phases, WithinWait, WithinCooldown
<1> QED BY <1>1, <1>2, <1>3, <1>8 DEF PaceInv

-----------------------------------------------------------------------------
(* The triggers of the mobile applications *)

LEMMA MobileDebounceStep == PaceInv /\ MobileDebounceFires => PaceInv'
<1> SUFFICES ASSUME PaceInv, MobileDebounceFires PROVE PaceInv'
  OBVIOUS
<1>1. TimersInv'
  BY Times DEF MobileDebounceFires, PaceInv, TimersInv, Fired, Larger
<1>2. Consistent(throttle', cycle', queued', userWaits')
  BY DEF MobileDebounceFires, PaceInv
<1> QED BY <1>1, <1>2, QuietStep DEF MobileDebounceFires, work, PaceInv, FlagsInv

LEMMA FireDebouncedStep == PaceInv /\ FireDebounced => PaceInv'
<1> SUFFICES ASSUME PaceInv, FireDebounced PROVE PaceInv'
  OBVIOUS
<1>1. TimersInv'
  BY SameTimers DEF FireDebounced
<1> QED BY <1>1, TriggerStep DEF FireDebounced, PaceInv, PacingInv, FlagsInv, pacing, work

(* handleSuspend: the retry of a failure outlives the foreground.             *)
LEMMA LeaveStep == PaceInv /\ AppLeaves => PaceInv'
<1> SUFFICES ASSUME PaceInv, AppLeaves PROVE PaceInv'
  OBVIOUS
<1>1. TimersInv'
  BY Times DEF AppLeaves, Leave, PaceInv, TimersInv, NoTimer, Larger
<1>2. Consistent(AfterSuspend, cycle, queued, userWaits)
  <2>1. CASE cooldown = NoCooldown
    BY <2>1, NothingLeft DEF AfterSuspend, PaceInv, Consistent
  <2>2. CASE cooldown # NoCooldown
    BY <2>2 DEF AfterSuspend, PaceInv
  <2> QED BY <2>1, <2>2
<1>3. Consistent(throttle', cycle', queued', userWaits') /\ requestedWhileSuspended' \in BOOLEAN
  <2>1. CASE Dedupes
    BY <1>2, <2>1 DEF AppLeaves, Leave, PaceInv, FlagsInv
  <2>2. CASE ~Dedupes
    <3>1. RequestAutoSync(0, FALSE, AfterSuspend)
      BY <2>2 DEF AppLeaves, Leave
    <3> QED BY <1>2, <3>1, RequestStep DEF PaceInv
  <2> QED BY <2>1, <2>2
<1> QED BY <1>1, <1>3, QuietStep DEF AppLeaves, Leave, PaceInv, FlagsInv, work

LEMMA ResumeStep == PaceInv /\ AppResumes => PaceInv'
<1> SUFFICES ASSUME PaceInv, AppResumes PROVE PaceInv'
  OBVIOUS
<1>1. TimersInv'
  BY SameTimers DEF AppResumes
<1>2. requestedWhileSuspended' \in BOOLEAN
  BY DEF AppResumes, InFlight, PaceInv, FlagsInv
<1>3. Consistent(throttle', cycle', queued', userWaits')
  <2>1. CASE requestedWhileSuspended /\ cooldown > 0
    BY <2>1 DEF AppResumes, PaceInv, PacingInv, Consistent, ArmedFor, Armed, WithinWait
  <2>2. CASE requestedWhileSuspended /\ ~(cooldown > 0)
    <3>1. Run([min |-> 0, manual |-> FALSE], throttle)
      BY <2>2 DEF AppResumes
    <3>2. [min |-> 0, manual |-> FALSE] \in Requests
          /\ [min |-> 0, manual |-> FALSE].manual = FALSE
      BY DEF Requests
    <3> QED BY <3>1, <3>2, RunStep DEF PaceInv
  <2>3. CASE ~requestedWhileSuspended
    BY <2>3 DEF AppResumes, PaceInv
  <2> QED BY <2>1, <2>2, <2>3
<1> QED BY <1>1, <1>2, <1>3, QuietStep DEF AppResumes, PaceInv, FlagsInv, work

LEMMA CheckResumeStep == PaceInv /\ CheckResume => PaceInv'
<1> SUFFICES ASSUME PaceInv, CheckResume PROVE PaceInv'
  OBVIOUS
<1>1. TimersInv'
  BY SameTimers DEF CheckResume
<1>2. UNCHANGED <<throttle, cycle, queued, requestedWhileSuspended, userWaits>>
      \/ RequestAutoSync(0, FALSE, throttle)
  BY DEF CheckResume
<1>3. Consistent(throttle', cycle', queued', userWaits') /\ requestedWhileSuspended' \in BOOLEAN
  BY <1>2, RequestStep DEF PaceInv, FlagsInv
<1> QED BY <1>1, <1>3, QuietStep DEF CheckResume, PaceInv, FlagsInv, work

LEMMA ExternalRequestStep ==
    ASSUME PaceInv, NEW min \in {0, MinInterval}, ExternalRequest(min)
    PROVE  PaceInv'
<1>1. TimersInv'
  BY SameTimers DEF ExternalRequest
<1> QED BY <1>1, TriggerStep DEF ExternalRequest, PaceInv, PacingInv, FlagsInv, pacing, work

LEMMA AbortedStep == PaceInv /\ SyncAborted => PaceInv'
<1> SUFFICES ASSUME PaceInv, SyncAborted PROVE PaceInv'
  OBVIOUS
<1>1. cycle.phase # "none" /\ cycle' = SettledCycle
      /\ unsynced' \in BOOLEAN /\ carried' \in BOOLEAN
  BY DEF SyncAborted, SyncGivesUp, PaceInv, FlagsInv
<1>2. AfterSync /\ UNCHANGED <<timers, sinceFocus, suspended, disposed, userWaits>>
      /\ throttle' = NoTimer /\ cooldown' = NoCooldown /\ failures' = 0 /\ asked' = 0
  BY DEF SyncAborted
<1> QED BY <1>1, <1>2, NothingLeft, SettleStep

(* notifyExternalSyncSuccess ends the cool-down and what was to come after it.*)
LEMMA ExternalSuccessStep ==
    ASSUME PaceInv, NEW sawEdits \in BOOLEAN, ExternalSyncSucceeds(sawEdits)
    PROVE  PaceInv'
<1>1. TimersInv'
  BY SameTimers DEF ExternalSyncSucceeds
<1>2. PacingInv'
  BY NothingLeft DEF ExternalSyncSucceeds, PaceInv, PacingInv, WithinCooldown
<1>3. FlagsInv'
  BY DEF ExternalSyncSucceeds, PaceInv, FlagsInv
<1>4. throttle' \in Int /\ throttle' >= -1 /\ WithinWait(throttle')
      /\ ~(cooldown' > 0) /\ asked' = 0
  BY NothingLeft DEF ExternalSyncSucceeds
<1>5. Consistent(throttle, cycle, queued, userWaits)'
  BY <1>4 DEF ExternalSyncSucceeds, PaceInv, Consistent, WithinWait, WithinCooldown
<1> QED BY <1>1, <1>2, <1>3, <1>5 DEF PaceInv

-----------------------------------------------------------------------------
(* The controller on either platform *)

LEMMA PaceInit == Init => PaceInv
<1> SUFFICES ASSUME Init PROVE PaceInv
  OBVIOUS
<1>1. TimersInv
  BY Times DEF Init, TimersInv, NoTimer, Larger
<1>2. PacingInv
  BY NothingLeft, Times DEF Init, PacingInv
<1>3. FlagsInv
  BY DEF Init, FlagsInv
<1>4. Consistent(throttle, cycle, queued, userWaits)
  <2>1. throttle \in Int /\ throttle >= -1 /\ WithinWait(throttle) /\ ~(cooldown > 0)
    BY NothingLeft DEF Init
  <2>2. NoCycle \in [phase : {"none", "gates", "syncing", "checked", "settled"},
                    manual : BOOLEAN, since : 0..Long, suspended : BOOLEAN]
        /\ NoCycle.phase = "none" /\ NoRequest.manual = FALSE
    BY Times DEF NoCycle, NoRequest
  <2> QED BY <2>1, <2>2 DEF Init, Consistent
<1> QED BY <1>1, <1>2, <1>3, <1>4 DEF PaceInv

LEMMA PaceStutter == PaceInv /\ UNCHANGED vars => PaceInv'
  BY DEF PaceInv, TimersInv, PacingInv, FlagsInv, Consistent, WithinWait, WithinCooldown,
         vars, timers, pacing, work

LEMMA DesktopStep == PaceInv /\ [DesktopNext]_vars => PaceInv'
  BY EditStep, DebounceStep, ThrottleStep, InitialStep, PeriodicStep, FocusStep, BlurStep,
     RequestSyncStep, DisposeStep, GatesStep, SuccessStep, FailureStep, DrainStep, TickStep,
     PaceStutter
  DEF DesktopNext

LEMMA MobileStep == PaceInv /\ [MobileNext]_mobileVars => PaceInv'
<1>1. PaceInv /\ ControllerStep => PaceInv'
  BY ThrottleStep, GatesStep, SuccessStep, FailureStep, OfflineStep DEF ControllerStep
<1>2. PaceInv /\ (MobileEdit \/ MobileDrain \/ MobileTick) => PaceInv'
  BY EditStep, DrainStep, TickStep DEF MobileEdit, MobileDrain, MobileTick
<1>3. PaceInv /\ UNCHANGED mobileVars => PaceInv'
  BY PaceStutter DEF mobileVars
<1> QED BY <1>1, <1>2, <1>3, MobileDebounceStep, FireDebouncedStep, LeaveStep, ResumeStep,
           CheckResumeStep, ExternalRequestStep, AbortedStep, ExternalSuccessStep
        DEF MobileNext

LEMMA PaceImplies == PaceInv => ControllerInv
<1> SUFFICES ASSUME PaceInv PROVE ControllerInv
  OBVIOUS
<1>1. TypeOK
  BY DEF PaceInv, TimersInv, PacingInv, FlagsInv, Consistent, TypeOK, InFlight
<1>2. NeverSoonerThanAsked
  BY DEF PaceInv, Consistent, NeverSoonerThanAsked
<1>3. RetryArmed
  BY DEF PaceInv, Consistent, RetryArmed
<1> QED BY <1>1, <1>2, <1>3 DEF ControllerInv

(* createAutoSyncController on the desktop: whatever triggers there are, in   *)
(* whatever order timers fire and cycles end, no automatic run reaches the    *)
(* backend sooner than it asked for, and while a cool-down lasts the retry is *)
(* armed for its end, for all intervals, ceilings and delays asked for.       *)
THEOREM DesktopPaced == DesktopSpec => []ControllerInv
<1> QED BY PaceInit, DesktopStep, PaceImplies, PTL DEF DesktopSpec

(* The same with the mobile triggers: going to the background, coming back,   *)
(* aborted cycles and the syncs that the service starts on its own.           *)
THEOREM MobilePaced == MobileSpec => []ControllerInv
<1>1. MobileInit => PaceInv
  BY PaceInit DEF MobileInit
<1> QED BY <1>1, MobileStep, PaceImplies, PTL DEF MobileSpec
=============================================================================
