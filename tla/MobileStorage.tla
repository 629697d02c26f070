---------------------------- MODULE MobileStorage ----------------------------
(***************************************************************************)
(* apps/mobile/lib/storage-adapter.ts: the two copies of the library on a  *)
(* phone.                                                                  *)
(*                                                                         *)
(* SQLite is the durable copy.  A JSON backup follows it, deferred and     *)
(* coalesced; when SQLite refuses a write the backup takes it, and a       *)
(* persisted marker says that the backup is ahead.  The next launch merges *)
(* the two.  When the backup cannot be read then, SQLite is served for     *)
(* reading and every write is refused until a later attempt has recovered  *)
(* the backup and the store has reloaded.                                  *)
(*                                                                         *)
(* A document gives each cell the ordinal of its latest edit.  Rows are    *)
(* kept by revision, so an older row never replaces a newer one; settings  *)
(* are one value that the last write replaces.                             *)
(***************************************************************************)
EXTENDS Integers, Sequences

CONSTANTS
    Rows, Settings,   \* the cells of a document
    NoDoc,
    Exposures,        \* for each kind of device, what may fail beside the writes of
                      \* SQLite, and "calendar" where the calendar's helpers, which
                      \* open SQLite at any time, are in use
    MaxEdits, MaxCrashes

ASSUME FaultsAssumption ==
    /\ Exposures \subseteq SUBSET {"launchRead", "open", "recoveryWrite", "sqliteRead",
                                   "backupRead", "backupWrite", "calendar"}
    /\ Rows \cap Settings = {}
    /\ NoDoc \notin [Rows \cup Settings -> Nat]
    /\ MaxEdits \in Nat
    /\ MaxCrashes \in Nat

VARIABLES
    mem,        \* the store, NoDoc until its first load
    edits,      \* ordinal of the latest edit
    retained,   \* the snapshot waiting in the store's save queue, or NoSnapshot
    queue,      \* the adapter's saves, first in first out; its head runs
    sql,        \* SQLite
    json,       \* the backup
    marker,     \* the persisted JSON-ahead marker
    ahead,      \* jsonAheadOfSqlite, its mirror
    prefer,     \* shouldUseJsonBackupFastPath()
    conn,       \* the SQLite state of this process
    reload,     \* canonicalReloadRequired
    fetch,      \* the document read for the store and not applied yet, or NoRead
    read,       \* the document another reader has read from SQLite, or NoDoc
    pending,    \* the payload of the deferred backup, or NoDoc
    chain,      \* the calls of writeNext on the writer's chain
    writing,    \* the backup being written, or NoWrite
    fresh,      \* backupUpdatedAt >= latestQueuedWriteStartedAt
    acked,      \* history: the edits whose save has been reported as done
    crashes,
    faults      \* what this device is exposed to

storeVars == <<mem, edits, retained, fetch>>
diskVars == <<sql, json, marker>>
backupVars == <<pending, chain, writing, fresh>>
modeVars == <<ahead, prefer, conn, reload>>
historyVars == <<acked, crashes>>
storageVars == <<storeVars, queue, diskVars, backupVars, modeVars, read, historyVars, faults>>

Cells == Rows \cup Settings
Doc == [Cells -> 0..MaxEdits]
Empty == [c \in Cells |-> 0]

Snapshot == [version : 0..MaxEdits, data : Doc]
NoSnapshot == [version |-> 0, data |-> Empty]

Job == [kind : {"data", "task"}, cell : Cells \cup {NoDoc}, version : 0..MaxEdits, data : Doc,
        refused : BOOLEAN, step : {"queued", "sqlite", "clear", "mark", "flush"}]

NoRead == [data |-> Empty, canonical |-> FALSE, there |-> FALSE]
NoWrite == [data |-> Empty, fresh |-> FALSE, by |-> "nobody"]

Later(a, b) == IF a <= b THEN b ELSE a

(* mergeAppDataWithStats, for documents of one device: the later edit of     *)
(* each cell (EntityMerge has the merge itself).                             *)
Merged(d, e) == [c \in Cells |-> Later(d[c], e[c])]

StorageTypeOK ==
    /\ mem \in Doc \cup {NoDoc}
    /\ edits \in 0..MaxEdits
    /\ retained \in Snapshot
    /\ queue \in Seq(Job)
    /\ {sql, json, acked} \subseteq Doc
    /\ {marker, ahead, prefer, reload, fresh} \subseteq BOOLEAN
    /\ conn \in {"none", "recovering", "ready", "quarantined", "failed"}
    /\ fetch \in [data : Doc, canonical : BOOLEAN, there : BOOLEAN]
    /\ {read, pending} \subseteq Doc \cup {NoDoc}
    /\ chain \in Seq({"save", "other"})
    /\ writing \in [data : Doc, fresh : BOOLEAN, by : {"nobody", "save", "other"}]
    /\ crashes \in 0..MaxCrashes

StorageInit ==
    /\ mem = NoDoc
    /\ edits = 0
    /\ retained = NoSnapshot
    /\ queue = <<>>
    /\ sql = Empty /\ json = Empty /\ marker = FALSE
    /\ ahead = FALSE /\ prefer = FALSE /\ conn = "none" /\ reload = FALSE
    /\ fetch = NoRead
    /\ read = NoDoc
    /\ pending = NoDoc /\ chain = <<>> /\ writing = NoWrite /\ fresh = TRUE
    /\ acked = Empty
    /\ crashes = 0
    /\ faults \in Exposures

-----------------------------------------------------------------------------
(* The store.  An edit discards the load in hand.                            *)

Edited(c) == [mem EXCEPT ![c] = edits + 1]

EditCell(c) ==
    /\ mem # NoDoc
    /\ edits < MaxEdits
    /\ edits' = edits + 1
    /\ mem' = Edited(c)
    /\ fetch' = NoRead

NewJob(kind, c, version, data) ==
    [kind |-> kind, cell |-> c, version |-> version, data |-> data,
     refused |-> reload, step |-> "queued"]

(* saveTask, with nothing queued in the store. *)
EditRow(r) ==
    /\ retained = NoSnapshot
    /\ EditCell(r)
    /\ queue' = Append(queue, NewJob("task", r, edits + 1, Edited(r)))
    /\ UNCHANGED <<retained, diskVars, backupVars, modeVars, read, historyVars>>

(* Any other edit queues a snapshot. *)
EditSnapshot(c) ==
    /\ EditCell(c)
    /\ retained' = [version |-> edits + 1, data |-> Edited(c)]
    /\ UNCHANGED <<queue, diskVars, backupVars, modeVars, read, historyVars>>

(* flushPendingSave waits for the saves in flight, then calls saveData. *)
FlushStore ==
    /\ retained # NoSnapshot
    /\ queue = <<>>
    /\ queue' = <<NewJob("data", NoDoc, retained.version, retained.data)>>
    /\ retained' = NoSnapshot
    /\ UNCHANGED <<mem, edits, fetch, diskVars, backupVars, modeVars, read, historyVars>>

-----------------------------------------------------------------------------
(* Saves.                                                                    *)

Running(step) == queue # <<>> /\ Head(queue).step = step

GoTo(step) == queue' = [queue EXCEPT ![1].step = step]

(* markQueuedWriteStarted: a backup stamped earlier is no longer fresh. *)
StartSave ==
    /\ Running("queued")
    /\ GoTo("sqlite")
    /\ fresh' = FALSE
    /\ writing' = [writing EXCEPT !.fresh = FALSE]
    /\ UNCHANGED <<storeVars, diskVars, pending, chain, modeVars, read, historyVars>>

(* The promise of the save resolves. *)
Acknowledge ==
    /\ acked' = IF Head(queue).kind = "data" THEN Merged(acked, Head(queue).data)
                ELSE [acked EXCEPT ![Head(queue).cell] = Later(@, Head(queue).version)]
    /\ queue' = Tail(queue)
    /\ UNCHANGED crashes

(* Mutation of Reject: the job is queued again, not its snapshot. *)
RejectKeepingJob ==
    /\ queue' = Tail(queue)
    /\ retained' = Head(queue)
    /\ UNCHANGED <<mem, edits, fetch, historyVars>>

(* It rejects: the store queues the snapshot again unless a later one is     *)
(* there, and gives up after a number of attempts.                           *)
Reject ==
    /\ queue' = Tail(queue)
    /\ retained' \in {retained,
                      IF retained.version < Head(queue).version
                      THEN [version |-> Head(queue).version, data |-> Head(queue).data]
                      ELSE retained}
    /\ UNCHANGED <<mem, edits, fetch, historyVars>>

(* Mutation of WritesAllowed: only the quarantine refuses. *)
WritesAllowedAfterRecovery(refused) == conn = "ready"

(* assertSqliteWritesAllowed *)
WritesAllowed(refused) == conn = "ready" /\ ~refused /\ ~reload

RefuseSave ==
    /\ Running("sqlite")
    /\ conn \in {"ready", "quarantined"}
    /\ ~WritesAllowed(Head(queue).refused)
    /\ Reject
    /\ UNCHANGED <<diskVars, backupVars, modeVars, read>>

(* The upsert of a row is guarded by its revision; the row of the settings   *)
(* is replaced.  A snapshot never removes a live row it omits.               *)
Stored(job) ==
    [c \in Cells |->
        IF job.kind = "task" /\ c # job.cell THEN sql[c]
        ELSE IF c \in Settings THEN job.data[c] ELSE Later(sql[c], job.data[c])]

CommitRow ==
    /\ Running("sqlite") /\ Head(queue).kind = "task"
    /\ WritesAllowed(Head(queue).refused)
    /\ sql' = Stored(Head(queue))
    /\ prefer' = FALSE
    /\ pending' = Head(queue).data
    /\ Acknowledge
    /\ UNCHANGED <<storeVars, json, marker, chain, writing, fresh, ahead, conn, reload, read>>

CommitSnapshot ==
    /\ Running("sqlite") /\ Head(queue).kind = "data"
    /\ WritesAllowed(Head(queue).refused)
    /\ sql' = Stored(Head(queue))
    /\ prefer' = FALSE
    /\ GoTo("clear")
    /\ UNCHANGED <<storeVars, json, marker, backupVars, ahead, conn, reload, read, historyVars>>

(* clearJsonAheadOfSqlite removes the marker only when its mirror is set, a  *)
(* failure is swallowed; then the backup is scheduled.                       *)
ClearMarker ==
    /\ Running("clear")
    /\ ahead' = FALSE
    /\ marker' \in {marker /\ ~ahead} \cup (IF "backupWrite" \in faults THEN {marker} ELSE {})
    /\ pending' = Head(queue).data
    /\ Acknowledge
    /\ UNCHANGED <<storeVars, sql, json, chain, writing, fresh, prefer, conn, reload, read>>

SqliteRefuses ==
    /\ Running("sqlite")
    /\ conn = "failed" \/ WritesAllowed(Head(queue).refused)
    /\ prefer' = TRUE
    /\ GoTo("mark")
    /\ UNCHANGED <<storeVars, diskVars, backupVars, ahead, conn, reload, read, historyVars>>

(* The marker first, then the backup is scheduled and flushed. *)
MarkAhead ==
    /\ Running("mark")
    /\ ahead' = TRUE
    /\ marker' = (marker \/ ~ahead)
    /\ pending' = Head(queue).data
    /\ chain' = Append(chain, "save")
    /\ GoTo("flush")
    /\ UNCHANGED <<storeVars, sql, json, writing, fresh, prefer, conn, reload, read, historyVars>>

MarkFails ==
    /\ "backupWrite" \in faults
    /\ Running("mark") /\ ~ahead
    /\ Reject
    /\ UNCHANGED <<diskVars, backupVars, modeVars, read>>

-----------------------------------------------------------------------------
(* createCoalescingWriter: one pending payload, one writer at a time.        *)

(* The timer, the flush when the application leaves the foreground, or the   *)
(* flush of a reader.                                                        *)
FlushBackup ==
    /\ pending # NoDoc
    /\ \A i \in 1..Len(chain) : chain[i] # "other"
    /\ chain' = Append(chain, "other")
    /\ UNCHANGED <<storeVars, queue, diskVars, pending, writing, fresh, modeVars, read, historyVars>>

(* The loop of a save's flush: it returns once nothing is pending. *)
FlushReturns(who, rest) ==
    IF who # "save" THEN chain' = rest /\ UNCHANGED <<queue, historyVars>>
    ELSE IF pending # NoDoc
         THEN chain' = Append(rest, "save") /\ UNCHANGED <<queue, historyVars>>
         ELSE chain' = rest /\ Acknowledge

(* writeNext takes whatever is pending when its turn comes. *)
WriteNext ==
    /\ chain # <<>> /\ writing = NoWrite
    /\ pending # NoDoc
    /\ writing' = [data |-> pending, fresh |-> TRUE, by |-> Head(chain)]
    /\ pending' = NoDoc
    /\ chain' = Tail(chain)
    /\ UNCHANGED <<storeVars, queue, diskVars, fresh, modeVars, read, historyVars>>

NothingToWrite ==
    /\ chain # <<>> /\ writing = NoWrite
    /\ pending = NoDoc
    /\ FlushReturns(Head(chain), Tail(chain))
    /\ UNCHANGED <<storeVars, diskVars, pending, writing, fresh, modeVars, read>>

BackupLands ==
    /\ writing # NoWrite
    /\ json' = writing.data
    /\ fresh' = writing.fresh
    /\ writing' = NoWrite
    /\ FlushReturns(writing.by, chain)
    /\ UNCHANGED <<storeVars, sql, marker, pending, modeVars, read>>

BackupFails ==
    /\ "backupWrite" \in faults
    /\ writing # NoWrite
    /\ writing' = NoWrite
    /\ IF writing.by = "save" THEN Reject ELSE UNCHANGED <<storeVars, queue, historyVars>>
    /\ UNCHANGED <<diskVars, pending, chain, fresh, modeVars, read>>

-----------------------------------------------------------------------------
(* Opening SQLite.                                                           *)

Opening == conn = "none" /\ UNCHANGED <<mem, edits, retained, queue, backupVars, read, historyVars>>

(* requireCanonicalReload also forgets the documents already read. *)
RequireReload ==
    /\ reload' = TRUE
    /\ fetch' = [fetch EXCEPT !.canonical = FALSE]

OpenClean ==
    /\ Opening
    /\ ~marker
    /\ ahead' = FALSE
    /\ conn' = "ready"
    /\ UNCHANGED <<fetch, diskVars, prefer, reload>>

(* recoverJsonAheadWrites: merge, save, and only then take the marker back. *)
RecoverBackup ==
    /\ Opening
    /\ marker
    /\ ahead' = TRUE
    /\ sql' = Merged(sql, json)
    /\ conn' = "recovering"
    /\ UNCHANGED <<fetch, json, marker, prefer, reload>>

EndRecovery ==
    /\ conn = "recovering"
    /\ marker' = FALSE
    /\ ahead' = FALSE
    /\ conn' = "ready"
    /\ RequireReload
    /\ UNCHANGED <<mem, edits, retained, queue, sql, json, backupVars, prefer, read, historyVars>>

(* SQLite refuses the recovered document; initialisation fails. *)
RecoveryRefused ==
    /\ "recoveryWrite" \in faults
    /\ Opening
    /\ marker
    /\ ahead' = TRUE
    /\ conn' = "failed"
    /\ UNCHANGED <<fetch, diskVars, prefer, reload>>

(* Mutation of Quarantine: the session goes on as if nothing was ahead. *)
OpenWithoutBackup ==
    /\ "launchRead" \in faults
    /\ Opening
    /\ ahead' = FALSE
    /\ conn' = "ready"
    /\ UNCHANGED <<fetch, diskVars, prefer, reload>>

(* The marker, or the backup it announces, cannot be read now. *)
Quarantine ==
    /\ "launchRead" \in faults
    /\ Opening
    /\ ahead' = TRUE
    /\ conn' = "quarantined"
    /\ RequireReload
    /\ UNCHANGED <<diskVars, prefer>>

OpenFails ==
    /\ "open" \in faults
    /\ Opening
    /\ conn' = "failed"
    /\ UNCHANGED <<fetch, diskVars, ahead, prefer, reload>>

(* getSqliteState tries again after a cool-down, when a save calls it, a read *)
(* that has waited for the queued saves, or a helper of the calendar.         *)
Reopen ==
    /\ conn \in {"quarantined", "failed"}
    /\ queue = <<>> \/ Running("sqlite") \/ "calendar" \in faults
    /\ conn' = "none"
    /\ UNCHANGED <<storeVars, queue, diskVars, backupVars, ahead, prefer, reload, read, historyVars>>

-----------------------------------------------------------------------------
(* Reading.  The store loads when none of its saves is outstanding.          *)

StoreIdle == queue = <<>> /\ retained = NoSnapshot /\ ~fetch.there

(* loadJsonBackup lands what is pending and checks the stamp. *)
BackupTrusted == pending = NoDoc /\ writing = NoWrite /\ fresh

Loaded(data, canonical) == fetch' = [data |-> data, canonical |-> canonical, there |-> TRUE]

LoadBackup ==
    /\ StoreIdle
    /\ prefer \/ ahead
    /\ BackupTrusted
    /\ Loaded(json, FALSE)
    /\ UNCHANGED <<mem, edits, retained, queue, diskVars, backupVars, modeVars, read, historyVars>>

(* Mutation of LoadSqlite: the copy just read becomes the backup. *)
LoadSqliteAndBackUp ==
    /\ StoreIdle
    /\ ~prefer
    /\ conn \in {"ready", "quarantined"}
    /\ Loaded(sql, conn = "ready" /\ reload)
    /\ pending' = sql
    /\ UNCHANGED <<mem, edits, retained, queue, diskVars, chain, writing, fresh, modeVars, read,
                   historyVars>>

(* The backup that is ahead comes first; SQLite is read when that fails. *)
LoadSqlite ==
    /\ StoreIdle
    /\ ~prefer
    /\ conn \in {"ready", "quarantined"}
    /\ ahead => \/ "backupRead" \in faults
                \/ conn = "quarantined"
                \/ pending = NoDoc /\ writing = NoWrite /\ ~fresh
    /\ Loaded(sql, conn = "ready" /\ reload)
    /\ pending' = IF ahead THEN pending ELSE sql
    /\ UNCHANGED <<mem, edits, retained, queue, diskVars, chain, writing, fresh, modeVars, read,
                   historyVars>>

(* Initialisation or the read itself failed: the backup, if it is fresh. *)
LoadFallback ==
    /\ StoreIdle
    /\ ~prefer
    /\ conn = "failed" \/ "sqliteRead" \in faults
    /\ prefer' = TRUE
    /\ IF BackupTrusted THEN Loaded(json, FALSE) ELSE UNCHANGED fetch
    /\ UNCHANGED <<mem, edits, retained, queue, diskVars, backupVars, ahead, conn, reload, read,
                   historyVars>>

(* The store takes the document and reports it (acknowledgeDataLoad). *)
ApplyLoad ==
    /\ fetch.there
    /\ mem' = fetch.data
    /\ reload' = (reload /\ ~fetch.canonical)
    /\ fetch' = NoRead
    /\ UNCHANGED <<edits, retained, queue, diskVars, backupVars, ahead, prefer, conn, read, historyVars>>

(* Another reader, the sync: it waits for the queued saves, reads, and may   *)
(* go on after later ones.                                                   *)
OtherReads ==
    /\ read = NoDoc
    /\ queue = <<>>
    /\ ~prefer /\ ~ahead /\ conn = "ready"
    /\ read' = sql
    /\ UNCHANGED <<storeVars, queue, diskVars, backupVars, modeVars, historyVars>>

OtherHasRead ==
    /\ read # NoDoc
    /\ pending' = IF ahead THEN pending ELSE read
    /\ prefer' = FALSE
    /\ read' = NoDoc
    /\ UNCHANGED <<storeVars, queue, diskVars, chain, writing, fresh, ahead, conn, reload, historyVars>>

(* preferJsonBackupUntil has passed. *)
PreferenceEnds ==
    /\ prefer
    /\ prefer' = FALSE
    /\ UNCHANGED <<storeVars, queue, diskVars, backupVars, ahead, conn, reload, read, historyVars>>

(* The process dies.  The backup being written may have landed. *)
Crash ==
    /\ crashes < MaxCrashes
    /\ crashes' = crashes + 1
    /\ json' \in {json} \cup (IF writing = NoWrite THEN {} ELSE {writing.data})
    /\ mem' = NoDoc
    /\ retained' = NoSnapshot
    /\ queue' = <<>>
    /\ ahead' = FALSE /\ prefer' = FALSE /\ conn' = "none" /\ reload' = FALSE
    /\ fetch' = NoRead
    /\ read' = NoDoc
    /\ pending' = NoDoc /\ chain' = <<>> /\ writing' = NoWrite /\ fresh' = TRUE
    /\ UNCHANGED <<edits, sql, marker, acked>>

(* The next callback of the writer's chain runs before anything else can. *)
WriterTurn == chain # <<>> /\ writing = NoWrite

Save ==
    \/ StartSave \/ RefuseSave \/ CommitRow \/ CommitSnapshot \/ ClearMarker
    \/ SqliteRefuses \/ MarkAhead \/ MarkFails

Open ==
    \/ OpenClean \/ RecoverBackup \/ EndRecovery \/ RecoveryRefused \/ Quarantine
    \/ OpenFails \/ Reopen

Read ==
    \/ LoadBackup \/ LoadSqlite \/ LoadFallback \/ ApplyLoad
    \/ OtherReads \/ OtherHasRead \/ PreferenceEnds

Step ==
    \/ WriteNext
    \/ NothingToWrite
    \/ Crash
    \/ ~WriterTurn /\ \E r \in Rows : EditRow(r)
    \/ ~WriterTurn /\ \E c \in Cells : EditSnapshot(c)
    \/ ~WriterTurn /\ FlushStore
    \/ ~WriterTurn /\ Save
    \/ ~WriterTurn /\ (FlushBackup \/ BackupLands \/ BackupFails)
    \/ ~WriterTurn /\ Open
    \/ ~WriterTurn /\ Read

StorageNext == Step /\ UNCHANGED faults

StorageSpec == StorageInit /\ [][StorageNext]_storageVars

-----------------------------------------------------------------------------
(* What a launch would find now. *)
Recoverable == IF marker THEN Merged(sql, json) ELSE sql

(* SQLite may fail to open, or to take what is recovered; or else something   *)
(* opens it without the backup, or beside a save.  Not both.                  *)
OpensInOrder ==
    faults \cap {"open", "recoveryWrite"} = {} \/ faults \cap {"launchRead", "calendar"} = {}

(* Once the app is running, the backup can be read and written. *)
BackupHolds == OpensInOrder /\ faults \cap {"backupRead", "backupWrite"} = {}

SqliteReadable == faults \cap {"open", "sqliteRead"} = {}

(* Where SQLite fails to open or to be read, an older backup is loaded: rows  *)
(* are safe from it by their revision, a setting is not.                      *)
SafeCells == IF SqliteReadable THEN Cells ELSE Rows

(* An edit whose save was reported as done is there for the next launch, at  *)
(* whatever step the process dies, whichever copy took it.                   *)
AcknowledgedSurvives == BackupHolds => \A c \in SafeCells : acked[c] <= Recoverable[c]

(* A document the store may go on to save from (SQLite is open, and no reload *)
(* stays required once it is applied) has every edit whose save was reported  *)
(* as done, also those that only the backup took.                             *)
LoadsAcknowledged ==
    /\ BackupHolds /\ SqliteReadable
    /\ fetch.there /\ conn = "ready" /\ (reload => fetch.canonical)
    => \A c \in Cells : acked[c] <= fetch.data[c]

(* Comment of recoverJsonAheadWrites: "Writes stay quarantined until a later   *)
(* init can read and recover the backup."  No save is reported as done from    *)
(* the quarantine until the store has reloaded what was recovered.             *)
NoSaveBeforeReload == [][reload /\ OpensInOrder => acked' = acked]_storageVars

(* A save that was reported as done is on the disk where the next launch     *)
(* looks for it, and a load of the store serves it.                          *)
StorageInv == StorageTypeOK /\ AcknowledgedSurvives /\ LoadsAcknowledged
=============================================================================
