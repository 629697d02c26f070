--------------------------- MODULE RequestReceipts ---------------------------
(***************************************************************************)
(* packages/core/src/native-request-receipts.ts over the store's save      *)
(* queue and the native host's SQLite adapter: how a write with a request  *)
(* ID is run at most once, answered only when it is on disk, and answered  *)
(* again, not run again, when it is sent a second time.                    *)
(*                                                                         *)
(* A landed request has a receipt, pending until a save commits it in the  *)
(* transaction that holds the request's data.  The Android host also keeps *)
(* every request in a write-ahead journal (WriteJournal.kt) until its      *)
(* final reply, and sends what is left again after a restart               *)
(* (CoreHost.kt, replayJournal).  The other hosts (Journaled = FALSE) send *)
(* a request again when they like, several at a time.                      *)
(*                                                                         *)
(* The save queue is module SaveQueue's, seen from here: the newest queued *)
(* snapshot, the one being written, and the single rows on their way.  A   *)
(* write has the shape every write of the contract must have (the header's *)
(* rules): nothing to do when its target holds, refused when the row is    *)
(* not the one its view showed, otherwise a change.                        *)
(***************************************************************************)
EXTENDS Integers, Sequences, FiniteSets, SequencesExt

CONSTANTS
    Rows,
    Requests,
    On,          \* the row each request writes
    Hosts        \* hosts and what they are asked, see IsHost

(* The host keeps a journal and sends one request at a time; the value each  *)
(* request gives its row; the requests whose receipts are kept on disk; how  *)
(* many are remembered; and the bounds: changes of the store that are no     *)
(* request's, sync cycles that change a row, failed saves, restarts.         *)
IsHost(h) ==
    /\ h.journaled \in BOOLEAN
    /\ h.sends \subseteq Requests /\ DOMAIN h.target = Requests
    /\ h.durable \subseteq h.sends
    /\ h.limit \in Nat \ {0}
    /\ h.bounds \in [{"edits", "syncs", "faults", "crashes"} -> Nat]

RequestConstants == On \in [Requests -> Rows] /\ \A h \in Hosts : IsHost(h)

VARIABLES
    mem,         \* the store: each row's stamp, value and the generation of its change
    clock,       \* the stamps given so far: a row's revision is never given twice
    gen,         \* getPersistenceStatus().generation
    queued,      \* the newest snapshot waiting, or NoSave
    inflight,    \* the snapshot being written, or NoSave
    immediates,  \* the single rows being written
    failure,     \* persistenceFailure is shown
    retrying,    \* the request whose retryPersistence is under way, or NoRequest
    disk,        \* the rows and receipts in SQLite
    rec,         \* the receipts map: how far each request is
    pending,     \* pendingReceipts: the generation a request landed at, or NotPending
    covered,     \* the requests a running save covers
    reply,       \* the reply to the request's last call
    journal,     \* the write-ahead journal
    replaying,   \* the boot's replay has not finished
    shown,       \* the stamp the view showed when the request was made
    landed,      \* history: the stamp the request left its row at, 0 when it has not landed
    confirmed,   \* history: the requests answered with success
    on,          \* the member of Hosts at hand
    budget       \* what is left of its bounds

store == <<mem, clock, gen>>
saves == <<queued, inflight, immediates, failure, retrying>>
calls == <<rec, pending, covered, reply>>
host == <<journal, replaying, shown>>
history == <<landed, confirmed>>

vars == <<store, saves, disk, calls, host, history, budget, on>>

Journaled == on.journaled
Target == on.target
Durable == on.durable
Limit == on.limit

NotPending == -1
Unshown == -1
NoRequest == "none"
Timer == "timer"
NoSave == [gen |-> 0, rows |-> <<>>]

Row == [stamp : Nat, val : {"start", "edit", "remote"} \cup {Target[r] : r \in Requests}, gen : Nat]

Forgotten == [at |-> "none", written |-> FALSE, saved |-> FALSE]

Fresh == [stamp |-> 0, val |-> "start", gen |-> 0]

Init ==
    /\ mem = [w \in Rows |-> Fresh]
    /\ clock = 0
    /\ gen = 0
    /\ queued = NoSave
    /\ inflight = NoSave
    /\ immediates = {}
    /\ failure = FALSE
    /\ retrying = NoRequest
    /\ disk = [rows |-> [w \in Rows |-> Fresh], receipts |-> {}]
    /\ rec = [r \in Requests |-> Forgotten]
    /\ pending = [r \in Requests |-> NotPending]
    /\ covered = [r \in Requests |-> {}]
    /\ reply = [r \in Requests |-> "none"]
    /\ journal = <<>>
    /\ replaying = FALSE
    /\ shown = [r \in Requests |-> Unshown]
    /\ landed = [r \in Requests |-> 0]
    /\ confirmed = {}
    /\ on \in Hosts
    /\ budget = on.bounds

Known(r) == rec[r].at # "none"
Running(r) == rec[r].at \in {"writing", "unchanged", "landed", "flush", "again"}
Flushing == {r \in Requests : rec[r].at \in {"flush", "again"}}
Owed(r) == rec[r].at = "idle" /\ ~rec[r].saved
InJournal(r) == r \in ToSet(journal)

Spend(what) == budget[what] > 0 /\ budget' = [budget EXCEPT ![what] = @ - 1]

-----------------------------------------------------------------------------
(* The store and its saves *)

(* A change of one row moves the generation on. *)
Changed(w, v) == [mem EXCEPT ![w] = [stamp |-> clock + 1, val |-> v, gen |-> gen + 1]]

Change(w, v) ==
    /\ mem' = Changed(w, v)
    /\ clock' = clock + 1
    /\ gen' = gen + 1

Snapshot(g, rows) == [gen |-> g, rows |-> rows]

(* Mutation of SingleRowOffered: it is always offered. *)
SingleRowAlways == TRUE

(* NativeReceiptSqliteAdapter: no single-row save while a receipt is pending *)
(* or a receipted write runs.                                                *)
SingleRowOffered ==
    /\ \A r \in Requests : pending[r] = NotPending
    /\ \A r \in Durable : rec[r].at \notin {"writing", "unchanged", "landed"}

SaveSnapshot(rows) ==
    /\ queued' = Snapshot(gen + 1, rows)
    /\ UNCHANGED immediates

SaveRow(w, rows) ==
    /\ SingleRowOffered
    /\ queued = NoSave
    /\ immediates' = immediates \cup {[gen |-> gen + 1, row |-> w, rows |-> rows]}
    /\ UNCHANGED queued

(* A change of the store that is no request's. *)
Edit(w) ==
    /\ ~replaying
    /\ Spend("edits")
    /\ Change(w, "edit")
    /\ SaveSnapshot(Changed(w, "edit")) \/ SaveRow(w, Changed(w, "edit"))
    /\ UNCHANGED <<inflight, failure, retrying, disk, calls, host, history>>

(* Sync saves the document it merged, which the save queue did not build and *)
(* which has no generation: beforeCommit adds no receipt.  It flushes the    *)
(* queue first, writes only over the snapshot it merged, and the store loads *)
(* what it wrote.                                                            *)
SyncWrite(w) ==
    LET rows == [mem EXCEPT ![w] = [stamp |-> clock + 1, val |-> "remote", gen |-> gen + 1]]
    IN  /\ ~replaying
        /\ Spend("syncs")
        /\ queued = NoSave /\ inflight = NoSave /\ immediates = {}
        /\ Change(w, "remote")
        /\ disk' = [disk EXCEPT !.rows = rows]
        /\ UNCHANGED <<saves, calls, host, history>>

(* Of two versions of a row storage keeps the later. *)
Later(a, b) == IF a.stamp <= b.stamp THEN b ELSE a

(* The timer's flush, or that of a request's save, writes the newest         *)
(* snapshot, after the single rows.                                          *)
TakeSnapshot(maker) ==
    /\ immediates = {} /\ inflight = NoSave /\ queued # NoSave
    /\ inflight' = [gen |-> queued.gen, rows |-> queued.rows, maker |-> maker,
                    step |-> "rows", receipts |-> {}]
    /\ queued' = NoSave
    /\ UNCHANGED <<store, immediates, failure, retrying, disk, calls, host, history, budget>>

(* Mutation of Carries: every pending receipt. *)
CarriesAll(g) == {r \in Requests : pending[r] # NotPending}

(* beforeCommit: the receipts of the changes this snapshot holds. *)
Carries(g) == {r \in Requests : pending[r] # NotPending /\ pending[r] <= g}

BeforeCommit ==
    /\ inflight # NoSave
    /\ inflight.step = "rows"
    /\ inflight' = [inflight EXCEPT !.step = "commit", !.receipts = Carries(inflight.gen)]
    /\ UNCHANGED <<store, queued, immediates, failure, retrying, disk, calls, host, history, budget>>

(* COMMIT, and saveData's bookkeeping after it. *)
Commit ==
    /\ inflight # NoSave
    /\ inflight.step = "commit"
    /\ disk' = [rows |-> [w \in Rows |-> Later(disk.rows[w], inflight.rows[w])],
                receipts |-> disk.receipts \cup inflight.receipts]
    /\ pending' = [r \in Requests |-> IF r \in inflight.receipts THEN NotPending ELSE pending[r]]
    /\ inflight' = NoSave
    /\ failure' = FALSE
    /\ UNCHANGED <<store, queued, immediates, retrying, rec, covered, reply, host, history, budget>>

(* These calls answer SAVE_FAILED; each request stays known and owes a save. *)
AnswerOwed(failed) ==
    /\ rec' = [r \in Requests |-> IF r \in failed THEN [rec[r] EXCEPT !.at = "idle"] ELSE rec[r]]
    /\ reply' = [r \in Requests |-> IF r \in failed THEN "owed" ELSE reply[r]]
    /\ covered' = [r \in Requests |-> IF r \in failed THEN {} ELSE covered[r]]
    /\ retrying' = IF retrying \in failed THEN NoRequest ELSE retrying

(* A failed save is rolled back.  A newer snapshot takes its place; else it  *)
(* is tried again, or after the last attempt the flush that made it throws.  *)
Rollback ==
    /\ inflight # NoSave
    /\ Spend("faults")
    /\ inflight' = NoSave
    /\ \/ /\ queued # NoSave
          /\ UNCHANGED <<queued, failure, calls, retrying>>
       \/ /\ queued = NoSave
          /\ queued' = Snapshot(inflight.gen, inflight.rows)
          /\ UNCHANGED <<failure, calls, retrying>>
       \/ /\ queued = NoSave
          /\ failure' = TRUE
          /\ AnswerOwed({inflight.maker} \cap Requests)
          /\ UNCHANGED <<queued, pending>>
    /\ UNCHANGED <<store, immediates, disk, host, history>>

RowSaved(m) ==
    /\ disk' = [disk EXCEPT !.rows[m.row] = Later(@, m.rows[m.row])]
    /\ immediates' = immediates \ {m}
    /\ UNCHANGED <<store, queued, inflight, failure, retrying, calls, host, history, budget>>

(* Its snapshot is queued unless a newer one is, and the flushes that await  *)
(* it reject.                                                                *)
RowFailed(m) ==
    /\ Spend("faults")
    /\ immediates' = immediates \ {m}
    /\ queued' = IF queued # NoSave /\ queued.gen > m.gen THEN queued ELSE Snapshot(m.gen, m.rows)
    /\ failure' = TRUE
    /\ \E rejected \in SUBSET Flushing : AnswerOwed(rejected)
    /\ UNCHANGED <<store, inflight, disk, pending, host, history>>

SaveStep ==
    \/ \E maker \in Flushing \cup {Timer} : TakeSnapshot(maker)
    \/ BeforeCommit
    \/ Commit
    \/ \E m \in immediates : RowSaved(m)

-----------------------------------------------------------------------------
(* A call of run *)

(* The journaling host runs one call at a time, settles it, offers nothing   *)
(* else while a retry is owed, and after a restart goes through its journal. *)
MayCall(r) ==
    IF Journaled
    THEN /\ \A q \in Requests : ~Running(q) /\ (reply[q] # "none" => reply[q] = "owed")
         /\ IF journal # <<>> THEN r = Head(journal) ELSE shown[r] = Unshown
    ELSE ~Running(r)

(* Mutation of Appended: an owed retry is appended again. *)
AppendedAgain(r) == Append(journal, r)

(* append: the same request is never in the journal twice. *)
Appended(r) == IF InJournal(r) THEN journal ELSE Append(journal, r)

(* The request is in the journal before core sees it. *)
Called(r) ==
    /\ MayCall(r)
    /\ journal' = IF Journaled THEN Appended(r) ELSE journal
    /\ shown' = IF shown[r] = Unshown THEN [shown EXCEPT ![r] = mem[On[r]].stamp] ELSE shown
    /\ UNCHANGED replaying

Answer(r, how) == reply' = [reply EXCEPT ![r] = how]

(* Mutation of Stored: the receipts on disk are not asked. *)
StoredNever(r) == FALSE

(* durableReceipts, which holds what is on disk. *)
Stored(r) == r \in Durable /\ r \in disk.receipts

(* Known and saved, or its receipt is on disk: the first reply. *)
AnswerAgain(r) ==
    /\ Called(r)
    /\ \/ Known(r) /\ rec[r].saved
       \/ ~Known(r) /\ Stored(r)
    /\ Answer(r, "ok")
    /\ confirmed' = confirmed \cup {r}
    /\ UNCHANGED <<store, saves, disk, rec, pending, covered, landed, budget>>

(* save: what it covers, and options.save's first half: with a failure on    *)
(* display a new snapshot is queued, unless another retry is under way.      *)
BeginSave(r, written) ==
    /\ rec' = [rec EXCEPT ![r].at = "flush", ![r].written = TRUE]
    /\ covered' = [covered EXCEPT ![r] = written]
    /\ Answer(r, "none")
    /\ IF failure /\ retrying = NoRequest
       THEN /\ retrying' = r
            /\ gen' = gen + 1
            /\ queued' = Snapshot(gen + 1, mem)
       ELSE UNCHANGED <<retrying, gen, queued>>
    /\ UNCHANGED <<mem, clock, inflight, immediates, failure>>

Written == {r \in Requests : rec[r].written}

RetrySave(r) ==
    /\ Called(r)
    /\ Owed(r)
    /\ BeginSave(r, Written)
    /\ UNCHANGED <<disk, pending, history, budget>>

(* Mutation of Evictable: any request that does not run. *)
EvictableUnsaved(r) == rec[r].at = "idle"

Evictable(r) == rec[r].at = "idle" /\ rec[r].saved

Remembered == {r \in Requests : Known(r)}

(* makeRoom, and the request is reserved. *)
StartWrite(r) ==
    /\ Called(r)
    /\ ~Known(r) /\ ~Stored(r)
    /\ \/ /\ Cardinality(Remembered) < Limit
          /\ rec' = [rec EXCEPT ![r] = [Forgotten EXCEPT !.at = "writing"]]
       \/ /\ Cardinality(Remembered) >= Limit
          /\ \E q \in Requests :
                 /\ Evictable(q)
                 /\ rec' = [rec EXCEPT ![q] = Forgotten, ![r] = [Forgotten EXCEPT !.at = "writing"]]
    /\ Answer(r, "none")
    /\ UNCHANGED <<store, saves, disk, pending, covered, history, budget>>

NoRoom(r) ==
    /\ Called(r)
    /\ ~Known(r) /\ ~Stored(r)
    /\ Cardinality(Remembered) >= Limit
    /\ \A q \in Requests : ~Evictable(q)
    /\ Answer(r, "refused")
    /\ UNCHANGED <<store, saves, disk, rec, pending, covered, history, budget>>

-----------------------------------------------------------------------------
(* The write *)

(* A replay whose target holds writes nothing. *)
WriteNothing(r) ==
    /\ rec[r].at = "writing"
    /\ mem[On[r]].val = Target[r]
    /\ rec' = [rec EXCEPT ![r].at = "unchanged"]
    /\ landed' = [landed EXCEPT ![r] = IF @ = 0 THEN mem[On[r]].stamp ELSE @]
    /\ UNCHANGED <<store, saves, disk, pending, covered, reply, host, confirmed, budget>>

(* Mutation of Stale: no compare-and-set. *)
StaleNever(r) == FALSE

(* refuseStale *)
Stale(r) == mem[On[r]].stamp # shown[r]

WriteRefused(r) ==
    /\ rec[r].at = "writing"
    /\ mem[On[r]].val # Target[r]
    /\ Stale(r)
    /\ rec' = [rec EXCEPT ![r] = Forgotten]
    /\ Answer(r, "refused")
    /\ UNCHANGED <<store, saves, disk, pending, covered, host, history, budget>>

WriteLands(r) ==
    /\ rec[r].at = "writing"
    /\ mem[On[r]].val # Target[r]
    /\ ~Stale(r)
    /\ Change(On[r], Target[r])
    /\ SaveSnapshot(Changed(On[r], Target[r])) \/ SaveRow(On[r], Changed(On[r], Target[r]))
    /\ rec' = [rec EXCEPT ![r].at = "landed"]
    /\ landed' = [landed EXCEPT ![r] = clock + 1]
    /\ UNCHANGED <<inflight, failure, retrying, disk, pending, covered, reply, host, confirmed, budget>>

(* recordPendingReceipt *)
RecordPending(r) == pending' = IF r \in Durable THEN [pending EXCEPT ![r] = gen] ELSE pending

(* The write returned: its receipt is pending, and it is saved, *)
WriteReturns(r) ==
    /\ rec[r].at \in {"unchanged", "landed"}
    /\ RecordPending(r)
    /\ BeginSave(r, Written \cup {r})
    /\ UNCHANGED <<disk, host, history, budget>>

(* or it landed while the store could not save it (runStoreWrite).           *)
WriteReturnsUnsaved(r) ==
    /\ rec[r].at = "landed"
    /\ failure
    /\ RecordPending(r)
    /\ rec' = [rec EXCEPT ![r].at = "idle", ![r].written = TRUE]
    /\ Answer(r, "owed")
    /\ UNCHANGED <<store, saves, disk, covered, host, history, budget>>

-----------------------------------------------------------------------------
(* The rest of save *)

Quiet == immediates = {} /\ inflight = NoSave /\ queued = NoSave

EndRetry(r) == retrying' = IF retrying = r THEN NoRequest ELSE retrying

SaveFails(r) ==
    /\ r \in Flushing
    /\ Quiet
    /\ failure
    /\ AnswerOwed({r})
    /\ UNCHANGED <<store, queued, inflight, immediates, failure, disk, pending, host, history, budget>>

(* Its data was saved before its receipt was there: one more snapshot.       *)
SaveAgain(r) ==
    /\ rec[r].at = "flush"
    /\ Quiet
    /\ ~failure
    /\ pending[r] # NotPending
    /\ rec' = [rec EXCEPT ![r].at = "again"]
    /\ gen' = gen + 1
    /\ queued' = Snapshot(gen + 1, mem)
    /\ EndRetry(r)
    /\ UNCHANGED <<mem, clock, inflight, immediates, failure, disk, pending, covered, reply, host, history, budget>>

(* Mutation of ReceiptSaved: the reply waits for the data only. *)
ReceiptSavedOrNot(r) == TRUE

ReceiptSaved(r) == pending[r] = NotPending

SaveSucceeds(r) ==
    /\ r \in Flushing
    /\ Quiet
    /\ ~failure
    /\ ReceiptSaved(r)
    /\ rec' = [q \in Requests |->
                  [rec[q] EXCEPT !.saved = @ \/ (q \in covered[r] /\ Known(q)),
                                 !.at = IF q = r THEN "idle" ELSE @]]
    /\ covered' = [covered EXCEPT ![r] = {}]
    /\ Answer(r, "ok")
    /\ confirmed' = confirmed \cup {r}
    /\ EndRetry(r)
    /\ UNCHANGED <<store, queued, inflight, immediates, failure, disk, pending, host, landed, budget>>

CallStep(r) ==
    \/ WriteNothing(r)
    \/ WriteRefused(r)
    \/ WriteLands(r)
    \/ WriteReturns(r)
    \/ WriteReturnsUnsaved(r)
    \/ SaveFails(r)
    \/ SaveAgain(r)
    \/ SaveSucceeds(r)

-----------------------------------------------------------------------------
(* The host *)

Call(r) == AnswerAgain(r) \/ RetrySave(r) \/ StartWrite(r) \/ NoRoom(r)

(* Mutation of Keeps: every reply is final. *)
KeepsNothing(how) == FALSE

(* Mutation of Keeps: a refused request is sent again too. *)
KeepsRefused(how) == how # "ok"

(* WriteJournal.keeps *)
Keeps(how) == how = "owed"

(* settle: the entry leaves after the final reply. *)
Settle(r) ==
    /\ InJournal(r)
    /\ reply[r] # "none"
    /\ ~Keeps(reply[r])
    /\ journal' = SelectSeq(journal, LAMBDA q : q # r)
    /\ replaying' = (replaying /\ journal' # <<>>)
    /\ reply' = [reply EXCEPT ![r] = "none"]
    /\ UNCHANGED <<store, saves, disk, rec, pending, covered, shown, history, budget>>

(* The process ends and starts again from what is on disk.                   *)
Restart ==
    /\ Spend("crashes")
    /\ mem' = [w \in Rows |-> [disk.rows[w] EXCEPT !.gen = 0]]
    /\ disk' = [disk EXCEPT !.rows = [w \in Rows |-> [disk.rows[w] EXCEPT !.gen = 0]]]
    /\ gen' = 0
    /\ queued' = NoSave
    /\ inflight' = NoSave
    /\ immediates' = {}
    /\ failure' = FALSE
    /\ retrying' = NoRequest
    /\ rec' = [r \in Requests |-> Forgotten]
    /\ pending' = [r \in Requests |-> NotPending]
    /\ covered' = [r \in Requests |-> {}]
    /\ reply' = [r \in Requests |-> "none"]
    /\ replaying' = (journal # <<>>)
    /\ landed' = [r \in Requests |-> IF landed[r] <= disk.rows[On[r]].stamp THEN landed[r] ELSE 0]
    /\ UNCHANGED <<clock, journal, shown, confirmed>>

Step ==
    \/ \E w \in Rows : Edit(w) \/ SyncWrite(w)
    \/ SaveStep
    \/ Rollback
    \/ \E m \in immediates : RowFailed(m)
    \/ \E r \in on.sends : Call(r) \/ CallStep(r) \/ Settle(r)
    \/ Restart

Next == Step /\ UNCHANGED on

(* The event loop goes on, storage answers, and the host sends what is left  *)
(* in its journal again (at a boot, and as the retry the user is offered).   *)
Fairness ==
    /\ WF_vars(SaveStep /\ UNCHANGED on)
    /\ WF_vars((\E r \in Requests : CallStep(r)) /\ UNCHANGED on)
    /\ WF_vars((\E r \in Requests : InJournal(r) /\ Call(r)) /\ UNCHANGED on)
    /\ WF_vars((\E r \in Requests : Settle(r)) /\ UNCHANGED on)

Spec == Init /\ [][Next]_vars /\ Fairness

-----------------------------------------------------------------------------
TypeOK ==
    /\ mem \in [Rows -> Row]
    /\ clock \in Nat /\ gen \in Nat
    /\ failure \in BOOLEAN
    /\ retrying \in Requests \cup {NoRequest}
    /\ disk.rows \in [Rows -> Row]
    /\ disk.receipts \subseteq Durable
    /\ rec \in [Requests -> [at : {"none", "writing", "unchanged", "landed", "flush", "again", "idle"},
                             written : BOOLEAN, saved : BOOLEAN]]
    /\ pending \in [Requests -> Nat \cup {NotPending}]
    /\ covered \in [Requests -> SUBSET Requests]
    /\ reply \in [Requests -> {"none", "ok", "owed", "refused"}]
    /\ IsInjective(journal) /\ ToSet(journal) \subseteq Requests
    /\ replaying \in BOOLEAN
    /\ landed \in [Requests -> Nat]

OnDisk(r) == disk.rows[On[r]].stamp >= landed[r]

(* A receipt on disk proves its data: a restart that answers from the        *)
(* receipt runs nothing, so a receipt carried by a save that lacks the write *)
(* would lose the write.                                                     *)
ReceiptProvesData == \A r \in disk.receipts : OnDisk(r)

(* native-request-receipts.ts: "no later change reaches the disk before that *)
(* receipt".  A sync cycle's write has no generation and is not held back.   *)
ReceiptBeforeLaterChanges ==
    \A r \in Requests, w \in Rows : 
        on.bounds.syncs = 0 /\ pending[r] # NotPending => disk.rows[w].gen <= pending[r]

(* native-request-receipts.ts: "the reply waits for that commit": what was   *)
(* answered with success is on disk and, when the host sends one request at  *)
(* a time, its receipt is.                                                   *)
ConfirmedIsDurable ==
    \A r \in confirmed : OnDisk(r) /\ (Journaled /\ r \in Durable => r \in disk.receipts)

(* "A write whose save has not succeeded is never forgotten": its retry      *)
(* finishes it, and no other request takes its place.                        *)
UnsavedRemembered == \A r \in Requests : OnDisk(r) \/ Known(r)

(* A request changes its row once: not again by a retry, by a second call    *)
(* after it was evicted, nor by the journal after a restart, whatever        *)
(* changed the row since.                                                    *)
WritesOnce ==
    [][\A r \in Requests :
           rec[r].at = "writing" /\ rec'[r].at = "landed" => landed[r] = 0]_vars

(* A request whose receipt is on disk is never refused: every later call has *)
(* the first reply.                                                          *)
FirstReplyStands ==
    [][\A r \in Requests : reply'[r] = "refused" /\ reply[r] # "refused" => r \notin disk.receipts]_vars

(* WriteJournal.kt: SAVE_FAILED keeps an entry, "the write landed in memory  *)
(* only, and the owed retry (or the next boot) saves it".                    *)
UnsavedInJournal == Journaled => \A r \in Requests : OnDisk(r) \/ InJournal(r)

(* Every request leaves the journal: again and again it is empty. *)
JournalEmpties == []<>(journal = <<>>)

(* What a receipt, a reply and a journal entry prove, whatever crashed.      *)
ReceiptsInv ==
    /\ TypeOK
    /\ ReceiptProvesData
    /\ ReceiptBeforeLaterChanges
    /\ ConfirmedIsDurable
    /\ UnsavedRemembered
    /\ UnsavedInJournal

(* A repeated request is answered, not done again and not refused.           *)
RepliesStand == WritesOnce /\ FirstReplyStands
=============================================================================
