------------------------------ MODULE SaveQueue ------------------------------
(***************************************************************************)
(* packages/core/src/store.ts: how the edits of the in-memory store reach  *)
(* the storage adapter.                                                    *)
(*                                                                         *)
(* An edit of one task is written at once as a single row (an "immediate"  *)
(* save) when nothing is queued; every other edit queues a snapshot of the *)
(* whole store, and a flush writes the newest one.  Both draw an ordinal   *)
(* from one counter.  A snapshot holds the revision of each task; an edit  *)
(* raises one revision.  Storage keeps the higher revision of a row        *)
(* (sqlite-adapter.ts TASK_UPSERT_UPDATE_CLAUSE, storage.rs                *)
(* upsert_task_row).  The adapter's writes complete in any order here; the *)
(* platform adapters run them first in first out, which is one of them.    *)
(***************************************************************************)
EXTENDS Integers, Sequences, FiniteSets

CONSTANTS
    Tasks,
    FlushCallers,   \* the timer's, the application's and the sync's calls of flushPendingSave
    RetryCaller,    \* the flush of retryPendingPersistence: at most one at a time
    MaxPending,     \* MAX_PENDING_SAVES
    MaxAttempts,    \* MAX_SAVE_RETRY_ATTEMPTS
    MaxVersion      \* bound on the ordinals drawn

ASSUME BoundsAssumption ==
    /\ MaxPending \in Nat \ {0}
    /\ MaxAttempts \in Nat \ {0}
    /\ MaxVersion \in Nat
    /\ RetryCaller \notin FlushCallers

VARIABLES
    mem,             \* the store: the revision of each task
    disk,            \* what storage holds
    pendingVersion,  \* the latest ordinal drawn
    savedVersion,    \* the ordinal of the latest snapshot saved
    pendingSaves,    \* the queue of snapshots
    immediates,      \* immediateSavesInFlight
    saveInFlight,    \* the snapshot being written, or NoSave
    timer,           \* scheduledSaveTimer is set
    pc,              \* where each call of flushPendingSave is
    awaited,         \* the immediate saves it awaits
    failure,         \* persistenceFailure is shown
    stateAt          \* history: the store when each ordinal was drawn

vars == <<mem, disk, pendingVersion, savedVersion, pendingSaves, immediates,
          saveInFlight, timer, pc, awaited, failure, stateAt>>

Callers == FlushCallers \cup {RetryCaller}

Revisions == [Tasks -> Nat]

PendingSave == [version : Nat, data : Revisions, attempts : 0..(MaxAttempts - 1)]

ImmediateSave == [version : Nat, task : Tasks, data : Revisions]

(* saveInFlight = null *)
NoSave == [version |-> 0, data |-> [t \in Tasks |-> 0], attempts |-> 0]

Init ==
    /\ mem = [t \in Tasks |-> 0]
    /\ disk = [t \in Tasks |-> 0]
    /\ pendingVersion = 0
    /\ savedVersion = 0
    /\ pendingSaves = <<>>
    /\ immediates = {}
    /\ saveInFlight = NoSave
    /\ timer = FALSE
    /\ pc = [c \in Callers |-> "idle"]
    /\ awaited = [c \in Callers |-> {}]
    /\ failure = FALSE
    /\ stateAt = <<>>

-----------------------------------------------------------------------------
(* Queueing *)

Newest(queue) == queue[Len(queue)]

(* enforcePendingSaveCap drops the oldest snapshots, *)
Capped(queue) ==
    IF Len(queue) <= MaxPending THEN queue
    ELSE SubSeq(queue, Len(queue) - MaxPending + 1, Len(queue))

(* and reports that it did. *)
Overflows(queue) == Len(queue) > MaxPending

HasNewer(version) == \E i \in 1..Len(pendingSaves) : pendingSaves[i].version > version

(* Both kinds of save draw an ordinal in the step that takes the snapshot. *)
DrawVersion(revisions) ==
    /\ pendingVersion < MaxVersion
    /\ mem' = revisions
    /\ pendingVersion' = pendingVersion + 1
    /\ stateAt' = Append(stateAt, revisions)

(* enqueuePendingSave *)
Enqueue(version, data) ==
    LET queue == Append(pendingSaves, [version |-> version, data |-> data, attempts |-> 0])
    IN  /\ pendingSaves' = Capped(queue)
        /\ failure' = (failure \/ Overflows(queue))

Raised(t) == [mem EXCEPT ![t] = @ + 1]

(* An edit that a single row can carry, with no snapshot queued. *)
EditRow(t) ==
    /\ pendingSaves = <<>>
    /\ DrawVersion(Raised(t))
    /\ immediates' = immediates \cup
           {[version |-> pendingVersion + 1, task |-> t, data |-> Raised(t)]}
    /\ UNCHANGED <<disk, savedVersion, pendingSaves, saveInFlight, timer, pc, awaited, failure>>

(* Mutation of EditSnapshot: the flush is not scheduled. *)
EditUnscheduled(t) ==
    /\ DrawVersion(Raised(t))
    /\ Enqueue(pendingVersion + 1, Raised(t))
    /\ UNCHANGED <<disk, savedVersion, immediates, saveInFlight, timer, pc, awaited>>

(* Any other edit: debouncedSave. *)
EditSnapshot(t) ==
    /\ DrawVersion(Raised(t))
    /\ Enqueue(pendingVersion + 1, Raised(t))
    /\ timer' = TRUE
    /\ UNCHANGED <<disk, savedVersion, immediates, saveInFlight, pc, awaited>>

-----------------------------------------------------------------------------
(* Immediate saves.  What storage does with a row is decided by revision.    *)

(* Mutation of KeepHigher: the row written last wins. *)
KeepWritten(stored, written) == written

KeepHigher(stored, written) == IF stored <= written THEN written ELSE stored

(* Promise.all of a flush goes on when the last save it awaits is done. *)
ImmediateSaved(m) ==
    /\ disk' = [disk EXCEPT ![m.task] = KeepHigher(@, m.data[m.task])]
    /\ immediates' = immediates \ {m}
    /\ awaited' = [c \in Callers |-> awaited[c] \ {m.version}]
    /\ pc' = [c \in Callers |-> IF awaited[c] = {m.version} THEN "check" ELSE pc[c]]
    /\ UNCHANGED <<mem, pendingVersion, savedVersion, pendingSaves, saveInFlight, timer,
                   failure, stateAt>>

(* Promise.all rejects on the first failure, and the flush with it. *)
RejectAwaiting(m) ==
    /\ pc' = [c \in Callers |-> IF m.version \in awaited[c] THEN "idle" ELSE pc[c]]
    /\ awaited' = [c \in Callers |-> IF m.version \in awaited[c] THEN {} ELSE awaited[c]]

(* Mutation of ImmediateFailed: a later ordinal is taken for a later snapshot. *)
ImmediateFailedByCounter(m) ==
    /\ IF pendingVersion > m.version THEN UNCHANGED pendingSaves
       ELSE pendingSaves' = Capped(Append(pendingSaves,
                [version |-> m.version, data |-> m.data, attempts |-> 0]))
    /\ failure' = TRUE
    /\ immediates' = immediates \ {m}
    /\ RejectAwaiting(m)
    /\ UNCHANGED <<mem, disk, pendingVersion, savedVersion, saveInFlight, timer, stateAt>>

(* Mutation of ImmediateFailed: the retry draws an ordinal of its own. *)
ImmediateFailedFreshOrdinal(m) ==
    /\ IF HasNewer(m.version) THEN UNCHANGED <<pendingSaves, pendingVersion, stateAt>>
       ELSE /\ pendingVersion' = pendingVersion + 1
            /\ stateAt' = Append(stateAt, mem)
            /\ pendingSaves' = Capped(Append(pendingSaves,
                   [version |-> pendingVersion + 1, data |-> m.data, attempts |-> 0]))
    /\ failure' = TRUE
    /\ immediates' = immediates \ {m}
    /\ RejectAwaiting(m)
    /\ UNCHANGED <<mem, disk, savedVersion, saveInFlight, timer>>

(* The snapshot kept for the retry is queued under the ordinal of the        *)
(* dispatch, without a timer, unless a newer snapshot is queued.             *)
ImmediateFailed(m) ==
    /\ IF HasNewer(m.version) THEN UNCHANGED pendingSaves
       ELSE pendingSaves' = Capped(Append(pendingSaves,
                [version |-> m.version, data |-> m.data, attempts |-> 0]))
    /\ failure' = TRUE
    /\ immediates' = immediates \ {m}
    /\ RejectAwaiting(m)
    /\ UNCHANGED <<mem, disk, pendingVersion, savedVersion, saveInFlight, timer, stateAt>>

-----------------------------------------------------------------------------
(* flushPendingSave *)

(* A call clears the timer first; the timer's own callback is such a call. *)
Flush(c) ==
    /\ pc[c] = "idle"
    /\ timer' = FALSE
    /\ pc' = [pc EXCEPT ![c] = "check"]
    /\ UNCHANGED <<mem, disk, pendingVersion, savedVersion, pendingSaves, immediates,
                   saveInFlight, awaited, failure, stateAt>>

TimerFires(c) == timer /\ Flush(c)

(* retryPendingPersistence: persistSnapshot, then a flush. *)
RetryPersistence ==
    /\ pc[RetryCaller] = "idle"
    /\ failure
    /\ DrawVersion(mem)
    /\ Enqueue(pendingVersion + 1, mem)
    /\ timer' = FALSE
    /\ pc' = [pc EXCEPT ![RetryCaller] = "check"]
    /\ UNCHANGED <<disk, savedVersion, immediates, saveInFlight, awaited>>

AwaitImmediates(c) ==
    /\ pc[c] = "check"
    /\ immediates # {}
    /\ pc' = [pc EXCEPT ![c] = "await"]
    /\ awaited' = [awaited EXCEPT ![c] = {m.version : m \in immediates}]
    /\ UNCHANGED <<mem, disk, pendingVersion, savedVersion, pendingSaves, immediates,
                   saveInFlight, timer, failure, stateAt>>

JoinSave(c) ==
    /\ pc[c] = "check"
    /\ immediates = {}
    /\ saveInFlight # NoSave
    /\ pc' = [pc EXCEPT ![c] = "joined"]
    /\ UNCHANGED <<mem, disk, pendingVersion, savedVersion, pendingSaves, immediates,
                   saveInFlight, timer, awaited, failure, stateAt>>

ReturnEmpty(c) ==
    /\ pc[c] = "check"
    /\ immediates = {}
    /\ saveInFlight = NoSave
    /\ pendingSaves = <<>>
    /\ pc' = [pc EXCEPT ![c] = "idle"]
    /\ UNCHANGED <<mem, disk, pendingVersion, savedVersion, pendingSaves, immediates,
                   saveInFlight, timer, awaited, failure, stateAt>>

(* The most attempts any of the queued snapshots has behind it. *)
AttemptsBehind(queue) ==
    LET tried == {queue[i].attempts : i \in 1..Len(queue)}
    IN  CHOOSE a \in tried : \A b \in tried : b <= a

(* Mutation of MayTake: immediate saves in flight are not waited for. *)
MayTakeDuringImmediates == saveInFlight = NoSave /\ pendingSaves # <<>>

MayTake ==
    /\ immediates = {}
    /\ saveInFlight = NoSave
    /\ pendingSaves # <<>>

(* The whole queue is taken; its last snapshot is written. *)
TakeQueue(c) ==
    LET latest == Newest(pendingSaves)
    IN  /\ pc[c] = "check"
        /\ MayTake
        /\ pendingSaves' = <<>>
        /\ IF latest.version <= savedVersion
           THEN UNCHANGED <<saveInFlight, pc>>
           ELSE /\ saveInFlight' = [latest EXCEPT !.attempts = AttemptsBehind(pendingSaves)]
                /\ pc' = [pc EXCEPT ![c] = "saving"]
        /\ UNCHANGED <<mem, disk, pendingVersion, savedVersion, immediates, timer, awaited,
                       failure, stateAt>>

(* Everybody who awaits saveInFlight goes back to the top of the loop; the   *)
(* call that made the save goes to `outcome`.                                *)
SaveDone(c, outcome) ==
    pc' = [d \in Callers |-> IF d = c THEN outcome
                             ELSE IF pc[d] = "joined" THEN "check" ELSE pc[d]]

SnapshotSaved(c) ==
    /\ pc[c] = "saving"
    /\ disk' = [t \in Tasks |-> KeepHigher(disk[t], saveInFlight.data[t])]
    /\ savedVersion' = saveInFlight.version
    /\ failure' = FALSE
    /\ saveInFlight' = NoSave
    /\ SaveDone(c, "check")
    /\ UNCHANGED <<mem, pendingVersion, pendingSaves, immediates, timer, awaited, stateAt>>

(* A newer snapshot replaces the failed one. *)
SnapshotSuperseded(c) ==
    /\ pc[c] = "saving"
    /\ HasNewer(saveInFlight.version)
    /\ saveInFlight' = NoSave
    /\ SaveDone(c, "check")
    /\ UNCHANGED <<mem, disk, pendingVersion, savedVersion, pendingSaves, immediates, timer,
                   awaited, failure, stateAt>>

(* It is put back at the front of the queue for another attempt, *)
SnapshotRequeued(c) ==
    LET queue == <<[saveInFlight EXCEPT !.attempts = @ + 1]>> \o pendingSaves
    IN  /\ pc[c] = "saving"
        /\ ~HasNewer(saveInFlight.version)
        /\ saveInFlight.attempts + 1 < MaxAttempts
        /\ pendingSaves' = Capped(queue)
        /\ failure' = (failure \/ Overflows(queue))
        /\ saveInFlight' = NoSave
        /\ SaveDone(c, "sleep")
        /\ UNCHANGED <<mem, disk, pendingVersion, savedVersion, immediates, timer, awaited, stateAt>>

(* Mutation of SnapshotGivenUp: the failure is not reported. *)
SnapshotForgotten(c) ==
    /\ pc[c] = "saving"
    /\ ~HasNewer(saveInFlight.version)
    /\ saveInFlight.attempts + 1 >= MaxAttempts
    /\ saveInFlight' = NoSave
    /\ SaveDone(c, "idle")
    /\ UNCHANGED <<mem, disk, pendingVersion, savedVersion, pendingSaves, immediates, timer,
                   awaited, failure, stateAt>>

(* or, after the last attempt, dropped; the call throws. *)
SnapshotGivenUp(c) ==
    /\ pc[c] = "saving"
    /\ ~HasNewer(saveInFlight.version)
    /\ saveInFlight.attempts + 1 >= MaxAttempts
    /\ failure' = TRUE
    /\ saveInFlight' = NoSave
    /\ SaveDone(c, "idle")
    /\ UNCHANGED <<mem, disk, pendingVersion, savedVersion, pendingSaves, immediates, timer,
                   awaited, stateAt>>

(* The delay before the next attempt is over. *)
Wake(c) ==
    /\ pc[c] = "sleep"
    /\ pc' = [pc EXCEPT ![c] = "check"]
    /\ UNCHANGED <<mem, disk, pendingVersion, savedVersion, pendingSaves, immediates,
                   saveInFlight, timer, awaited, failure, stateAt>>

FlushStep(c) ==
    \/ AwaitImmediates(c)
    \/ JoinSave(c)
    \/ ReturnEmpty(c)
    \/ TakeQueue(c)
    \/ Wake(c)

SnapshotWritten(c) ==
    \/ SnapshotSaved(c)
    \/ SnapshotSuperseded(c)
    \/ SnapshotRequeued(c)
    \/ SnapshotGivenUp(c)

ImmediateWritten == \E m \in immediates : ImmediateSaved(m) \/ ImmediateFailed(m)

Next ==
    \/ \E t \in Tasks : EditRow(t) \/ EditSnapshot(t)
    \/ ImmediateWritten
    \/ RetryPersistence
    \/ \E c \in FlushCallers : Flush(c) \/ TimerFires(c)
    \/ \E c \in Callers : FlushStep(c) \/ SnapshotWritten(c)

(* The event loop runs what is ready, timers fire, storage answers. *)
Fairness ==
    /\ WF_vars(\E c \in FlushCallers : TimerFires(c))
    /\ WF_vars(ImmediateWritten)
    /\ WF_vars(\E c \in Callers : FlushStep(c))
    /\ WF_vars(\E c \in Callers : SnapshotWritten(c))

Spec == Init /\ [][Next]_vars /\ Fairness

-----------------------------------------------------------------------------
TypeOK ==
    /\ mem \in Revisions
    /\ disk \in Revisions
    /\ pendingVersion \in Nat
    /\ savedVersion \in Nat
    /\ pendingSaves \in Seq(PendingSave)
    /\ immediates \subseteq ImmediateSave
    /\ saveInFlight \in PendingSave
    /\ timer \in BOOLEAN
    /\ pc \in [Callers -> {"idle", "check", "await", "joined", "saving", "sleep"}]
    /\ awaited \in [Callers -> SUBSET Nat]
    /\ failure \in BOOLEAN
    /\ stateAt \in Seq(Revisions)

(* The history: each save carries the store as it was when its ordinal was   *)
(* drawn.                                                                    *)
SnapshotsOfHistory ==
    /\ Len(stateAt) = pendingVersion
    /\ \A i \in 1..Len(pendingSaves) :
           /\ pendingSaves[i].version \in 1..pendingVersion
           /\ pendingSaves[i].data = stateAt[pendingSaves[i].version]
    /\ \A m \in immediates : m.version \in 1..pendingVersion /\ m.data = stateAt[m.version]
    /\ saveInFlight # NoSave =>
           /\ saveInFlight.version \in 1..pendingVersion
           /\ saveInFlight.data = stateAt[saveInFlight.version]
    /\ savedVersion \in 0..pendingVersion

(* The queue is in the order of its snapshots, so that its last one is the   *)
(* newest; no ordinal is used twice; and everything that can still be queued *)
(* is newer than what has been, or is being, saved.                          *)
QueueInOrder ==
    /\ \A i, j \in 1..Len(pendingSaves) :
           i < j => pendingSaves[i].version < pendingSaves[j].version
    /\ \A i \in 1..Len(pendingSaves) :
           /\ pendingSaves[i].version > savedVersion
           /\ pendingSaves[i].version > saveInFlight.version
           /\ \A m \in immediates : m.version # pendingSaves[i].version
    /\ \A m, n \in immediates : m.version = n.version => m = n
    /\ \A m \in immediates : m.version > savedVersion /\ m.version > saveInFlight.version
    /\ saveInFlight # NoSave => saveInFlight.version > savedVersion

(* Who waits for what. *)
CallersInStep ==
    /\ \A c, d \in Callers : pc[c] = "saving" /\ pc[d] = "saving" => c = d
    /\ saveInFlight # NoSave <=> \E c \in Callers : pc[c] = "saving"
    /\ \A c \in Callers : awaited[c] # {} <=> pc[c] = "await"

(* Task t is stored, or a save newer than `version', under way or the newest *)
(* one queued, carries its revision.                                         *)
CarriedAfter(version, t) ==
    \/ disk[t] >= mem[t]
    \/ \E m \in immediates : m.version > version /\ m.task = t /\ m.data[t] = mem[t]
    \/ /\ pendingSaves # <<>>
       /\ Newest(pendingSaves).version > version
       /\ Newest(pendingSaves).data[t] = mem[t]

Carried(t) == CarriedAfter(0, t)

(* What the store has that a save has not is carried by a later one: its     *)
(* success may clear a failure reported meanwhile, and its own failure may   *)
(* leave it behind a newer snapshot.                                         *)
NewerIsCarried(save) ==
    \A t \in Tasks : mem[t] = save.data[t] \/ CarriedAfter(save.version, t)

LaterEditsCarried ==
    /\ saveInFlight # NoSave => NewerIsCarried(saveInFlight)
    /\ \A m \in immediates : NewerIsCarried(m)
    /\ pendingSaves # <<>> => NewerIsCarried(Newest(pendingSaves))

(* No edit is silently unsaved: the store's revision of every task is in     *)
(* storage, or a save carries it, or the failure is on display.  The cap of  *)
(* the queue, the attempts given up, the superseded snapshots and the        *)
(* clearing of an older failure never hide one.                              *)
NothingUnaccounted ==
    failure \/ \A t \in Tasks : Carried(t) \/ (saveInFlight # NoSave /\ saveInFlight.data[t] = mem[t])

(* A queued snapshot is not stranded: a timer or a running flush will take   *)
(* it, or the failure is on display (and offers the retry).                  *)
NothingStranded ==
    pendingSaves # <<>> => timer \/ failure \/ \E c \in Callers : pc[c] # "idle"

(* store.ts: "a snapshot tagged g holds every change saved at generation g   *)
(* or before: a save of it makes all of them durable".                       *)
SavedGenerationDurable ==
    savedVersion > 0 => \A t \in Tasks : disk[t] >= stateAt[savedVersion][t]

(* The bookkeeping of the queue, on which what it promises rests. *)
Bookkeeping ==
    /\ TypeOK
    /\ SnapshotsOfHistory
    /\ QueueInOrder
    /\ CallersInStep
    /\ LaterEditsCarried

(* The inductive invariant of the queue. *)
SaveQueueInv ==
    /\ Bookkeeping
    /\ NothingUnaccounted
    /\ NothingStranded
    /\ SavedGenerationDurable

(* No write takes a row back, although a snapshot may be retried after newer *)
(* rows were written on their own.                                           *)
DiskNeverGoesBack == [][\A t \in Tasks : disk'[t] >= disk[t]]_vars

(* Every edit is stored in the end, or its failure is reported. *)
SavedOrReported == []<>((\A t \in Tasks : disk[t] >= mem[t]) \/ failure)
=============================================================================
