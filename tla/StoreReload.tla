----------------------------- MODULE StoreReload -----------------------------
(***************************************************************************)
(* packages/core/src/store-settings.ts: fetchData, which replaces the rows *)
(* of the store by those in storage, beside the save queue.                *)
(*                                                                         *)
(* It flushes what is pending, reads storage, and gives up if an edit was  *)
(* made meanwhile (lastDataChangeAt).  Only an edit moves that stamp.      *)
(***************************************************************************)
EXTENDS SaveQueue

CONSTANT FetchCaller   \* the flush of fetchData

ASSUME FetchCallerAssumption == FetchCaller \in FlushCallers

VARIABLES
    fetch,    \* "idle", "flushing", "reading" or "read"; "never": no reload at all
    edited,   \* an edit was made since the fetch looked at lastDataChangeAt
    loaded    \* the rows it read

reloadVars == <<vars, fetch, edited, loaded>>

ReloadInit ==
    /\ Init
    /\ fetch \in {"idle", "never"}
    /\ edited = FALSE
    /\ loaded = [t \in Tasks |-> 0]

HasPendingSaveWork == pendingSaves # <<>> \/ saveInFlight # NoSave \/ immediates # {}

FetchData ==
    /\ fetch = "idle"
    /\ IF HasPendingSaveWork
       THEN fetch' = "flushing" /\ Flush(FetchCaller)
       ELSE fetch' = "reading" /\ UNCHANGED vars
    /\ edited' = FALSE
    /\ UNCHANGED loaded

ReadStorage ==
    /\ fetch = "reading"
    /\ loaded' = disk
    /\ fetch' = "read"
    /\ UNCHANGED <<vars, edited>>

(* The read fails or times out, an editor is open, or the caller has lost    *)
(* interest in the result.                                                   *)
FetchGivesUp ==
    /\ fetch \in {"reading", "read"}
    /\ fetch' = "idle"
    /\ UNCHANGED <<vars, edited, loaded>>

(* Mutation of ApplyLoad: the stamp of the latest edit is not compared. *)
ApplyAnyLoad ==
    /\ fetch = "read"
    /\ fetch' = "idle"
    /\ mem' = loaded
    /\ UNCHANGED <<disk, pendingVersion, savedVersion, pendingSaves, immediates, saveInFlight,
                   timer, pc, awaited, failure, stateAt, edited, loaded>>

ApplyLoad ==
    /\ fetch = "read"
    /\ fetch' = "idle"
    /\ mem' = IF edited THEN mem ELSE loaded
    /\ UNCHANGED <<disk, pendingVersion, savedVersion, pendingSaves, immediates, saveInFlight,
                   timer, pc, awaited, failure, stateAt, edited, loaded>>

(* A fetch that flushes goes on when its flush returns (from the top of its  *)
(* loop), looks at lastDataChangeAt then, and fails when its flush throws.   *)
AfterFlush ==
    LET ends == fetch = "flushing" /\ pc[FetchCaller] # "idle" /\ pc'[FetchCaller] = "idle"
    IN  /\ fetch' = IF ~ends THEN fetch
                    ELSE IF pc[FetchCaller] = "check" THEN "reading" ELSE "idle"
        /\ edited' = (edited /\ ~ends)

(* The save queue's steps: an edit, or the work of the queue.  Without       *)
(* reloads the caller that fetchData would be is one more flush.             *)
EditStep ==
    /\ \E t \in Tasks : EditRow(t) \/ EditSnapshot(t)
    /\ edited' = TRUE
    /\ UNCHANGED <<fetch, loaded>>

QueueStep ==
    /\ \/ ImmediateWritten
       \/ RetryPersistence
       \/ \E c \in FlushCallers :
             (c # FetchCaller \/ fetch = "never") /\ (Flush(c) \/ TimerFires(c))
       \/ \E d \in Callers : FlushStep(d) \/ SnapshotWritten(d)
    /\ AfterFlush
    /\ UNCHANGED loaded

ReloadNext ==
    \/ FetchData
    \/ QueueStep
    \/ ReadStorage
    \/ FetchGivesUp
    \/ ApplyLoad
    \/ EditStep

ReloadSpec == ReloadInit /\ [][ReloadNext]_reloadVars /\ Fairness

ReloadTypeOK ==
    /\ fetch \in {"idle", "flushing", "reading", "read", "never"}
    /\ edited \in BOOLEAN
    /\ loaded \in Revisions

(* Storage is still at least what was read from it. *)
LoadedIsStored == \A t \in Tasks : loaded[t] <= disk[t]

(* While storage is being read and nobody edits, only the retry of a failed  *)
(* save can be under way, with what the store has; every other edit was      *)
(* saved by the flush.                                                       *)
ReadingIsQuiet ==
    fetch \in {"reading", "read"} /\ ~edited =>
        /\ immediates = {}
        /\ saveInFlight # NoSave => saveInFlight.data = mem
        /\ \A i \in 1..Len(pendingSaves) : pendingSaves[i].data = mem
        /\ failure \/ \A t \in Tasks : mem[t] <= disk[t]

(* The banner of a failed save, i18n 'persistence.failureMessage': "Your     *)
(* latest changes could not be saved. Keep Mindwtr open and try again."  A   *)
(* change the store holds and storage does not stays in the store until it   *)
(* has been saved.                                                           *)
(* A claim the code does not keep (README, section 4); no run checks it.     *)
UnsavedStaysInStore ==
    [][\A t \in Tasks : mem'[t] < mem[t] => mem[t] <= disk[t]]_reloadVars

(* A reload takes an unsaved change out of the store only while the failure  *)
(* of its save is on display: the flush before the read and the stamp        *)
(* compared after it cover every other edit, whenever it is made.            *)
ReloadDropsOnlyReported ==
    [][\A t \in Tasks : mem'[t] < mem[t] => mem[t] <= disk[t] \/ failure]_reloadVars

(* What holds between any two steps of the queue and of a reload: every      *)
(* unsaved edit is on its way or reported, none without somebody to flush    *)
(* it, and a generation reported as saved is on the disk.                    *)
QueueInv == SaveQueueInv /\ ReloadTypeOK /\ LoadedIsStored /\ ReadingIsQuiet

(* Neither a save nor a reload takes a row back to an older state.           *)
NothingGoesBack == DiskNeverGoesBack /\ ReloadDropsOnlyReported
=============================================================================
