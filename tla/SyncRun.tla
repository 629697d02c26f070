------------------------------- MODULE SyncRun -------------------------------
(***************************************************************************)
(* One sync run of the desktop client, from packages/core/src/sync-run.ts  *)
(* (SharedSyncRunMachine) and the cycle it drives, performSyncCycleUnlocked*)
(* in packages/core/src/sync.ts, against a store the user keeps editing, a *)
(* disk the store saves to by itself, peers that write the same remote     *)
(* document, failing requests and crashes.                                 *)
(*                                                                         *)
(* A document is the set of changes it holds.  Each change is a row of its *)
(* own, so that merging documents (EntityMerge for one row) and saving one *)
(* over another (rows omitted from a save stay) both are unions.  What a   *)
(* step replaces wholesale is the point: the store's content by applyData- *)
(* ToStore, the remote document by a conditional PUT.                      *)
(*                                                                         *)
(* A step ends where the code awaits input or output.  Left out: attachment *)
(* phases, calendars, activation probes, the read-check skip and the idle  *)
(* snapshot, encryption.                                                   *)
(***************************************************************************)
EXTENDS Integers, FiniteSets

CONSTANTS
    Backends,         \* "fenced" (WebDAV and Dropbox: conditional PUT under the remote
                      \* fence) and "cloud" (self-hosted: the server merges a PUT)
    RetryBase,        \* PENDING_REMOTE_WRITE_RETRY_BASE_MS
    RetryMax,         \* PENDING_REMOTE_WRITE_RETRY_MAX_MS
    AttemptCap,       \* PENDING_REMOTE_WRITE_MAX_ATTEMPTS
    MaxTime,          \* bound: clock
    MaxEdits,         \* bound: changes the user makes
    MaxPeerWrites,    \* bound: changes peers publish
    MaxFailures,      \* bound: failed requests
    MaxCrashes        \* bound: crashes of the app

ASSUME RunConstants ==
    /\ Backends \subseteq {"fenced", "cloud"}
    /\ RetryBase \in Nat /\ RetryMax \in Nat /\ AttemptCap \in Nat \ {0}
    /\ \A n \in {MaxTime, MaxEdits, MaxPeerWrites, MaxFailures, MaxCrashes} : n \in Nat

VARIABLES
    store,      \* in memory: docs, mark, stamp (lastDataChangeAt)
    disk,       \* persisted: docs, mark
    unsaved,    \* newest queued save of the store, or Nothing
    remote,     \* the remote document: docs, version (ETag, rev, fingerprint), its backend
    fast,       \* recorded fast-sync state: docs, version, or Nothing
    run,        \* the run in progress
    queued,     \* does the orchestrator hold a follow-up?
    nudge,      \* is an auto-sync timer set (after an edit, after a failure)?
    time,
    made,       \* history: changes of the user that no crash has lost
    count       \* how often each bounded event has happened

vars == <<store, disk, unsaved, remote, fast, run, queued, nudge, time, made, count>>
device == <<store, disk, unsaved>>

Fenced == remote.backend = "fenced"

Nothing == [none |-> TRUE]
Changes == 1..(MaxEdits + MaxPeerWrites)

(* pendingRemoteWriteAt (set or not), ...RetryAt (0 if absent), ...Attempts. *)
NoMark == [pending |-> FALSE, retryAt |-> 0, attempts |-> 0]
Pending(attempts) == [pending |-> TRUE, retryAt |-> 0, attempts |-> attempts]

Smaller(a, b) == IF a < b THEN a ELSE b

(* Mutation of WithRetry: the attempt is counted again above the cap. *)
UncappedRetry(mark, now) ==
    LET attempts == Smaller(mark.attempts + 1, AttemptCap)
    IN  [mark EXCEPT !.retryAt = now + Smaller(RetryMax, RetryBase * 2^(attempts - 1)),
                     !.attempts = attempts + 1]

(* withPendingRemoteWriteRetry *)
WithRetry(mark, now) ==
    LET attempts == Smaller(mark.attempts + 1, AttemptCap)
    IN  [mark EXCEPT !.retryAt = now + Smaller(RetryMax, RetryBase * 2^(attempts - 1)),
                     !.attempts = attempts]

IdleRun ==
    [pc |-> "idle", then |-> "none", now |-> 0, at |-> 0, cacheAt |-> -1, held |-> {},
     snap |-> {}, matches |-> FALSE, mark |-> NoMark, meta |-> -1, armed |-> FALSE,
     base |-> Nothing, version |-> 0, doc |-> {}, writing |-> "none", wrote |-> 0,
     served |-> FALSE]

Init ==
    /\ store = [docs |-> {}, mark |-> NoMark, stamp |-> 0]
    /\ disk = [docs |-> {}, mark |-> NoMark]
    /\ unsaved = Nothing
    /\ remote \in [docs : {{}}, version : {1}, backend : Backends]
    /\ fast \in {Nothing, [docs |-> {}, version |-> 1]}
    /\ run = IdleRun
    /\ queued = FALSE /\ nudge = FALSE
    /\ time = 0
    /\ made = {}
    /\ count = [edits |-> 0, peers |-> 0, failures |-> 0, crashes |-> 0]

-----------------------------------------------------------------------------
(* The user, the store's own saving, peers, time and crashes.                *)

(* A store mutation: rows and stamp move, and the whole snapshot is queued   *)
(* for saving in place of any older one.                                     *)
Edit ==
    LET e == count.edits + 1
        docs == store.docs \cup {e}
    IN  /\ count.edits < MaxEdits
        /\ store' = [store EXCEPT !.docs = docs, !.stamp = @ + 1]
        /\ unsaved' = [docs |-> docs, mark |-> store.mark]
        /\ nudge' = TRUE
        /\ made' = made \cup {e}
        /\ count' = [count EXCEPT !.edits = e]
        /\ UNCHANGED <<disk, remote, fast, run, queued, time>>

(* A save by the store keeps rows it omits.  Its settings (the mark) are     *)
(* taken or refused: native storage compares them with what was observed.    *)
AfterSave(snapshot) ==
    IF snapshot = Nothing THEN {disk}
    ELSE {[docs |-> disk.docs \cup snapshot.docs, mark |-> m] : m \in {disk.mark, snapshot.mark}}

SaveFlushes ==
    /\ unsaved # Nothing
    /\ disk' \in AfterSave(unsaved)
    /\ unsaved' = Nothing
    /\ UNCHANGED <<store, remote, fast, run, queued, nudge, time, made, count>>

(* Mutation of HoldsFence: given back as soon as the write has been made. *)
HoldsFenceForWrites ==
    Fenced /\ run.pc \in {"writeLocal", "applyLocal", "writeRemote"}

HoldsFence == Fenced /\ run.pc \in {"writeLocal", "applyLocal", "writeRemote", "post", "record",
                                    "finalize", "apply", "fail"}

PeerWrites ==
    /\ count.peers < MaxPeerWrites /\ ~HoldsFence
    /\ remote' = [remote EXCEPT !.docs = @ \cup {MaxEdits + count.peers + 1}, !.version = @ + 1]
    /\ count' = [count EXCEPT !.peers = @ + 1]
    /\ UNCHANGED <<device, fast, run, queued, nudge, time, made>>

Tick ==
    /\ time < MaxTime
    /\ time' = time + 1
    /\ UNCHANGED <<device, remote, fast, run, queued, nudge, made, count>>

(* The app dies, and starts again from its disk with a sync. *)
Crash ==
    /\ count.crashes < MaxCrashes
    /\ store' = [store EXCEPT !.docs = disk.docs, !.mark = disk.mark]
    /\ unsaved' = Nothing
    /\ run' = IdleRun
    /\ queued' = FALSE /\ nudge' = TRUE
    /\ made' = made \cap disk.docs
    /\ count' = [count EXCEPT !.crashes = @ + 1]
    /\ UNCHANGED <<disk, remote, fast, time>>

(* The auto-sync timer after a change or a failure; the periodic one. *)
AutoSyncFires ==
    /\ nudge
    /\ nudge' = FALSE /\ queued' = TRUE
    /\ UNCHANGED <<device, remote, fast, run, time, made, count>>

PeriodicSync ==
    /\ run.pc = "idle" /\ ~queued
    /\ queued' = TRUE
    /\ UNCHANGED <<device, remote, fast, run, nudge, time, made, count>>

-----------------------------------------------------------------------------
(* The run.                                                                  *)

Goes(pc) == run' = [run EXCEPT !.pc = pc]
Ends(followUp) == run' = IdleRun /\ queued' = (queued \/ followUp)

(* ensureFreshLocalSyncSnapshot; with expected data, a change of the store   *)
(* that the data covers is accepted.                                         *)
Fresh == store.stamp <= run.at
FreshOrCovered(docs) == Fresh \/ store.docs = docs

(* Requests fail while their backoff can still run out within MaxTime. *)
MayFail == count.failures < MaxFailures /\ time + RetryMax <= MaxTime
Fails == MayFail /\ count' = [count EXCEPT !.failures = @ + 1]

StartRun(manual) ==
    /\ run.pc = "idle" /\ (manual \/ queued)
    /\ run' = [IdleRun EXCEPT !.pc = "flush", !.then = IF manual THEN "cycle" ELSE "fast"]
    /\ queued' = FALSE
    /\ UNCHANGED <<device, remote, fast, nudge, time, made, count>>

Flush ==
    /\ run.pc = "flush"
    /\ disk' \in AfterSave(unsaved)
    /\ unsaved' = Nothing
    /\ run' = [run EXCEPT !.pc = "capture", !.at = store.stamp]
    /\ UNCHANGED <<store, remote, fast, queued, nudge, time, made, count>>

(* readLocalDataForSyncCycle: the stamp and the store's content are taken    *)
(* before the disk is read; an unmoved stamp means the last read still holds.*)
CaptureLocal ==
    /\ run.pc = "capture"
    /\ LET now == IF run.then = "cycle" THEN time ELSE run.now
       IN  run' = IF run.cacheAt = store.stamp
                  THEN [run EXCEPT !.pc = run.then, !.at = store.stamp, !.now = now]
                  ELSE [run EXCEPT !.pc = "readDisk", !.cacheAt = store.stamp,
                                   !.held = store.docs, !.now = now]
    /\ UNCHANGED <<device, remote, fast, queued, nudge, time, made, count>>

(* Mutation of ReadDisk: stamped when the read has come back (#910). *)
ReadDiskStampedLate ==
    /\ run.pc = "readDisk"
    /\ run' = [run EXCEPT !.pc = run.then, !.at = store.stamp, !.held = {},
                          !.snap = disk.docs \cup run.held, !.matches = disk.docs = run.held,
                          !.mark = disk.mark]
    /\ UNCHANGED <<device, remote, fast, queued, nudge, time, made, count>>

ReadDisk ==
    /\ run.pc = "readDisk"
    /\ run' = [run EXCEPT !.pc = run.then, !.at = run.cacheAt, !.held = {},
                          !.snap = disk.docs \cup run.held, !.matches = disk.docs = run.held,
                          !.mark = disk.mark]
    /\ UNCHANGED <<device, remote, fast, queued, nudge, time, made, count>>

(* trySkipUnchangedFastSync and tryArmLocalOnlyUploadFastPath, whose checks  *)
(* come with the answer to the one request for the remote fingerprint.       *)
UsableRecord == fast # Nothing /\ ~run.mark.pending
(* Mutations of the two comparisons: any record will do. *)
AnyLocal == UsableRecord
AnyRemote == UsableRecord

LocalAsRecorded == UsableRecord /\ fast.docs = run.snap
RemoteAsRecorded == UsableRecord /\ fast.version = remote.version

FastCheckStale ==
    /\ run.pc = "fast" /\ ~Fresh
    /\ Ends(TRUE)
    /\ UNCHANGED <<device, remote, fast, nudge, time, made, count>>

SkipUnchanged ==
    /\ run.pc = "fast" /\ Fresh
    /\ LocalAsRecorded /\ RemoteAsRecorded
    /\ Ends(FALSE)
    /\ UNCHANGED <<device, remote, fast, nudge, time, made, count>>

FastCheckMisses ==
    /\ run.pc = "fast" /\ Fresh
    /\ ~(LocalAsRecorded /\ RemoteAsRecorded)
    /\ run' = [run EXCEPT !.pc = "capture", !.then = "cycle",
                          !.armed = Fenced /\ RemoteAsRecorded,
                          !.version = remote.version]
    /\ UNCHANGED <<device, remote, fast, queued, nudge, time, made, count>>

FastCheckFails ==
    /\ run.pc = "fast" /\ Fresh /\ UsableRecord
    /\ Fails
    /\ run' = [run EXCEPT !.pc = "capture", !.then = "cycle"]
    /\ UNCHANGED <<device, remote, fast, queued, nudge, time, made>>

(* performSyncCycleUnlocked begins: a marked write waits for its time, then  *)
(* the local data is flushed and read once more.                             *)
SkipBackoff ==
    /\ run.pc = "cycle" /\ run.mark.pending /\ run.now < run.mark.retryAt
    /\ Ends(FALSE)
    /\ UNCHANGED <<device, remote, fast, nudge, time, made, count>>

RetryPendingWrite ==
    /\ run.pc = "cycle" /\ run.mark.pending /\ run.now >= run.mark.retryAt
    /\ disk' \in AfterSave(unsaved)
    /\ unsaved' = Nothing
    /\ run' = [run EXCEPT !.pc = "capture", !.then = "readRemote", !.meta = run.mark.attempts]
    /\ UNCHANGED <<store, remote, fast, queued, nudge, time, made, count>>

NoPendingWrite ==
    /\ run.pc = "cycle" /\ ~run.mark.pending
    /\ Goes("readRemote")
    /\ UNCHANGED <<device, remote, fast, queued, nudge, time, made, count>>

(* readRemoteForCycle under the fence, and the merge.  An armed local-only   *)
(* upload reads nothing.  A merge that gives local nothing new goes straight *)
(* to the remote write.                                                      *)
ReadRemote ==
    LET docs == run.snap \cup (IF run.armed THEN {} ELSE remote.docs)
        unchanged == run.meta < 0 /\ run.matches /\ docs = run.snap
    IN  /\ run.pc = "readRemote"
        /\ run' = [run EXCEPT
              !.pc = IF unchanged THEN "writeRemote" ELSE "writeLocal",
              !.writing = IF unchanged THEN "none" ELSE "mark",
              !.base = IF run.armed THEN Nothing ELSE [docs |-> remote.docs],
              !.version = IF run.armed THEN run.version ELSE remote.version,
              !.doc = docs,
              !.mark = IF run.meta < 0 THEN run.mark ELSE NoMark]
        /\ UNCHANGED <<device, remote, fast, queued, nudge, time, made, count>>

ReadRemoteFails ==
    /\ run.pc = "readRemote"
    /\ Fails
    /\ Goes("fail")
    /\ UNCHANGED <<device, remote, fast, queued, nudge, time, made>>

(* What io.writeLocal is given at each of its uses: the merged data with the *)
(* marker, without it, with a retry time; and, after an abort, the store.    *)
LocalTarget ==
    IF run.writing = "abort" THEN store.docs ELSE run.doc
LocalMark ==
    CASE run.writing = "mark"  -> Pending(IF run.meta < 0 THEN 0 ELSE run.meta)
      [] run.writing = "retry" -> WithRetry(run.mark, run.now)
      [] OTHER                 -> NoMark

(* LocalSyncAbort: the write of the marker and the one of the retry time let *)
(* it end the run; the remote write and the final local write of a marked    *)
(* cycle take the marker back first.                                         *)
AbortsLocally ==
    /\ queued' = TRUE
    /\ run' = IF run.writing = "clear"
              THEN [run EXCEPT !.pc = "writeLocal", !.writing = "abort"]
              ELSE IdleRun

WriteLocalStale ==
    /\ run.pc = "writeLocal" /\ run.writing # "abort" /\ ~FreshOrCovered(run.doc)
    /\ AbortsLocally
    /\ UNCHANGED <<device, remote, fast, nudge, time, made, count>>

(* persistLocalDataWithTracking saves ... *)
WriteLocal ==
    /\ run.pc = "writeLocal"
    /\ run.writing = "abort" \/ FreshOrCovered(run.doc)
    /\ disk' = [docs |-> disk.docs \cup LocalTarget, mark |-> LocalMark]
    /\ run' = [run EXCEPT !.pc = "applyLocal", !.doc = disk'.docs, !.mark = LocalMark,
                          !.at = IF run.writing = "abort" THEN @ ELSE store.stamp]
    /\ UNCHANGED <<store, unsaved, remote, fast, queued, nudge, time, made, count>>

(* ... and, once saved, puts the canonical result into the store unless the  *)
(* store has changed meanwhile.                                              *)
ApplyLocalStale ==
    /\ run.pc = "applyLocal" /\ ~FreshOrCovered(run.doc)
    /\ AbortsLocally
    /\ UNCHANGED <<device, remote, fast, nudge, time, made, count>>

ApplyLocal ==
    /\ run.pc = "applyLocal" /\ FreshOrCovered(run.doc)
    /\ store' = [store EXCEPT !.docs = run.doc, !.mark = run.mark]
    /\ run' = CASE run.writing = "abort" -> IdleRun
                [] run.writing = "retry" -> [run EXCEPT !.pc = "fail"]
                [] run.writing = "clear" -> [run EXCEPT !.pc = "post", !.at = store.stamp]
                [] OTHER -> [run EXCEPT !.pc = "writeRemote", !.at = store.stamp]
    /\ UNCHANGED <<disk, unsaved, remote, fast, queued, nudge, time, made, count>>

(* writeRemoteForCycle. *)
AlreadyThere == run.base # Nothing /\ run.base.docs = run.doc
(* Mutation of Conflict: the PUT carries no precondition. *)
NeverConflict == FALSE

Conflict == Fenced /\ run.version # remote.version
Stored ==
    [remote EXCEPT !.docs = IF Fenced THEN run.doc ELSE remote.docs \cup run.doc,
                   !.version = @ + 1]

(* The store has changed, or a peer was first: another cycle is requested.   *)
WriteRemoteAborts ==
    /\ run.pc = "writeRemote"
    /\ ~FreshOrCovered(run.doc) \/ (~AlreadyThere /\ Conflict)
    /\ queued' = TRUE
    /\ run' = IF run.writing = "none" THEN IdleRun
              ELSE [run EXCEPT !.pc = "writeLocal", !.writing = "abort"]
    /\ UNCHANGED <<device, remote, fast, nudge, time, made, count>>

AfterRemoteWrite(wrote, served) ==
    [run EXCEPT !.pc = IF run.writing = "none" THEN "post" ELSE "writeLocal",
                !.writing = IF run.writing = "none" THEN "none" ELSE "clear",
                !.at = store.stamp, !.wrote = wrote, !.served = served]

WriteRemoteSkipped ==
    /\ run.pc = "writeRemote" /\ FreshOrCovered(run.doc) /\ AlreadyThere
    /\ run' = AfterRemoteWrite(0, FALSE)
    /\ UNCHANGED <<device, remote, fast, queued, nudge, time, made, count>>

(* The self-hosted server answers when it has merged in what it already had. *)
WriteRemote ==
    LET served == ~(Stored.docs \subseteq run.doc)
    IN  /\ run.pc = "writeRemote" /\ FreshOrCovered(run.doc) /\ ~AlreadyThere /\ ~Conflict
        /\ remote' = Stored
        /\ run' = AfterRemoteWrite(IF served THEN 0 ELSE Stored.version, served)
        /\ queued' = (queued \/ served)
        /\ UNCHANGED <<device, fast, nudge, time, made, count>>

(* The request fails, before or after the server has stored the document. *)
WriteRemoteFails ==
    /\ run.pc = "writeRemote" /\ FreshOrCovered(run.doc) /\ ~AlreadyThere
    /\ Fails
    /\ remote' \in IF Conflict THEN {remote} ELSE {remote, Stored}
    /\ run' = [run EXCEPT !.pc = "writeLocal", !.writing = "retry", !.at = store.stamp]
    /\ UNCHANGED <<device, fast, queued, nudge, time, made>>

(* The end of runMergePhase: the fingerprint of the written document, or one *)
(* asked for now, is recorded with the local document ...                    *)
AfterMergeStale ==
    /\ run.pc \in {"post", "finalize"} /\ ~FreshOrCovered(run.doc)
    /\ Ends(TRUE)
    /\ UNCHANGED <<device, remote, fast, nudge, time, made, count>>

AfterMergeFresh ==
    /\ run.pc = "post" /\ FreshOrCovered(run.doc)
    /\ run' = [run EXCEPT !.pc = "record", !.at = store.stamp]
    /\ UNCHANGED <<device, remote, fast, queued, nudge, time, made, count>>

RecordFastSync ==
    LET record == [docs |-> run.doc,
                   version |-> IF run.wrote # 0 THEN run.wrote ELSE remote.version]
    IN  /\ run.pc = "record"
        /\ fast' \in IF run.served \/ run.mark.pending \/ ~Fresh THEN {fast}
                     ELSE IF run.wrote # 0 THEN {record}
                     ELSE {fast, record}    \* the request for the fingerprint may fail
        /\ Goes("finalize")
        /\ UNCHANGED <<device, remote, queued, nudge, time, made, count>>

(* ... and finalizeSuccess puts the merged document into the store and drops *)
(* a follow-up that it takes to be covered.                                  *)
FinalizeSuccess ==
    /\ store' = [store EXCEPT !.docs = run.doc, !.mark = run.mark]
    /\ run' = IdleRun
    /\ queued' = FALSE
    /\ UNCHANGED <<disk, unsaved, remote, fast, nudge, time, made, count>>

(* Between the last freshness check and finalizeSuccess the fence is checked *)
(* with its provider, if there is one.                                       *)
CheckFence ==
    /\ run.pc = "finalize" /\ FreshOrCovered(run.doc) /\ Fenced
    /\ run' = [run EXCEPT !.pc = "apply", !.at = store.stamp]
    /\ UNCHANGED <<device, remote, fast, queued, nudge, time, made, count>>

Finalize ==
    /\ \/ run.pc = "apply"
       \/ run.pc = "finalize" /\ FreshOrCovered(run.doc) /\ ~Fenced
    /\ FinalizeSuccess

(* finalizeErrorStatus reloads the store from disk, its saves flushed first. *)
FinalizeError ==
    /\ run.pc = "fail"
    /\ disk' \in AfterSave(unsaved)
    /\ unsaved' = Nothing
    /\ store' = [store EXCEPT !.docs = disk'.docs, !.mark = disk'.mark]
    /\ run' = IdleRun
    /\ nudge' = TRUE
    /\ UNCHANGED <<remote, fast, queued, time, made, count>>

RunStep ==
    \/ StartRun(FALSE) \/ Flush \/ CaptureLocal \/ ReadDisk
    \/ FastCheckStale \/ SkipUnchanged \/ FastCheckMisses
    \/ SkipBackoff \/ RetryPendingWrite \/ NoPendingWrite \/ ReadRemote
    \/ WriteLocalStale \/ WriteLocal \/ ApplyLocalStale \/ ApplyLocal
    \/ WriteRemoteAborts \/ WriteRemoteSkipped \/ WriteRemote
    \/ AfterMergeStale \/ AfterMergeFresh \/ RecordFastSync \/ CheckFence \/ Finalize \/ FinalizeError

Next ==
    \/ RunStep \/ StartRun(TRUE)
    \/ FastCheckFails \/ ReadRemoteFails \/ WriteRemoteFails
    \/ Edit \/ SaveFlushes \/ PeerWrites \/ Tick \/ Crash \/ AutoSyncFires \/ PeriodicSync

(* The event loop runs on; timers fire. *)
Fairness ==
    /\ WF_vars(RunStep) /\ WF_vars(SaveFlushes) /\ WF_vars(Tick)
    /\ WF_vars(AutoSyncFires) /\ WF_vars(PeriodicSync)

Spec == Init /\ [][Next]_vars /\ Fairness

-----------------------------------------------------------------------------
Marks == [pending : BOOLEAN, retryAt : Int, attempts : 0..AttemptCap]

Documents == SUBSET Changes
Saves == [docs : Documents, mark : Marks]
Records == [docs : Documents, version : Nat]

Places == {"idle", "flush", "capture", "readDisk", "fast", "cycle", "readRemote", "writeLocal",
           "applyLocal", "writeRemote", "post", "record", "finalize", "apply", "fail"}

Runs ==
    [pc : Places, then : {"none", "fast", "cycle", "readRemote"}, now : Nat, at : Nat,
     cacheAt : Nat \cup {-1}, held : Documents, snap : Documents, matches : BOOLEAN, mark : Marks,
     meta : -1..AttemptCap, armed : BOOLEAN, base : {Nothing} \cup [docs : Documents],
     version : Nat, doc : Documents, writing : {"none", "mark", "clear", "retry", "abort"},
     wrote : Nat, served : BOOLEAN]

TypeOK ==
    /\ store \in [docs : Documents, mark : Marks, stamp : Nat]
    /\ disk \in Saves
    /\ unsaved \in {Nothing} \cup Saves
    /\ remote \in [docs : Documents, version : Nat, backend : Backends]
    /\ fast \in {Nothing} \cup Records
    /\ run \in Runs
    /\ queued \in BOOLEAN /\ nudge \in BOOLEAN
    /\ time \in Nat
    /\ made \in Documents
    /\ count \in [edits : 0..MaxEdits, peers : 0..MaxPeerWrites, failures : 0..MaxFailures,
                  crashes : 0..MaxCrashes]

(* A write never takes away from the remote document what a peer put there.  *)
RemoteKeepsAll == [][remote.docs \subseteq remote'.docs]_vars

(* "If local data changes mid-cycle, the current sync aborts and a fresh run *)
(* is queued instead of overwriting the newer local state" (ADR 0009): no    *)
(* run makes an edit disappear from the store.                               *)
StoreKeepsEdits == made \subseteq store.docs

(* What is left of that with a fence: edits leave the store in one place     *)
(* only, when finalizeSuccess follows the last question to the fence's       *)
(* provider; without a fence they never do.                                  *)
EditsLeaveOnlyAtFence ==
    [][(made' \cap store.docs) \subseteq store'.docs \/ run.pc = "apply"]_vars

(* "when the remote is still byte-for-byte the document this device last     *)
(* synced. The recorded remote fingerprint proves exactly that": the pair    *)
(* that fast checks trust holds everything the remote document has.  (The    *)
(* self-hosted cloud has no fence, and there it need not.)                   *)
RecordProvesRemote ==
    Fenced /\ fast # Nothing /\ fast.version = remote.version => remote.docs \subseteq fast.docs

(* "the retry schedule still has to land or the next cycle hammers a failing *)
(* backend": no cycle started before the recorded retry time writes again.   *)
(* A claim the code does not keep (README, section 4); no run checks it.     *)
BackoffRespected == run.pc = "writeRemote" => disk.mark.retryAt <= run.now

(* "requests a follow-up cycle to pull the server's contribution": a run     *)
(* whose upload the server merged leaves another one requested.              *)
(* A claim the code does not keep (README, section 4); no run checks it.     *)
ServerMergePulled == [][run.served /\ run'.pc = "idle" => queued' \/ nudge']_vars

(* When the user stops, what was edited ends up in the remote document, and  *)
(* what peers published ends up in the store, through failures and crashes;  *)
(* the first without a fence (an edit may leave the store at the fence), the *)
(* second with one (the recorded fingerprint may hide a peer's write).       *)
ChangesArrive == <>[](IF Fenced THEN remote.docs \subseteq store.docs ELSE made \subseteq remote.docs)

(* Every row of the store is saved or about to be; what was synced is saved. *)
SavedOrQueued ==
    /\ store.docs \subseteq disk.docs \cup (IF unsaved = Nothing THEN {} ELSE unsaved.docs)
    /\ fast = Nothing \/ fast.docs \subseteq disk.docs

(* Stamps and fingerprints that were read are not ahead of what they name. *)
NotAhead ==
    /\ run.at <= store.stamp /\ run.cacheAt <= store.stamp
    /\ run.version <= remote.version /\ run.wrote <= remote.version
    /\ fast = Nothing \/ fast.version <= remote.version

(* What the run has read: the snapshot of an unmoved stamp has the whole     *)
(* store in it, and what was last synced; an armed upload relies on the      *)
(* record of the document that it will replace.                              *)
SnapshotHolds ==
    LET read == \/ run.pc \in {"fast", "cycle", "readRemote"}
                \/ run.pc = "capture" /\ run.cacheAt # -1
    IN  /\ run.pc \in {"flush", "capture", "readDisk"} => run.then # "none"
        /\ run.pc = "flush" => run.cacheAt = -1
        /\ run.pc \in {"fast", "cycle", "readRemote"} => run.at = run.cacheAt
        /\ run.pc = "readDisk" =>
               /\ run.cacheAt # -1
               /\ run.cacheAt = store.stamp => store.docs \subseteq run.held
        /\ read => /\ fast = Nothing \/ fast.docs \subseteq run.snap
                   /\ run.cacheAt = store.stamp => store.docs \subseteq run.snap
        /\ run.matches => run.snap \subseteq disk.docs
        /\ run.armed => Fenced
        /\ run.armed /\ run.pc \in {"flush", "capture", "readDisk", "fast", "cycle", "readRemote"} =>
               fast # Nothing /\ fast.version = run.version

(* The merged document, until it is uploaded: a store that has not changed   *)
(* is in it, the disk has it once it was saved, and under the fence the      *)
(* remote document is still the one it was merged with.                      *)
MergeHolds ==
    /\ run.pc \in {"writeLocal", "applyLocal", "writeRemote", "post", "record", "finalize"} =>
           (Fresh => store.docs \subseteq run.doc)
    /\ run.pc \in {"applyLocal", "writeRemote", "post", "record", "finalize", "apply"} =>
           run.doc \subseteq disk.docs
    /\ run.pc = "writeRemote" => run.writing \in {"mark", "none"}
    /\ /\ Fenced
       /\ run.pc \in {"writeLocal", "applyLocal", "writeRemote"} /\ run.writing \in {"mark", "none"}
       => /\ run.base # Nothing => run.base.docs = remote.docs
          /\ run.version = remote.version => remote.docs \subseteq run.doc

(* and afterwards: the remote document is in it, whoever wrote it. *)
UploadHolds ==
    /\ Fenced
    /\ \/ run.pc \in {"post", "record"}
       \/ run.pc \in {"writeLocal", "applyLocal"} /\ run.writing = "clear"
    => /\ remote.docs \subseteq run.doc
       /\ run.wrote \in {0, remote.version}

(* What holds between any two steps of a run: the marks of failed uploads    *)
(* stay within their caps, the recorded fingerprints hide nothing, and what  *)
(* the run has read and merged still covers what it is about to replace.     *)
RunInv == TypeOK /\ RecordProvesRemote /\ SavedOrQueued /\ NotAhead
          /\ SnapshotHolds /\ MergeHolds /\ UploadHolds

(* No step of a run takes a change away: a peer's from the remote document,  *)
(* or the user's from the store (but for the last window of a fenced run).   *)
NothingOverwritten == RemoteKeepsAll /\ EditsLeaveOnlyAtFence
=============================================================================
