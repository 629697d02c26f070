---------------------------- MODULE SyncRunProofs ----------------------------
(***************************************************************************)
(* A sync run on any backends, with any backoff and any number of edits,   *)
(* peer writes, failed requests and crashes.                               *)
(***************************************************************************)
EXTENDS SyncRun, TLAPS

(* The idle run and the empty mark are typed. *)
LEMMA IdleRunTyped == IdleRun \in Runs /\ NoMark \in Marks
<1>1. NoMark \in Marks
  BY RunConstants DEF NoMark, Marks
<1> QED BY <1>1, RunConstants DEF IdleRun, Runs, Places, Documents

(* The marks a run writes: the retry counts up to the cap only. *)
LEMMA MarksTyped ==
    ASSUME NEW mark \in Marks, NEW now \in Nat, NEW attempts \in 0..AttemptCap
    PROVE  /\ Pending(attempts) \in Marks
           /\ WithRetry(mark, now) \in Marks
<1> DEFINE counted == Smaller(mark.attempts + 1, AttemptCap)
<1>1. counted \in 1..AttemptCap
  BY RunConstants DEF Smaller, Marks
<1>2. 2^(counted - 1) \in Int
  BY <1>1, RunConstants
<1>3. now + Smaller(RetryMax, RetryBase * 2^(counted - 1)) \in Int
  BY <1>2, RunConstants DEF Smaller
<1>4. WithRetry(mark, now) \in Marks
  <2> DEFINE at == now + Smaller(RetryMax, RetryBase * 2^(counted - 1))
  <2>1. WithRetry(mark, now) = [mark EXCEPT !.retryAt = at, !.attempts = counted]
    BY DEF WithRetry
  <2>2. at \in Int /\ counted \in 0..AttemptCap
    BY <1>1, <1>3, RunConstants
  <2> HIDE DEF at, counted
  <2> QED BY <2>1, <2>2 DEF Marks
<1>5. Pending(attempts) \in Marks
  BY RunConstants DEF Pending, Marks
<1> QED BY <1>4, <1>5

(* An edit keeps the types. *)
LEMMA EditTyped ==
    ASSUME TypeOK, Edit
    PROVE  TypeOK'
<1> DEFINE e == count.edits + 1
<1>1. e \in Changes /\ e \in 0..MaxEdits
  BY RunConstants DEF TypeOK, Edit, Changes
<1> HIDE DEF e
<1>2. /\ store' = [store EXCEPT !.docs = store.docs \cup {e}, !.stamp = @ + 1]
      /\ unsaved' = [docs |-> store.docs \cup {e}, mark |-> store.mark]
      /\ nudge' = TRUE
      /\ made' = made \cup {e}
      /\ count' = [count EXCEPT !.edits = e]
      /\ disk' = disk /\ remote' = remote /\ fast' = fast /\ run' = run /\ queued' = queued
      /\ time' = time
  BY DEF Edit, e
<1>3. store.docs \cup {e} \in Documents /\ made \cup {e} \in Documents
  BY <1>1 DEF TypeOK, Documents
<1>4. store' \in [docs : Documents, mark : Marks, stamp : Nat]
  <2>1. store.stamp + 1 \in Nat
    BY DEF TypeOK
  <2> QED BY <1>2, <1>3, <2>1 DEF TypeOK
<1>5. unsaved' \in Saves
  BY <1>2, <1>3 DEF TypeOK, Saves
<1>6. count' \in [edits : 0..MaxEdits, peers : 0..MaxPeerWrites, failures : 0..MaxFailures,
                  crashes : 0..MaxCrashes]
  BY <1>1, <1>2 DEF TypeOK
<1> QED BY <1>2, <1>3, <1>4, <1>5, <1>6 DEF TypeOK

(* Starting a run keeps the types. *)
LEMMA StartRunTyped ==
    ASSUME TypeOK, NEW manual \in BOOLEAN, StartRun(manual)
    PROVE  TypeOK'
<1>1. run' \in Runs
  BY IdleRunTyped DEF StartRun, Runs, Places
<1> QED BY <1>1 DEF TypeOK, StartRun, device

(* Capturing the local snapshot keeps the types. *)
LEMMA CaptureTyped ==
    ASSUME TypeOK, SnapshotHolds, CaptureLocal
    PROVE  TypeOK'
<1>1. run' \in Runs
  BY RunConstants DEF TypeOK, CaptureLocal, SnapshotHolds, Runs, Places
<1> QED BY <1>1 DEF TypeOK, CaptureLocal, device

(* Reading the remote document keeps the types. *)
LEMMA ReadRemoteTyped ==
    ASSUME TypeOK, ReadRemote
    PROVE  TypeOK'
<1>1. PICK pc \in Places, writing \in {"none", "mark"}, base \in {Nothing} \cup [docs : Documents],
           version \in Nat, docs \in Documents, mark \in Marks :
         run' = [run EXCEPT !.pc = pc, !.writing = writing, !.base = base, !.version = version,
                            !.doc = docs, !.mark = mark]
  <2> DEFINE docs == run.snap \cup (IF run.armed THEN {} ELSE remote.docs)
             unchanged == run.meta < 0 /\ run.matches /\ docs = run.snap
             base == IF run.armed THEN Nothing ELSE [docs |-> remote.docs]
             version == IF run.armed THEN run.version ELSE remote.version
             mark == IF run.meta < 0 THEN run.mark ELSE NoMark
  <2>1. docs \in Documents
    BY DEF TypeOK, Runs, Documents
  <2>2. base \in {Nothing} \cup [docs : Documents]
    BY DEF TypeOK
  <2>3. version \in Nat /\ mark \in Marks
    BY IdleRunTyped DEF TypeOK, Runs
  <2>4. run' = [run EXCEPT !.pc = IF unchanged THEN "writeRemote" ELSE "writeLocal",
                           !.writing = IF unchanged THEN "none" ELSE "mark",
                           !.base = base, !.version = version, !.doc = docs, !.mark = mark]
    BY DEF ReadRemote
  <2> HIDE DEF docs, base, version, mark, unchanged
  <2>5. CASE unchanged
    BY <2>1, <2>2, <2>3, <2>4, <2>5 DEF Places
  <2>6. CASE ~unchanged
    BY <2>1, <2>2, <2>3, <2>4, <2>6 DEF Places
  <2> QED BY <2>5, <2>6
<1>2. run' \in Runs
  BY <1>1 DEF TypeOK, Runs
<1> QED BY <1>2 DEF TypeOK, ReadRemote, device

(* What a save leaves on the disk: rows are only added. *)
LEMMA AfterSaveAdds ==
    ASSUME TypeOK, disk' \in AfterSave(unsaved)
    PROVE  /\ disk' \in Saves
           /\ disk.docs \subseteq disk'.docs
           /\ unsaved # Nothing => unsaved.docs \subseteq disk'.docs
<1>1. CASE unsaved = Nothing
  BY <1>1 DEF AfterSave, TypeOK
<1>2. CASE unsaved # Nothing
  <2>1. unsaved \in Saves /\ disk \in Saves
    BY <1>2 DEF TypeOK
  <2>2. PICK m \in {disk.mark, unsaved.mark} : disk' = [docs |-> disk.docs \cup unsaved.docs, mark |-> m]
    BY <1>2 DEF AfterSave
  <2>3. m \in Marks /\ disk.docs \cup unsaved.docs \in Documents
    BY <2>1 DEF Saves, Documents
  <2> QED BY <2>2, <2>3 DEF Saves
<1> QED BY <1>1, <1>2

(* The saves around a run keep the types. *)
LEMMA SavesTyped ==
    ASSUME TypeOK, SaveFlushes \/ Flush \/ RetryPendingWrite \/ FinalizeError
    PROVE  TypeOK'
<1>1. disk' \in Saves /\ unsaved' = Nothing
  BY AfterSaveAdds DEF SaveFlushes, Flush, RetryPendingWrite, FinalizeError
<1>2. CASE SaveFlushes
  BY <1>1, <1>2 DEF SaveFlushes, TypeOK
<1>3. CASE Flush
  <2>1. run' \in Runs
    BY <1>3 DEF Flush, TypeOK, Runs, Places
  <2> QED BY <1>1, <1>3, <2>1 DEF Flush, TypeOK
<1>4. CASE RetryPendingWrite
  <2>1. run.mark.attempts \in -1..AttemptCap
    BY RunConstants DEF TypeOK, Runs, Marks
  <2>2. run' \in Runs
    BY <1>4, <2>1 DEF RetryPendingWrite, TypeOK, Runs, Places
  <2> QED BY <1>1, <1>4, <2>2 DEF RetryPendingWrite, TypeOK
<1>5. CASE FinalizeError
  <2>1. store' \in [docs : Documents, mark : Marks, stamp : Nat]
    BY <1>1, <1>5 DEF FinalizeError, TypeOK, Saves
  <2> QED BY <1>1, <1>5, <2>1, IdleRunTyped DEF FinalizeError, TypeOK
<1> QED BY <1>2, <1>3, <1>4, <1>5

(* Another device's write keeps the types. *)
LEMMA PeerWritesTyped ==
    ASSUME TypeOK, PeerWrites
    PROVE  TypeOK'
<1> DEFINE c == MaxEdits + count.peers + 1
<1>1. c \in Changes /\ count.peers + 1 \in 0..MaxPeerWrites
  BY RunConstants DEF TypeOK, PeerWrites, Changes
<1> HIDE DEF c
<1>2. remote' = [remote EXCEPT !.docs = remote.docs \cup {c}, !.version = remote.version + 1]
  BY DEF PeerWrites, c, TypeOK
<1>3. remote.docs \cup {c} \in Documents /\ remote.version + 1 \in Nat
  BY <1>1 DEF TypeOK, Documents
<1>4. remote' \in [docs : Documents, version : Nat, backend : Backends]
  BY <1>2, <1>3 DEF TypeOK
<1>5. count' \in [edits : 0..MaxEdits, peers : 0..MaxPeerWrites, failures : 0..MaxFailures,
                  crashes : 0..MaxCrashes]
  BY <1>1 DEF TypeOK, PeerWrites
<1> QED BY <1>4, <1>5 DEF PeerWrites, TypeOK, device

(* Failed requests are counted. *)
LEMMA FailsTyped ==
    ASSUME TypeOK, Fails
    PROVE  count' \in [edits : 0..MaxEdits, peers : 0..MaxPeerWrites, failures : 0..MaxFailures,
                       crashes : 0..MaxCrashes]
<1>1. count.failures + 1 \in 0..MaxFailures
  BY RunConstants DEF TypeOK, Fails, MayFail
<1> QED BY <1>1 DEF Fails, TypeOK

(* Time, a crash and the automatic syncs keep the types. *)
LEMMA EnvironmentTyped ==
    ASSUME TypeOK, Tick \/ Crash \/ AutoSyncFires \/ PeriodicSync
    PROVE  TypeOK'
<1>1. CASE Tick
  BY <1>1 DEF Tick, TypeOK, device
<1>2. CASE Crash
  <2>1. store' \in [docs : Documents, mark : Marks, stamp : Nat]
    BY <1>2 DEF Crash, TypeOK, Saves
  <2>2. made' \in Documents
    BY <1>2 DEF Crash, TypeOK, Documents
  <2>3. count.crashes + 1 \in 0..MaxCrashes
    BY <1>2, RunConstants DEF Crash, TypeOK
  <2>4. count' \in [edits : 0..MaxEdits, peers : 0..MaxPeerWrites, failures : 0..MaxFailures,
                    crashes : 0..MaxCrashes]
    BY <1>2, <2>3 DEF Crash, TypeOK
  <2> QED BY <1>2, <2>1, <2>2, <2>4, IdleRunTyped DEF Crash, TypeOK
<1>3. CASE AutoSyncFires \/ PeriodicSync
  BY <1>3 DEF AutoSyncFires, PeriodicSync, TypeOK, device
<1> QED BY <1>1, <1>2, <1>3

(* Reading the saved data keeps the types. *)
LEMMA ReadDiskTyped ==
    ASSUME TypeOK, SnapshotHolds, ReadDisk
    PROVE  TypeOK'
<1> DEFINE snap == disk.docs \cup run.held
           matches == disk.docs = run.held
<1>1. /\ snap \in Documents /\ {} \in Documents /\ run.cacheAt \in Nat /\ disk.mark \in Marks
      /\ matches \in BOOLEAN /\ run.then \in Places
  BY DEF TypeOK, SnapshotHolds, ReadDisk, Saves, Runs, Documents, Places
<1>2. run' = [run EXCEPT !.pc = run.then, !.at = run.cacheAt, !.held = {}, !.snap = snap,
                         !.matches = matches, !.mark = disk.mark]
  BY DEF ReadDisk
<1> HIDE DEF snap, matches
<1>3. run' \in Runs
  BY <1>1, <1>2 DEF TypeOK, Runs
<1> QED BY <1>3 DEF TypeOK, ReadDisk, device

(* The fast path and the early returns keep the types. *)
LEMMA FastStepsTyped ==
    ASSUME TypeOK, FastCheckStale \/ SkipUnchanged \/ FastCheckMisses \/ FastCheckFails
                   \/ SkipBackoff \/ NoPendingWrite \/ ReadRemoteFails
    PROVE  TypeOK'
<1>1. CASE FastCheckStale \/ SkipUnchanged \/ SkipBackoff
  BY <1>1, IdleRunTyped DEF FastCheckStale, SkipUnchanged, SkipBackoff, Ends, TypeOK, device
<1>2. CASE FastCheckMisses
  <2>1. (Fenced /\ RemoteAsRecorded) \in BOOLEAN /\ remote.version \in Nat
    BY DEF TypeOK, Fenced, RemoteAsRecorded
  <2>2. run' \in Runs
    BY <1>2, <2>1 DEF FastCheckMisses, TypeOK, Runs, Places
  <2> QED BY <1>2, <2>2 DEF FastCheckMisses, TypeOK, device
<1>3. CASE FastCheckFails
  <2>1. run' \in Runs
    BY <1>3 DEF FastCheckFails, TypeOK, Runs, Places
  <2> QED BY <1>3, <2>1, FailsTyped DEF FastCheckFails, TypeOK, device
<1>4. CASE NoPendingWrite \/ ReadRemoteFails
  <2>1. run' \in Runs
    BY <1>4 DEF NoPendingWrite, ReadRemoteFails, Goes, TypeOK, Runs, Places
  <2> QED BY <1>4, <2>1, FailsTyped DEF NoPendingWrite, ReadRemoteFails, TypeOK, device
<1> QED BY <1>1, <1>2, <1>3, <1>4

(* A run that aborts is typed and queues a follow-up. *)
LEMMA AbortTyped ==
    ASSUME TypeOK, AbortsLocally
    PROVE  run' \in Runs /\ queued' \in BOOLEAN
<1>1. CASE run.writing = "clear"
  BY <1>1 DEF AbortsLocally, TypeOK, Runs, Places
<1>2. CASE run.writing # "clear"
  BY <1>2, IdleRunTyped DEF AbortsLocally
<1> QED BY <1>1, <1>2

(* What a run writes locally is typed. *)
LEMMA LocalMarkTyped ==
    ASSUME TypeOK
    PROVE  LocalMark \in Marks /\ LocalTarget \in Documents
<1>1. run.mark \in Marks /\ run.now \in Nat /\ run.doc \in Documents /\ store.docs \in Documents
  BY DEF TypeOK, Runs
<1>2. (IF run.meta < 0 THEN 0 ELSE run.meta) \in 0..AttemptCap
  BY RunConstants DEF TypeOK, Runs
<1>3. LocalMark \in {Pending(IF run.meta < 0 THEN 0 ELSE run.meta), WithRetry(run.mark, run.now), NoMark}
  BY DEF LocalMark
<1>4. \A a \in 0..AttemptCap : Pending(a) \in Marks /\ WithRetry(run.mark, run.now) \in Marks
  BY <1>1, MarksTyped
<1> QED BY <1>1, <1>2, <1>3, <1>4, IdleRunTyped DEF LocalTarget

(* The local write keeps the types and stores the merged document. *)
LEMMA WriteLocalTyped ==
    ASSUME TypeOK, WriteLocal
    PROVE  /\ TypeOK'
           /\ disk' = [docs |-> disk.docs \cup LocalTarget, mark |-> LocalMark]
<1> DEFINE docs == disk.docs \cup LocalTarget
           at == IF run.writing = "abort" THEN run.at ELSE store.stamp
           mark == LocalMark
<1>1. docs \in Documents /\ at \in Nat /\ mark \in Marks
  BY LocalMarkTyped DEF TypeOK, Runs, Saves, Documents
<1>2. disk' = [docs |-> docs, mark |-> mark]
  BY DEF WriteLocal
<1>3. run' = [run EXCEPT !.pc = "applyLocal", !.doc = disk'.docs, !.mark = mark, !.at = at]
  BY DEF WriteLocal
<1>4. run' \in Runs /\ disk' \in Saves
  <2> HIDE DEF docs, at, mark
  <2> QED BY <1>1, <1>2, <1>3 DEF TypeOK, Runs, Places, Saves
<1> QED BY <1>2, <1>4 DEF WriteLocal, TypeOK

(* Applying the merged document keeps the types. *)
LEMMA ApplyLocalTyped ==
    ASSUME TypeOK, ApplyLocal
    PROVE  TypeOK'
<1>1. store' \in [docs : Documents, mark : Marks, stamp : Nat]
  BY DEF ApplyLocal, TypeOK, Runs
<1>2. store.stamp \in Nat /\ store'.stamp = store.stamp
  BY DEF ApplyLocal, TypeOK
<1>3. \/ run' = IdleRun
      \/ run' = [run EXCEPT !.pc = "fail"]
      \/ run' = [run EXCEPT !.pc = "post", !.at = store.stamp]
      \/ run' = [run EXCEPT !.pc = "writeRemote", !.at = store.stamp]
  BY DEF ApplyLocal, TypeOK, Runs
<1>4. run' \in Runs
  <2>1. run \in Runs
    BY DEF TypeOK
  <2>2. \A pc \in Places, at \in Nat : [run EXCEPT !.pc = pc, !.at = at] \in Runs
    BY <2>1 DEF Runs
  <2>3. \A pc \in Places : [run EXCEPT !.pc = pc] \in Runs
    BY <2>1 DEF Runs
  <2>4. {"fail", "post", "writeRemote"} \subseteq Places
    BY DEF Places
  <2> QED BY <1>2, <1>3, <2>2, <2>3, <2>4, IdleRunTyped
<1> QED BY <1>1, <1>4 DEF ApplyLocal, TypeOK

(* Steps that find the store changed keep the types. *)
LEMMA StaleStepsTyped ==
    ASSUME TypeOK, WriteLocalStale \/ ApplyLocalStale \/ WriteRemoteAborts \/ AfterMergeStale
    PROVE  TypeOK'
<1>1. CASE WriteLocalStale \/ ApplyLocalStale
  BY <1>1, AbortTyped DEF WriteLocalStale, ApplyLocalStale, TypeOK, device
<1>2. CASE WriteRemoteAborts
  <2>1. run' \in Runs
    BY <1>2, IdleRunTyped DEF WriteRemoteAborts, TypeOK, Runs, Places
  <2> QED BY <1>2, <2>1 DEF WriteRemoteAborts, TypeOK, device
<1>3. CASE AfterMergeStale
  BY <1>3, IdleRunTyped DEF AfterMergeStale, Ends, TypeOK, device
<1> QED BY <1>1, <1>2, <1>3

(* The run after its upload is typed. *)
LEMMA AfterRemoteWriteTyped ==
    ASSUME TypeOK, NEW wrote \in Nat, NEW served \in BOOLEAN
    PROVE  AfterRemoteWrite(wrote, served) \in Runs
<1>1. store.stamp \in Nat /\ run \in Runs
  BY DEF TypeOK
<1>2. PICK pc \in Places, writing \in {"none", "mark", "clear", "retry", "abort"}, at \in Nat :
          AfterRemoteWrite(wrote, served) =
             [run EXCEPT !.pc = pc, !.writing = writing, !.at = at, !.wrote = wrote, !.served = served]
  BY <1>1 DEF AfterRemoteWrite, Places
<1> QED BY <1>1, <1>2 DEF Runs

(* What an upload stores: one version on, the merged document. *)
LEMMA StoredTyped ==
    ASSUME TypeOK
    PROVE  /\ Stored \in [docs : Documents, version : Nat, backend : Backends]
           /\ Stored.docs = IF Fenced THEN run.doc ELSE remote.docs \cup run.doc
           /\ Stored.version = remote.version + 1
           /\ Stored.backend = remote.backend
<1> DEFINE docs == IF Fenced THEN run.doc ELSE remote.docs \cup run.doc
           version == remote.version + 1
<1>1. docs \in Documents /\ version \in Nat
  BY DEF TypeOK, Runs, Documents
<1>2. Stored = [remote EXCEPT !.docs = docs, !.version = version]
  BY DEF Stored, TypeOK
<1> HIDE DEF docs, version
<1>3. /\ Stored \in [docs : Documents, version : Nat, backend : Backends]
      /\ Stored.docs = docs /\ Stored.version = version /\ Stored.backend = remote.backend
  BY <1>1, <1>2 DEF TypeOK
<1> QED BY <1>3 DEF docs, version

(* The upload keeps the types, whether it is skipped, done or fails. *)
LEMMA WriteRemoteTyped ==
    ASSUME TypeOK, WriteRemoteSkipped \/ WriteRemote \/ WriteRemoteFails
    PROVE  TypeOK'
<1>1. CASE WriteRemoteSkipped
  BY <1>1, AfterRemoteWriteTyped DEF WriteRemoteSkipped, TypeOK, device
<1>2. CASE WriteRemote
  <2> DEFINE served == ~(Stored.docs \subseteq run.doc)
             wrote == IF served THEN 0 ELSE Stored.version
  <2>1. served \in BOOLEAN /\ wrote \in Nat
    BY StoredTyped
  <2>2. run' = AfterRemoteWrite(wrote, served) /\ queued' = (queued \/ served)
    BY <1>2 DEF WriteRemote
  <2> HIDE DEF served, wrote
  <2>3. run' \in Runs /\ queued' \in BOOLEAN
    BY <2>1, <2>2, AfterRemoteWriteTyped DEF TypeOK
  <2> QED BY <1>2, <2>3, StoredTyped DEF WriteRemote, TypeOK, device
<1>3. CASE WriteRemoteFails
  <2>1. run' \in Runs
    BY <1>3 DEF WriteRemoteFails, TypeOK, Runs, Places
  <2>2. remote' \in [docs : Documents, version : Nat, backend : Backends]
    BY <1>3, StoredTyped DEF WriteRemoteFails, TypeOK
  <2> QED BY <1>3, <2>1, <2>2, FailsTyped DEF WriteRemoteFails, TypeOK, device
<1> QED BY <1>1, <1>2, <1>3

(* The end of a run keeps the types. *)
LEMMA EndTyped ==
    ASSUME TypeOK, AfterMergeFresh \/ RecordFastSync \/ CheckFence \/ Finalize
    PROVE  TypeOK'
<1>1. CASE AfterMergeFresh \/ CheckFence
  <2>1. store.stamp \in Nat /\ run \in Runs
    BY DEF TypeOK
  <2>2. \A pc \in Places, at \in Nat : [run EXCEPT !.pc = pc, !.at = at] \in Runs
    BY <2>1 DEF Runs
  <2>3. {"record", "apply"} \subseteq Places
    BY DEF Places
  <2>4. run' \in Runs
    BY <1>1, <2>1, <2>2, <2>3 DEF AfterMergeFresh, CheckFence
  <2> QED BY <1>1, <2>4 DEF AfterMergeFresh, CheckFence, TypeOK, device
<1>2. CASE RecordFastSync
  <2>1. run' \in Runs
    BY <1>2 DEF RecordFastSync, Goes, TypeOK, Runs, Places
  <2>2. [docs |-> run.doc, version |-> IF run.wrote # 0 THEN run.wrote ELSE remote.version] \in Records
    BY DEF TypeOK, Runs, Records
  <2>3. fast' \in {Nothing} \cup Records
    BY <1>2, <2>2 DEF RecordFastSync, TypeOK
  <2> QED BY <1>2, <2>1, <2>3 DEF RecordFastSync, TypeOK, device
<1>3. CASE Finalize
  <2>1. store' \in [docs : Documents, mark : Marks, stamp : Nat]
    BY <1>3 DEF Finalize, FinalizeSuccess, TypeOK, Runs
  <2> QED BY <1>3, <2>1, IdleRunTyped DEF Finalize, FinalizeSuccess, TypeOK
<1> QED BY <1>1, <1>2, <1>3

-----------------------------------------------------------------------------
(* What the run has read and merged.                                         *)

(* The invariant holds before the first run. *)
LEMMA InitHolds ==
    ASSUME Init
    PROVE  RunInv
<1>1. /\ {} \in Documents /\ 0 \in 0..MaxEdits /\ 0 \in 0..MaxPeerWrites /\ 0 \in 0..MaxFailures
      /\ 0 \in 0..MaxCrashes
  BY RunConstants DEF Documents
<1>2. /\ store \in [docs : Documents, mark : Marks, stamp : Nat]
      /\ disk \in Saves
      /\ remote \in [docs : Documents, version : Nat, backend : Backends]
      /\ fast \in {Nothing} \cup Records
  <2>1. store \in [docs : Documents, mark : Marks, stamp : Nat] /\ disk \in Saves
    BY <1>1, IdleRunTyped DEF Init, Saves
  <2>2. remote \in [docs : Documents, version : Nat, backend : Backends]
    BY <1>1 DEF Init
  <2>3. [docs |-> {}, version |-> 1] \in Records
    BY <1>1 DEF Records
  <2> QED BY <2>1, <2>2, <2>3 DEF Init
<1>3. count \in [edits : 0..MaxEdits, peers : 0..MaxPeerWrites, failures : 0..MaxFailures,
                crashes : 0..MaxCrashes]
  BY <1>1 DEF Init
<1>4. TypeOK
  BY <1>1, <1>2, <1>3, IdleRunTyped DEF Init, TypeOK
<1>5. /\ remote.docs = {} /\ remote.version = 1 /\ store.docs = {} /\ store.stamp = 0
      /\ fast # Nothing => fast.docs = {} /\ fast.version = 1
  BY DEF Init
<1>6. RecordProvesRemote /\ SavedOrQueued
  BY <1>5 DEF RecordProvesRemote, SavedOrQueued
<1>7. NotAhead /\ SnapshotHolds /\ MergeHolds /\ UploadHolds
  BY <1>5 DEF Init, IdleRun, NotAhead, SnapshotHolds, MergeHolds, UploadHolds
<1> QED BY <1>4, <1>6, <1>7 DEF RunInv

(* A run that ends, or begins, holds nothing. *)
LEMMA EndKeeps ==
    ASSUME RunInv, TypeOK', SavedOrQueued', UNCHANGED <<remote, fast>>,
           \/ run' = IdleRun
           \/ \E then \in {"cycle", "fast"} : run' = [IdleRun EXCEPT !.pc = "flush", !.then = then]
    PROVE  RunInv'
<1>1. /\ run'.at = 0 /\ run'.cacheAt = -1 /\ run'.version = 0 /\ run'.wrote = 0 /\ ~run'.matches /\ ~run'.armed
      /\ run'.pc \in {"idle", "flush"} /\ (run'.pc = "flush" => run'.then # "none")
  <2>1. CASE run' = IdleRun
    BY <2>1 DEF IdleRun
  <2>2. ASSUME NEW then \in {"cycle", "fast"}, run' = [IdleRun EXCEPT !.pc = "flush", !.then = then]
        PROVE  /\ run'.at = 0 /\ run'.cacheAt = -1 /\ run'.version = 0 /\ run'.wrote = 0 /\ ~run'.matches /\ ~run'.armed
               /\ run'.pc = "flush" /\ run'.then = then
    BY <2>2 DEF IdleRun
  <2> QED BY <2>1, <2>2
<1>2. RecordProvesRemote'
  BY DEF RunInv, RecordProvesRemote, Fenced
<1>3. store'.stamp \in Nat /\ remote'.version \in Nat
  BY DEF TypeOK
<1>4. NotAhead'
  BY <1>1, <1>3 DEF RunInv, NotAhead
<1>5. SnapshotHolds' /\ MergeHolds' /\ UploadHolds'
  BY <1>1 DEF SnapshotHolds, MergeHolds, UploadHolds
<1> QED BY <1>2, <1>4, <1>5 DEF RunInv

(* An edit during a run keeps the invariant. *)
LEMMA EditKeeps ==
    ASSUME RunInv, Edit
    PROVE  RunInv'
<1>1. /\ store'.docs = store.docs \cup {count.edits + 1} /\ store'.stamp = store.stamp + 1
      /\ unsaved' = [docs |-> store'.docs, mark |-> store.mark]
      /\ disk' = disk /\ remote' = remote /\ fast' = fast /\ run' = run
  BY DEF Edit, RunInv, TypeOK
<1>2. TypeOK'
  BY EditTyped DEF RunInv
<1>3. store.stamp \in Nat /\ run.at \in Nat /\ run.cacheAt \in Nat \cup {-1}
  BY DEF RunInv, TypeOK, Runs
<1>4. ~Fresh' /\ run.cacheAt # store'.stamp /\ run.at <= store'.stamp /\ run.cacheAt <= store'.stamp
  BY <1>1, <1>3 DEF RunInv, NotAhead, Fresh
<1>5. RecordProvesRemote' /\ SavedOrQueued' /\ NotAhead'
  <2>1. DOMAIN unsaved' # DOMAIN Nothing
    BY <1>1 DEF Nothing
  <2>2. unsaved' # Nothing /\ unsaved'.docs = store'.docs
    BY <1>1, <2>1
  <2>3. SavedOrQueued'
    BY <1>1, <2>2 DEF RunInv, SavedOrQueued, Nothing
  <2> QED BY <1>1, <1>4, <2>3 DEF RunInv, RecordProvesRemote, Fenced, NotAhead
<1>6. SnapshotHolds' /\ MergeHolds' /\ UploadHolds'
  BY <1>1, <1>4 DEF RunInv, SnapshotHolds, MergeHolds, UploadHolds, Fenced
<1> QED BY <1>2, <1>5, <1>6 DEF RunInv

(* A save puts more on the disk. *)
LEMMA SaveFlushesKeeps ==
    ASSUME RunInv, SaveFlushes
    PROVE  RunInv'
<1>1. /\ disk.docs \subseteq disk'.docs /\ (unsaved # Nothing => unsaved.docs \subseteq disk'.docs)
      /\ unsaved' = Nothing /\ store' = store /\ remote' = remote /\ fast' = fast /\ run' = run
  BY AfterSaveAdds DEF SaveFlushes, RunInv
<1>2. TypeOK'
  BY SavesTyped DEF RunInv
<1>3. RecordProvesRemote' /\ SavedOrQueued' /\ NotAhead'
  BY <1>1 DEF RunInv, RecordProvesRemote, Fenced, SavedOrQueued, NotAhead, Nothing
<1>4. SnapshotHolds' /\ MergeHolds' /\ UploadHolds'
  BY <1>1 DEF RunInv, SnapshotHolds, MergeHolds, UploadHolds, Fenced, Fresh, Nothing
<1> QED BY <1>2, <1>3, <1>4 DEF RunInv

(* A peer's write moves the version on, and waits for the fence.             *)
LEMMA PeerWritesKeeps ==
    ASSUME RunInv, PeerWrites
    PROVE  RunInv'
<1>1. /\ remote'.version = remote.version + 1 /\ remote'.backend = remote.backend /\ ~HoldsFence
      /\ store' = store /\ disk' = disk /\ unsaved' = unsaved /\ fast' = fast /\ run' = run
  BY DEF PeerWrites, RunInv, TypeOK, device
<1>2. TypeOK'
  BY PeerWritesTyped DEF RunInv
<1>3. /\ remote.version \in Nat /\ run.version \in Nat /\ run.wrote \in Nat
      /\ fast # Nothing => fast.version \in Nat
  BY DEF RunInv, TypeOK, Runs, Records
<1>4. RecordProvesRemote' /\ NotAhead'
  BY <1>1, <1>3 DEF RunInv, RecordProvesRemote, Fenced, NotAhead
<1>5. SavedOrQueued' /\ SnapshotHolds'
  BY <1>1 DEF RunInv, SavedOrQueued, SnapshotHolds, Fenced, Nothing
<1>6. MergeHolds' /\ UploadHolds'
  BY <1>1 DEF RunInv, MergeHolds, UploadHolds, Fenced, Fresh, HoldsFence
<1> QED BY <1>2, <1>4, <1>5, <1>6 DEF RunInv

(* So does a step that moves none of the data. *)
LEMMA NothingMoves ==
    ASSUME RunInv, TypeOK', UNCHANGED <<store, disk, unsaved, remote, fast, run>>
    PROVE  RunInv'
<1>1. RecordProvesRemote' /\ SavedOrQueued' /\ NotAhead'
  BY DEF RunInv, RecordProvesRemote, Fenced, SavedOrQueued, NotAhead, Nothing
<1>2. SnapshotHolds' /\ MergeHolds' /\ UploadHolds'
  BY DEF RunInv, SnapshotHolds, MergeHolds, UploadHolds, Fenced, Fresh, Nothing
<1> QED BY <1>1, <1>2 DEF RunInv

(* A flush of the save queue keeps the invariant. *)
LEMMA FlushKeeps ==
    ASSUME RunInv, Flush
    PROVE  RunInv'
<1>1. /\ disk.docs \subseteq disk'.docs /\ (unsaved # Nothing => unsaved.docs \subseteq disk'.docs)
      /\ unsaved' = Nothing /\ store' = store /\ remote' = remote /\ fast' = fast
      /\ run.pc = "flush" /\ run' = [run EXCEPT !.pc = "capture", !.at = store.stamp]
  BY AfterSaveAdds DEF Flush, RunInv
<1>2. TypeOK'
  BY SavesTyped DEF RunInv
<1>3. /\ run'.pc = "capture" /\ run'.at = store.stamp /\ run'.then = run.then
      /\ run'.cacheAt = run.cacheAt /\ run'.snap = run.snap /\ run'.wrote = run.wrote /\ run'.matches = run.matches
      /\ run'.armed = run.armed /\ run'.version = run.version
  BY <1>1 DEF RunInv, TypeOK, Runs
<1>4. store.stamp \in Nat
  BY DEF RunInv, TypeOK
<1>5. RecordProvesRemote' /\ SavedOrQueued' /\ NotAhead'
  BY <1>1, <1>3, <1>4 DEF RunInv, RecordProvesRemote, Fenced, SavedOrQueued, NotAhead, Nothing
<1>6. SnapshotHolds' /\ MergeHolds' /\ UploadHolds'
  BY <1>1, <1>3 DEF RunInv, SnapshotHolds, MergeHolds, UploadHolds, Fenced, Nothing
<1> QED BY <1>2, <1>5, <1>6 DEF RunInv

(* Retrying a pending upload keeps the invariant. *)
LEMMA RetryPendingWriteKeeps ==
    ASSUME RunInv, RetryPendingWrite
    PROVE  RunInv'
<1>1. /\ disk.docs \subseteq disk'.docs /\ (unsaved # Nothing => unsaved.docs \subseteq disk'.docs)
      /\ unsaved' = Nothing /\ store' = store /\ remote' = remote /\ fast' = fast
      /\ run.pc = "cycle"
      /\ run' = [run EXCEPT !.pc = "capture", !.then = "readRemote", !.meta = run.mark.attempts]
  BY AfterSaveAdds DEF RetryPendingWrite, RunInv
<1>2. TypeOK'
  BY SavesTyped DEF RunInv
<1>3. /\ run'.pc = "capture" /\ run'.at = run.at /\ run'.then = "readRemote"
      /\ run'.cacheAt = run.cacheAt /\ run'.snap = run.snap /\ run'.wrote = run.wrote /\ run'.matches = run.matches
      /\ run'.armed = run.armed /\ run'.version = run.version
  BY <1>1 DEF RunInv, TypeOK, Runs
<1>4. RecordProvesRemote' /\ SavedOrQueued' /\ NotAhead'
  BY <1>1, <1>3 DEF RunInv, RecordProvesRemote, Fenced, SavedOrQueued, NotAhead, Nothing
<1>5. SnapshotHolds' /\ MergeHolds' /\ UploadHolds'
  BY <1>1, <1>3 DEF RunInv, SnapshotHolds, MergeHolds, UploadHolds, Fenced, Nothing
<1> QED BY <1>2, <1>4, <1>5 DEF RunInv

(* Of a step that touches the run only, what it reads is left to show. *)
RunOnly == UNCHANGED <<store, disk, unsaved, remote, fast>>

(* A step of the run alone keeps the invariant when its own parts hold. *)
LEMMA RunOnlyKeeps ==
    ASSUME RunInv, TypeOK', RunOnly, run'.at <= store.stamp, run'.cacheAt <= store.stamp,
           run'.version <= remote.version, run'.wrote <= remote.version,
           SnapshotHolds', MergeHolds', UploadHolds'
    PROVE  RunInv'
<1>1. RecordProvesRemote' /\ SavedOrQueued' /\ NotAhead'
  BY DEF RunInv, RunOnly, RecordProvesRemote, Fenced, SavedOrQueued, NotAhead, Nothing
<1> QED BY <1>1 DEF RunInv

(* Capturing the local snapshot keeps the invariant. *)
LEMMA CaptureLocalKeeps ==
    ASSUME RunInv, CaptureLocal
    PROVE  RunInv'
<1>1. TypeOK' /\ RunOnly /\ store.stamp \in Nat /\ run.pc = "capture"
  BY CaptureTyped DEF RunInv, CaptureLocal, device, RunOnly, TypeOK
<1>2. /\ run'.then = run.then /\ run'.snap = run.snap /\ run'.wrote = run.wrote /\ run'.matches = run.matches
      /\ run'.armed = run.armed /\ run'.version = run.version
      /\ run'.cacheAt = store.stamp
      /\ \/ run.cacheAt = store.stamp /\ run'.pc = run.then /\ run'.at = store.stamp
         \/ run'.pc = "readDisk" /\ run'.at = run.at /\ run'.held = store.docs
  BY DEF CaptureLocal, RunInv, TypeOK, Runs
<1>3. run.then \in {"fast", "cycle", "readRemote"}
  BY <1>1 DEF RunInv, TypeOK, Runs, SnapshotHolds
<1>4. SnapshotHolds'
  BY <1>1, <1>2, <1>3 DEF RunInv, SnapshotHolds, RunOnly, Fenced, Nothing
<1>5. MergeHolds' /\ UploadHolds'
  BY <1>2, <1>3 DEF MergeHolds, UploadHolds
<1>6. /\ run'.at <= store.stamp /\ run'.cacheAt <= store.stamp
      /\ run'.version <= remote.version /\ run'.wrote <= remote.version
  BY <1>1, <1>2 DEF RunInv, NotAhead
<1> QED BY <1>1, <1>4, <1>5, <1>6, RunOnlyKeeps

(* Reading the saved data keeps the invariant. *)
LEMMA ReadDiskKeeps ==
    ASSUME RunInv, ReadDisk
    PROVE  RunInv'
<1>1. TypeOK' /\ RunOnly /\ run.pc = "readDisk"
  BY ReadDiskTyped DEF RunInv, ReadDisk, device, RunOnly
<1>2. /\ run'.then = run.then /\ run'.snap = disk.docs \cup run.held /\ run'.wrote = run.wrote
      /\ run'.matches = (disk.docs = run.held)
      /\ run'.armed = run.armed /\ run'.version = run.version
      /\ run'.cacheAt = run.cacheAt /\ run'.at = run.cacheAt /\ run'.pc = run.then
  BY DEF ReadDisk, RunInv, TypeOK, Runs
<1>3. run.then \in {"fast", "cycle", "readRemote"}
  BY <1>1 DEF RunInv, TypeOK, Runs, SnapshotHolds
<1>4. SnapshotHolds'
  BY <1>1, <1>2, <1>3 DEF RunInv, SnapshotHolds, SavedOrQueued, RunOnly, Fenced, Nothing
<1>5. MergeHolds' /\ UploadHolds'
  BY <1>2, <1>3 DEF MergeHolds, UploadHolds
<1>6. /\ run'.at <= store.stamp /\ run'.cacheAt <= store.stamp
      /\ run'.version <= remote.version /\ run'.wrote <= remote.version
  BY <1>1, <1>2 DEF RunInv, NotAhead
<1> QED BY <1>1, <1>4, <1>5, <1>6, RunOnlyKeeps

(* The fast path and the early returns keep the invariant. *)
LEMMA FastStepsKeep ==
    ASSUME RunInv, FastCheckMisses \/ FastCheckFails \/ NoPendingWrite \/ ReadRemoteFails
    PROVE  RunInv'
<1>1. TypeOK' /\ RunOnly
  BY FastStepsTyped DEF RunInv, FastCheckMisses, FastCheckFails, NoPendingWrite, ReadRemoteFails,
                        device, RunOnly
<1>2. /\ run'.snap = run.snap /\ run'.wrote = run.wrote /\ run'.matches = run.matches
      /\ run'.cacheAt = run.cacheAt /\ run'.at = run.at
      /\ \/ /\ run.pc = "fast" /\ run'.pc = "capture" /\ run'.then = "cycle"
            /\ run'.armed = (Fenced /\ RemoteAsRecorded) /\ run'.version = remote.version
         \/ /\ run.pc = "fast" /\ run'.pc = "capture" /\ run'.then = "cycle"
            /\ run'.armed = run.armed /\ run'.version = run.version
         \/ /\ run.pc = "cycle" /\ run'.pc = "readRemote" /\ run'.then = run.then
            /\ run'.armed = run.armed /\ run'.version = run.version
         \/ /\ run.pc = "readRemote" /\ run'.pc = "fail" /\ run'.then = run.then
            /\ run'.armed = run.armed /\ run'.version = run.version
  <2>1. run \in Runs
    BY DEF RunInv, TypeOK
  <2>2. CASE FastCheckMisses
    BY <2>1, <2>2 DEF FastCheckMisses, Runs
  <2>3. CASE FastCheckFails
    BY <2>1, <2>3 DEF FastCheckFails, Runs
  <2>4. CASE NoPendingWrite \/ ReadRemoteFails
    BY <2>1, <2>4 DEF NoPendingWrite, ReadRemoteFails, Goes, Runs
  <2> QED BY <2>2, <2>3, <2>4
<1>3. remote.version \in Nat /\ run.at \in Nat
  BY DEF RunInv, TypeOK, Runs
<1>4. SnapshotHolds'
  BY <1>1, <1>2, <1>3 DEF RunInv, SnapshotHolds, RunOnly, Fenced, RemoteAsRecorded, UsableRecord, Nothing
<1>5. MergeHolds' /\ UploadHolds'
  BY <1>2 DEF MergeHolds, UploadHolds
<1>6. /\ run'.at <= store.stamp /\ run'.cacheAt <= store.stamp
      /\ run'.version <= remote.version /\ run'.wrote <= remote.version
  BY <1>1, <1>2, <1>3 DEF RunInv, NotAhead
<1> QED BY <1>1, <1>4, <1>5, <1>6, RunOnlyKeeps

(* The merge: it contains what was read on both sides; what an armed upload  *)
(* leaves unread is in the snapshot as long as the fingerprint stands.       *)
LEMMA ReadRemoteKeeps ==
    ASSUME RunInv, ReadRemote
    PROVE  RunInv'
<1>1. TypeOK' /\ RunOnly /\ run.pc = "readRemote"
  BY ReadRemoteTyped DEF RunInv, ReadRemote, device, RunOnly
<1>2. /\ run'.snap = run.snap /\ run'.wrote = run.wrote /\ run'.matches = run.matches /\ run'.armed = run.armed
      /\ run'.cacheAt = run.cacheAt /\ run'.at = run.at
      /\ run'.doc = run.snap \cup (IF run.armed THEN {} ELSE remote.docs)
      /\ run'.base = (IF run.armed THEN Nothing ELSE [docs |-> remote.docs])
      /\ run'.version = (IF run.armed THEN run.version ELSE remote.version)
      /\ \/ run'.pc = "writeLocal" /\ run'.writing = "mark"
         \/ run'.pc = "writeRemote" /\ run'.writing = "none" /\ run.matches /\ run'.doc = run.snap
  <2>1. run \in Runs
    BY DEF RunInv, TypeOK
  <2>2. CASE run.meta < 0 /\ run.matches /\ run.snap \cup (IF run.armed THEN {} ELSE remote.docs) = run.snap
    BY <2>1, <2>2 DEF ReadRemote, Runs
  <2>3. CASE ~(run.meta < 0 /\ run.matches /\ run.snap \cup (IF run.armed THEN {} ELSE remote.docs) = run.snap)
    BY <2>1, <2>3 DEF ReadRemote, Runs
  <2> QED BY <2>2, <2>3
<1>3. SnapshotHolds' /\ UploadHolds'
  BY <1>1, <1>2 DEF RunInv, SnapshotHolds, UploadHolds, RunOnly, Fenced
<1>4. Fresh => store.docs \subseteq run.snap
  <2>1. store.stamp \in Nat /\ run.at \in Nat
    BY DEF RunInv, TypeOK, Runs
  <2> QED BY <1>1, <2>1 DEF RunInv, SnapshotHolds, NotAhead, Fresh
<1>5. run'.version = remote.version => remote.docs \subseteq run'.doc \/ ~Fenced
  <2>1. CASE run.armed
    BY <1>1, <1>2, <2>1 DEF RunInv, SnapshotHolds, RecordProvesRemote
  <2>2. CASE ~run.armed
    BY <1>2, <2>2
  <2> QED BY <2>1, <2>2
<1>6. run'.base # Nothing => run'.base.docs = remote.docs
  BY <1>2
<1>7. MergeHolds'
  BY <1>1, <1>2, <1>4, <1>5, <1>6 DEF RunInv, SnapshotHolds, MergeHolds, RunOnly, Fenced, Fresh, Nothing
<1>8. /\ run'.at <= store.stamp /\ run'.cacheAt <= store.stamp
      /\ run'.version <= remote.version /\ run'.wrote <= remote.version
  <2>1. remote.version \in Nat
    BY DEF RunInv, TypeOK
  <2> QED BY <1>1, <1>2, <2>1 DEF RunInv, NotAhead
<1> QED BY <1>1, <1>3, <1>7, <1>8, RunOnlyKeeps

(* The marker is taken back, or the run ends. *)
LEMMA LocalAbortKeeps ==
    ASSUME RunInv, TypeOK', RunOnly,
           run.pc \in {"writeLocal", "applyLocal", "writeRemote"},
           \/ run' = IdleRun
           \/ run' = [run EXCEPT !.pc = "writeLocal", !.writing = "abort"]
    PROVE  RunInv'
<1>1. CASE run' = IdleRun
  <2>1. SavedOrQueued' /\ UNCHANGED <<remote, fast>>
    BY DEF RunInv, SavedOrQueued, RunOnly, Nothing
  <2> QED BY <1>1, <2>1, EndKeeps
<1>2. CASE run' = [run EXCEPT !.pc = "writeLocal", !.writing = "abort"]
  <2>1. /\ run'.pc = "writeLocal" /\ run'.writing = "abort"
        /\ run'.snap = run.snap /\ run'.wrote = run.wrote /\ run'.matches = run.matches /\ run'.armed = run.armed
        /\ run'.cacheAt = run.cacheAt /\ run'.at = run.at /\ run'.version = run.version
        /\ run'.doc = run.doc
    BY <1>2 DEF RunInv, TypeOK, Runs
  <2>2. SnapshotHolds' /\ MergeHolds' /\ UploadHolds'
    BY <2>1 DEF RunInv, SnapshotHolds, MergeHolds, UploadHolds, RunOnly, Fenced, Fresh
  <2>3. /\ run'.at <= store.stamp /\ run'.cacheAt <= store.stamp
        /\ run'.version <= remote.version /\ run'.wrote <= remote.version
    BY <2>1 DEF RunInv, NotAhead
  <2> QED BY <2>2, <2>3, RunOnlyKeeps
<1> QED BY <1>1, <1>2

(* Steps that find the store changed keep the invariant. *)
LEMMA StaleStepsKeep ==
    ASSUME RunInv, WriteLocalStale \/ ApplyLocalStale \/ WriteRemoteAborts \/ AfterMergeStale
    PROVE  RunInv'
<1>1. TypeOK' /\ RunOnly
  BY StaleStepsTyped DEF RunInv, WriteLocalStale, ApplyLocalStale, WriteRemoteAborts, AfterMergeStale,
                         device, RunOnly
<1>2. CASE WriteLocalStale \/ ApplyLocalStale \/ WriteRemoteAborts
  BY <1>1, <1>2, LocalAbortKeeps DEF WriteLocalStale, ApplyLocalStale, WriteRemoteAborts, AbortsLocally
<1>3. CASE AfterMergeStale
  <2>1. SavedOrQueued' /\ UNCHANGED <<remote, fast>>
    BY <1>1 DEF RunInv, SavedOrQueued, RunOnly, Nothing
  <2> QED BY <1>1, <1>3, <2>1, EndKeeps DEF AfterMergeStale, Ends
<1> QED BY <1>2, <1>3

(* A store that has not changed, or that the document equals, is in it. *)
LEMMA CoveredStore ==
    ASSUME RunInv, FreshOrCovered(run.doc),
           run.pc \in {"writeLocal", "applyLocal", "writeRemote", "post", "record", "finalize"}
    PROVE  store.docs \subseteq run.doc
<1> QED BY DEF RunInv, MergeHolds, FreshOrCovered

(* The local write keeps the invariant. *)
LEMMA WriteLocalKeeps ==
    ASSUME RunInv, WriteLocal
    PROVE  RunInv'
<1>1. /\ TypeOK' /\ run.pc = "writeLocal"
      /\ store' = store /\ unsaved' = unsaved /\ remote' = remote /\ fast' = fast
      /\ disk'.docs = disk.docs \cup LocalTarget
  BY WriteLocalTyped DEF RunInv, WriteLocal
<1>2. /\ run'.pc = "applyLocal" /\ run'.doc = disk'.docs /\ run'.writing = run.writing
      /\ run'.at = (IF run.writing = "abort" THEN run.at ELSE store.stamp)
      /\ run'.snap = run.snap /\ run'.matches = run.matches /\ run'.armed = run.armed
      /\ run'.cacheAt = run.cacheAt /\ run'.version = run.version /\ run'.base = run.base
      /\ run'.wrote = run.wrote
  BY DEF WriteLocal, RunInv, TypeOK, Runs
<1>3. /\ store.docs \subseteq LocalTarget
      /\ run.writing # "abort" => LocalTarget = run.doc
  BY <1>1, CoveredStore DEF WriteLocal, LocalTarget
<1>4. store.stamp \in Nat
  BY DEF RunInv, TypeOK
<1>5. RecordProvesRemote' /\ SavedOrQueued' /\ NotAhead'
  BY <1>1, <1>2, <1>4 DEF RunInv, RecordProvesRemote, Fenced, SavedOrQueued, NotAhead, Nothing
<1>6. SnapshotHolds'
  BY <1>1, <1>2 DEF RunInv, SnapshotHolds, Fenced
<1>7. MergeHolds'
  <2>1. Fenced /\ run.writing \in {"mark", "none"} =>
          /\ run'.base # Nothing => run'.base.docs = remote.docs
          /\ run'.version = remote.version => remote.docs \subseteq run'.doc
    BY <1>1, <1>2, <1>3 DEF RunInv, MergeHolds
  <2> QED BY <1>1, <1>2, <1>3, <2>1 DEF MergeHolds, Fenced, Nothing
<1>8. UploadHolds'
  BY <1>1, <1>2, <1>3 DEF RunInv, UploadHolds, Fenced
<1> QED BY <1>1, <1>5, <1>6, <1>7, <1>8 DEF RunInv

(* The store becomes the merged document, which the disk has. *)
LEMMA ApplyLocalKeeps ==
    ASSUME RunInv, ApplyLocal
    PROVE  RunInv'
<1>1. /\ TypeOK' /\ run.pc = "applyLocal" /\ FreshOrCovered(run.doc)
      /\ disk' = disk /\ unsaved' = unsaved /\ remote' = remote /\ fast' = fast
      /\ store'.docs = run.doc /\ store'.stamp = store.stamp /\ store.stamp \in Nat
  BY ApplyLocalTyped DEF RunInv, ApplyLocal, TypeOK
<1>2. SavedOrQueued'
  BY <1>1 DEF RunInv, SavedOrQueued, MergeHolds, Nothing
<1>3. CASE run.writing = "abort"
  BY <1>1, <1>2, <1>3, EndKeeps DEF ApplyLocal
<1>4. CASE run.writing # "abort"
  <2>1. /\ run'.snap = run.snap /\ run'.matches = run.matches /\ run'.armed = run.armed
        /\ run'.cacheAt = run.cacheAt /\ run'.version = run.version /\ run'.base = run.base
        /\ run'.doc = run.doc /\ run'.writing = run.writing /\ run'.wrote = run.wrote
        /\ run'.at \in {run.at, store.stamp}
        /\ \/ run'.pc = "fail"
           \/ run'.pc = "post" /\ run.writing = "clear"
           \/ run'.pc = "writeRemote" /\ run.writing \in {"mark", "none"}
    <3>1. run \in Runs /\ run.writing \in {"none", "mark", "clear", "retry", "abort"}
      BY DEF RunInv, TypeOK, Runs
    <3>2. \/ run.writing = "retry" /\ run' = [run EXCEPT !.pc = "fail"]
          \/ run.writing = "clear" /\ run' = [run EXCEPT !.pc = "post", !.at = store.stamp]
          \/ /\ run.writing \in {"mark", "none"}
             /\ run' = [run EXCEPT !.pc = "writeRemote", !.at = store.stamp]
      BY <1>4, <3>1 DEF ApplyLocal
    <3> QED BY <3>1, <3>2 DEF Runs
  <2>2. RecordProvesRemote' /\ NotAhead'
    BY <1>1, <2>1 DEF RunInv, RecordProvesRemote, Fenced, NotAhead
  <2>3. SnapshotHolds'
    BY <1>1, <2>1 DEF RunInv, SnapshotHolds, Fenced
  <2>4. MergeHolds'
    BY <1>1, <2>1 DEF RunInv, MergeHolds, Fenced, Nothing
  <2>5. UploadHolds'
    BY <1>1, <2>1 DEF RunInv, UploadHolds, Fenced
  <2> QED BY <1>1, <1>2, <2>2, <2>3, <2>4, <2>5 DEF RunInv
<1> QED BY <1>3, <1>4

(* The fields of the run after its upload. *)
LEMMA AfterRemoteWriteFields ==
    ASSUME TypeOK, NEW wrote \in Nat, NEW served \in BOOLEAN, run' = AfterRemoteWrite(wrote, served)
    PROVE  /\ run'.snap = run.snap /\ run'.matches = run.matches /\ run'.armed = run.armed
           /\ run'.cacheAt = run.cacheAt /\ run'.version = run.version
           /\ run'.doc = run.doc /\ run'.wrote = wrote /\ run'.at = store.stamp
           /\ \/ run'.pc = "post" /\ run'.writing = "none"
              \/ run'.pc = "writeLocal" /\ run'.writing = "clear"
<1>1. run \in Runs
  BY DEF TypeOK
<1>2. CASE run.writing = "none"
  BY <1>1, <1>2 DEF AfterRemoteWrite, Runs
<1>3. CASE run.writing # "none"
  BY <1>1, <1>3 DEF AfterRemoteWrite, Runs
<1> QED BY <1>2, <1>3

(* What an upload replaces is in what it writes: under the fence nobody      *)
(* wrote since it was read, and the precondition tells if somebody did       *)
(* before the fence was taken; without a fence the server merges.            *)
LEMMA UploadAdds ==
    ASSUME RunInv, run.pc = "writeRemote", ~Conflict
    PROVE  remote.docs \subseteq Stored.docs
<1>1. Stored.docs = IF Fenced THEN run.doc ELSE remote.docs \cup run.doc
  BY StoredTyped DEF RunInv
<1>2. Fenced => remote.docs \subseteq run.doc
  BY DEF RunInv, MergeHolds, Conflict
<1> QED BY <1>1, <1>2

(* Skipping an upload that changes nothing keeps the invariant. *)
LEMMA WriteRemoteSkippedKeeps ==
    ASSUME RunInv, WriteRemoteSkipped
    PROVE  RunInv'
<1>1. /\ TypeOK' /\ RunOnly /\ run.pc = "writeRemote" /\ AlreadyThere
      /\ store.docs \subseteq run.doc /\ run' = AfterRemoteWrite(0, FALSE)
  BY WriteRemoteTyped, CoveredStore DEF RunInv, WriteRemoteSkipped, device, RunOnly
<1>2. /\ run'.snap = run.snap /\ run'.matches = run.matches /\ run'.armed = run.armed
      /\ run'.cacheAt = run.cacheAt /\ run'.version = run.version
      /\ run'.doc = run.doc /\ run'.wrote = 0 /\ run'.at = store.stamp
      /\ \/ run'.pc = "post" /\ run'.writing = "none"
         \/ run'.pc = "writeLocal" /\ run'.writing = "clear"
  BY <1>1, AfterRemoteWriteFields DEF RunInv
<1>3. Fenced => remote.docs \subseteq run.doc
  BY <1>1 DEF RunInv, MergeHolds, AlreadyThere
<1>4. SnapshotHolds' /\ MergeHolds' /\ UploadHolds'
  BY <1>1, <1>2, <1>3 DEF RunInv, SnapshotHolds, MergeHolds, UploadHolds, RunOnly, Fenced
<1>5. /\ run'.at <= store.stamp /\ run'.cacheAt <= store.stamp
      /\ run'.version <= remote.version /\ run'.wrote <= remote.version
  <2>1. store.stamp \in Nat /\ remote.version \in Nat
    BY DEF RunInv, TypeOK
  <2> QED BY <1>2, <2>1 DEF RunInv, NotAhead
<1> QED BY <1>1, <1>4, <1>5, RunOnlyKeeps

(* Whatever is uploaded moves the version past every record. *)
LEMMA StoredProves ==
    ASSUME RunInv, TypeOK', remote' = Stored, fast' = fast
    PROVE  RecordProvesRemote' /\ remote'.version > remote.version /\ Fenced' = Fenced
<1>1. /\ remote'.version = remote.version + 1 /\ remote'.backend = remote.backend
      /\ remote.version \in Nat
  BY StoredTyped DEF RunInv, TypeOK
<1>2. fast # Nothing => fast.version \in Nat /\ fast.version <= remote.version
  BY DEF RunInv, TypeOK, Records, NotAhead
<1> QED BY <1>1, <1>2 DEF RecordProvesRemote, Fenced

(* The upload keeps the invariant. *)
LEMMA WriteRemoteKeeps ==
    ASSUME RunInv, WriteRemote
    PROVE  RunInv'
<1> DEFINE served == ~(Stored.docs \subseteq run.doc)
           wrote == IF served THEN 0 ELSE Stored.version
<1>1. /\ TypeOK' /\ run.pc = "writeRemote" /\ store.docs \subseteq run.doc
      /\ store' = store /\ disk' = disk /\ unsaved' = unsaved /\ fast' = fast /\ remote' = Stored
      /\ run' = AfterRemoteWrite(wrote, served)
      /\ served \in BOOLEAN /\ wrote \in Nat /\ store.stamp \in Nat
  BY WriteRemoteTyped, CoveredStore, StoredTyped DEF RunInv, WriteRemote, device, TypeOK
<1>2. (Fenced => Stored.docs = run.doc /\ wrote = remote'.version) /\ wrote <= remote'.version
  BY <1>1, StoredTyped DEF RunInv, TypeOK
<1> HIDE DEF served, wrote
<1>3. /\ run'.snap = run.snap /\ run'.matches = run.matches /\ run'.armed = run.armed
      /\ run'.cacheAt = run.cacheAt /\ run'.version = run.version
      /\ run'.doc = run.doc /\ run'.wrote = wrote /\ run'.at = store.stamp
      /\ \/ run'.pc = "post" /\ run'.writing = "none"
         \/ run'.pc = "writeLocal" /\ run'.writing = "clear"
  BY <1>1, AfterRemoteWriteFields DEF RunInv
<1>4. RecordProvesRemote' /\ remote'.version > remote.version /\ Fenced' = Fenced
  BY <1>1, StoredProves
<1>5. SavedOrQueued' /\ SnapshotHolds'
  BY <1>1, <1>3, <1>4 DEF RunInv, SavedOrQueued, SnapshotHolds, Nothing
<1>6. MergeHolds' /\ UploadHolds'
  BY <1>1, <1>2, <1>3, <1>4 DEF RunInv, MergeHolds, UploadHolds
<1>7. NotAhead'
  <2>1. /\ remote.version \in Nat /\ remote'.version \in Nat /\ run.version \in Nat /\ run.wrote \in Nat
        /\ fast # Nothing => fast.version \in Nat
    BY <1>1 DEF RunInv, TypeOK, Runs, Records
  <2> QED BY <1>1, <1>2, <1>3, <1>4, <2>1 DEF RunInv, NotAhead
<1> QED BY <1>1, <1>4, <1>5, <1>6, <1>7 DEF RunInv

(* An upload that fails, stored or not, keeps the invariant. *)
LEMMA WriteRemoteFailsKeeps ==
    ASSUME RunInv, WriteRemoteFails
    PROVE  RunInv'
<1>1. /\ TypeOK' /\ run.pc = "writeRemote" /\ store.docs \subseteq run.doc
      /\ store' = store /\ disk' = disk /\ unsaved' = unsaved /\ fast' = fast
      /\ remote' \in {remote, Stored} /\ store.stamp \in Nat
      /\ run' = [run EXCEPT !.pc = "writeLocal", !.writing = "retry", !.at = store.stamp]
  BY WriteRemoteTyped, CoveredStore DEF RunInv, WriteRemoteFails, device, TypeOK
<1>2. /\ run'.snap = run.snap /\ run'.wrote = run.wrote /\ run'.matches = run.matches /\ run'.armed = run.armed
      /\ run'.cacheAt = run.cacheAt /\ run'.version = run.version
      /\ run'.doc = run.doc /\ run'.at = store.stamp
      /\ run'.pc = "writeLocal" /\ run'.writing = "retry"
  BY <1>1 DEF RunInv, TypeOK, Runs
<1>3. RecordProvesRemote' /\ Fenced' = Fenced /\ (remote' = remote \/ remote'.version > remote.version)
  BY <1>1, StoredProves DEF RunInv, RecordProvesRemote, Fenced
<1>4. SavedOrQueued' /\ SnapshotHolds'
  BY <1>1, <1>2, <1>3 DEF RunInv, SavedOrQueued, SnapshotHolds, Nothing
<1>5. MergeHolds' /\ UploadHolds'
  BY <1>1, <1>2, <1>3 DEF RunInv, MergeHolds, UploadHolds
<1>6. NotAhead'
  <2>1. /\ remote.version \in Nat /\ remote'.version \in Nat /\ run.version \in Nat /\ run.wrote \in Nat
        /\ fast # Nothing => fast.version \in Nat
    BY <1>1 DEF RunInv, TypeOK, Runs, Records
  <2> QED BY <1>1, <1>2, <1>3, <2>1 DEF RunInv, NotAhead
<1> QED BY <1>1, <1>3, <1>4, <1>5, <1>6 DEF RunInv

(* The checks after the merge keep the invariant. *)
LEMMA AfterMergeKeeps ==
    ASSUME RunInv, AfterMergeFresh \/ CheckFence
    PROVE  RunInv'
<1>1. /\ TypeOK' /\ RunOnly /\ store.stamp \in Nat /\ store.docs \subseteq run.doc
      /\ run.pc \in {"post", "finalize"}
      /\ \/ run.pc = "post" /\ run' = [run EXCEPT !.pc = "record", !.at = store.stamp]
         \/ run' = [run EXCEPT !.pc = "apply", !.at = store.stamp]
  BY EndTyped, CoveredStore DEF RunInv, AfterMergeFresh, CheckFence, device, RunOnly, TypeOK
<1>2. /\ run'.snap = run.snap /\ run'.matches = run.matches /\ run'.armed = run.armed
      /\ run'.cacheAt = run.cacheAt /\ run'.version = run.version
      /\ run'.doc = run.doc /\ run'.wrote = run.wrote /\ run'.at = store.stamp
      /\ \/ run'.pc = "apply"
         \/ run'.pc = "record" /\ run.pc = "post"
  <2>1. run \in Runs
    BY DEF RunInv, TypeOK
  <2>2. CASE run' = [run EXCEPT !.pc = "apply", !.at = store.stamp]
    BY <2>1, <2>2 DEF Runs
  <2>3. CASE run.pc = "post" /\ run' = [run EXCEPT !.pc = "record", !.at = store.stamp]
    BY <2>1, <2>3 DEF Runs
  <2> QED BY <1>1, <2>2, <2>3
<1>3. SnapshotHolds' /\ MergeHolds' /\ UploadHolds'
  BY <1>1, <1>2 DEF RunInv, SnapshotHolds, MergeHolds, UploadHolds, RunOnly, Fenced
<1>4. /\ run'.at <= store.stamp /\ run'.cacheAt <= store.stamp
      /\ run'.version <= remote.version /\ run'.wrote <= remote.version
  BY <1>1, <1>2 DEF RunInv, NotAhead
<1> QED BY <1>1, <1>3, <1>4, RunOnlyKeeps

(* The record names the version of the remote document, which is in the      *)
(* local document recorded with it.                                          *)
LEMMA RecordKeeps ==
    ASSUME RunInv, RecordFastSync
    PROVE  RunInv'
<1> DEFINE record == [docs |-> run.doc,
                      version |-> IF run.wrote # 0 THEN run.wrote ELSE remote.version]
<1>1. /\ TypeOK' /\ run.pc = "record" /\ fast' \in {fast, record}
      /\ store' = store /\ disk' = disk /\ unsaved' = unsaved /\ remote' = remote
      /\ run' = [run EXCEPT !.pc = "finalize"]
  BY EndTyped DEF RunInv, RecordFastSync, device, Goes
<1>2. /\ run'.snap = run.snap /\ run'.wrote = run.wrote /\ run'.matches = run.matches /\ run'.armed = run.armed
      /\ run'.cacheAt = run.cacheAt /\ run'.version = run.version
      /\ run'.doc = run.doc /\ run'.at = run.at /\ run'.pc = "finalize"
  BY <1>1 DEF RunInv, TypeOK, Runs
<1>3. /\ run.doc \subseteq disk.docs
      /\ Fenced => remote.docs \subseteq run.doc /\ record.version = remote.version
  BY <1>1 DEF RunInv, MergeHolds, UploadHolds
<1>4. record.docs = run.doc /\ remote.version \in Nat /\ record.version <= remote.version
  BY DEF RunInv, TypeOK, NotAhead
<1>5. RecordProvesRemote'
  BY <1>1, <1>3, <1>4 DEF RunInv, RecordProvesRemote, Fenced
<1>6. SavedOrQueued'
  BY <1>1, <1>3, <1>4 DEF RunInv, SavedOrQueued, Nothing
<1>7. SnapshotHolds' /\ MergeHolds' /\ UploadHolds'
  BY <1>1, <1>2 DEF RunInv, SnapshotHolds, MergeHolds, UploadHolds, Fenced, Fresh
<1>8. NotAhead'
  BY <1>1, <1>2, <1>3, <1>4 DEF RunInv, NotAhead
<1> QED BY <1>1, <1>5, <1>6, <1>7, <1>8 DEF RunInv

(* The end of a run keeps the invariant. *)
LEMMA FinalizeKeeps ==
    ASSUME RunInv, Finalize
    PROVE  RunInv'
<1>1. TypeOK' /\ UNCHANGED <<disk, unsaved, remote, fast>> /\ store'.docs = run.doc /\ run' = IdleRun
  BY EndTyped DEF RunInv, Finalize, FinalizeSuccess, TypeOK
<1>2. SavedOrQueued'
  BY <1>1 DEF RunInv, Finalize, MergeHolds, SavedOrQueued, Nothing
<1> QED BY <1>1, <1>2, EndKeeps

(* So does the end of a run that failed. *)
LEMMA FinalizeErrorKeeps ==
    ASSUME RunInv, FinalizeError
    PROVE  RunInv'
<1>1. /\ TypeOK' /\ UNCHANGED <<remote, fast>> /\ run' = IdleRun
      /\ store'.docs = disk'.docs /\ disk.docs \subseteq disk'.docs
  BY SavesTyped, AfterSaveAdds DEF RunInv, FinalizeError, TypeOK
<1>2. SavedOrQueued'
  BY <1>1 DEF RunInv, SavedOrQueued
<1> QED BY <1>1, <1>2, EndKeeps

(* A crash keeps the invariant. *)
LEMMA CrashKeeps ==
    ASSUME RunInv, Crash
    PROVE  RunInv'
<1>1. TypeOK' /\ UNCHANGED <<disk, remote, fast>> /\ run' = IdleRun /\ store'.docs = disk.docs
  BY EnvironmentTyped DEF RunInv, Crash, TypeOK
<1>2. SavedOrQueued'
  BY <1>1 DEF RunInv, SavedOrQueued
<1> QED BY <1>1, <1>2, EndKeeps

(* A run that starts, or that ends before it has merged anything. *)
LEMMA BeginOrEndKeeps ==
    ASSUME RunInv, FastCheckStale \/ SkipUnchanged \/ SkipBackoff
                   \/ \E manual \in BOOLEAN : StartRun(manual)
    PROVE  RunInv'
<1>1. TypeOK' /\ UNCHANGED <<store, disk, unsaved, remote, fast>>
  BY FastStepsTyped, StartRunTyped DEF RunInv, FastCheckStale, SkipUnchanged, SkipBackoff, StartRun, device
<1>2. SavedOrQueued'
  BY <1>1 DEF RunInv, SavedOrQueued, Nothing
<1> QED BY <1>1, <1>2, EndKeeps DEF FastCheckStale, SkipUnchanged, SkipBackoff, StartRun, Ends

(* Time and the automatic syncs keep the invariant. *)
LEMMA EnvironmentKeeps ==
    ASSUME RunInv, Tick \/ AutoSyncFires \/ PeriodicSync
    PROVE  RunInv'
<1>1. TypeOK' /\ UNCHANGED <<store, disk, unsaved, remote, fast, run>>
  BY EnvironmentTyped DEF RunInv, Tick, AutoSyncFires, PeriodicSync, device
<1> QED BY <1>1, NothingMoves

(* Every step of the run and its surroundings keeps the invariant. *)
LEMMA RunInvInductive ==
    ASSUME RunInv, [Next]_vars
    PROVE  RunInv'
<1>1. CASE UNCHANGED vars
  <2>1. TypeOK'
    BY <1>1 DEF RunInv, TypeOK, vars
  <2> QED BY <1>1, <2>1, NothingMoves DEF vars
<1>2. CASE Next
  BY <1>2, EditKeeps, SaveFlushesKeeps, PeerWritesKeeps, EnvironmentKeeps, CrashKeeps,
     BeginOrEndKeeps, FlushKeeps, RetryPendingWriteKeeps, CaptureLocalKeeps, ReadDiskKeeps,
     FastStepsKeep, ReadRemoteKeeps, StaleStepsKeep, WriteLocalKeeps, ApplyLocalKeeps,
     WriteRemoteSkippedKeeps, WriteRemoteKeeps, WriteRemoteFailsKeeps, AfterMergeKeeps, RecordKeeps,
     FinalizeKeeps, FinalizeErrorKeeps DEF Next, RunStep
<1> QED BY <1>1, <1>2

(* The marks of failed uploads stay within their cap, the recorded           *)
(* fingerprint proves the remote document, and what a run has read, merged   *)
(* and uploaded covers what it replaces.                                     *)
THEOREM RunSafe == Spec => []RunInv
<1>1. Init => RunInv
  BY InitHolds
<1>2. RunInv /\ [Next]_vars => RunInv'
  BY RunInvInductive
<1> QED BY <1>1, <1>2, PTL DEF Spec

(* What a conditional upload may add to the remote document. *)
LEMMA RemoteGrows ==
    ASSUME RunInv, [Next]_vars
    PROVE  remote.docs \subseteq remote'.docs
<1>1. CASE remote' = remote
  BY <1>1
<1>2. CASE PeerWrites
  BY <1>2 DEF PeerWrites, RunInv, TypeOK
<1>3. CASE WriteRemote \/ WriteRemoteFails
  BY <1>3, UploadAdds DEF WriteRemote, WriteRemoteFails
<1>4. remote' = remote \/ PeerWrites \/ WriteRemote \/ WriteRemoteFails
  BY DEF Next, RunStep, vars, Edit, SaveFlushes, Tick, Crash, AutoSyncFires, PeriodicSync, StartRun,
         Flush, CaptureLocal, ReadDisk, FastCheckStale, SkipUnchanged, FastCheckMisses,
         FastCheckFails, SkipBackoff, RetryPendingWrite, NoPendingWrite, ReadRemote,
         ReadRemoteFails, WriteLocalStale, WriteLocal, ApplyLocalStale, ApplyLocal,
         WriteRemoteAborts, WriteRemoteSkipped, AfterMergeStale, AfterMergeFresh, RecordFastSync,
         CheckFence, Finalize, FinalizeSuccess, FinalizeError
<1> QED BY <1>1, <1>2, <1>3, <1>4

(* What the user made leaves the store with a crash, which forgets it, or in *)
(* the last window under the fence: what is put into the store otherwise has *)
(* been compared with it, or comes from a disk that was just saved to.       *)
LEMMA EditsStay ==
    ASSUME RunInv, [Next]_vars, run.pc # "apply"
    PROVE  (made' \cap store.docs) \subseteq store'.docs
<1>1. CASE store' = store
  BY <1>1
<1>2. CASE Edit
  BY <1>2 DEF Edit, RunInv, TypeOK
<1>3. CASE Crash
  BY <1>3 DEF Crash, RunInv, TypeOK
<1>4. CASE ApplyLocal
  <2>1. store'.docs = run.doc /\ store.docs \subseteq run.doc
    BY <1>4, CoveredStore DEF ApplyLocal, RunInv, TypeOK
  <2> QED BY <2>1
<1>5. CASE Finalize
  <2>1. store'.docs = run.doc /\ store.docs \subseteq run.doc
    BY <1>5, CoveredStore DEF Finalize, FinalizeSuccess, RunInv, TypeOK
  <2> QED BY <2>1
<1>6. CASE FinalizeError
  <2>1. /\ store'.docs = disk'.docs /\ disk.docs \subseteq disk'.docs
        /\ unsaved # Nothing => unsaved.docs \subseteq disk'.docs
    BY <1>6, AfterSaveAdds DEF FinalizeError, RunInv, TypeOK
  <2> QED BY <2>1 DEF RunInv, SavedOrQueued
<1>7. store' = store \/ Edit \/ Crash \/ ApplyLocal \/ Finalize \/ FinalizeError
  BY DEF Next, RunStep, vars, device, SaveFlushes, PeerWrites, Tick, AutoSyncFires, PeriodicSync,
         StartRun, Flush, CaptureLocal, ReadDisk, FastCheckStale, SkipUnchanged, FastCheckMisses,
         FastCheckFails, SkipBackoff, RetryPendingWrite, NoPendingWrite, ReadRemote,
         ReadRemoteFails, WriteLocalStale, WriteLocal, ApplyLocalStale, WriteRemoteAborts,
         WriteRemoteSkipped, WriteRemote, WriteRemoteFails, AfterMergeStale, AfterMergeFresh,
         RecordFastSync, CheckFence
<1> QED BY <1>1, <1>2, <1>3, <1>4, <1>5, <1>6, <1>7

(* No run, no failed or repeated request and no peer takes a change out of   *)
(* the remote document, and no run takes an edit out of the store but in its *)
(* last window under the fence.                                              *)
THEOREM NothingLost == Spec => NothingOverwritten
<1>1. RunInv /\ [Next]_vars => [remote.docs \subseteq remote'.docs]_vars
  BY RemoteGrows
<1>2. RunInv /\ [Next]_vars =>
          [(made' \cap store.docs) \subseteq store'.docs \/ run.pc = "apply"]_vars
  BY EditsStay
<1> QED BY <1>1, <1>2, RunSafe, PTL DEF NothingOverwritten, RemoteKeepsAll, EditsLeaveOnlyAtFence, Spec
=============================================================================
