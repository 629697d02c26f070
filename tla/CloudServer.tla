---------------------------- MODULE CloudServer ----------------------------
(***************************************************************************)
(* The self-hosted cloud server (apps/cloud/src): processes that share one *)
(* data directory and serve requests against the documents in it.  A       *)
(* request is admitted to its namespace, reads its body, queues for the    *)
(* namespace's lock behind the requests of its own process, polls the      *)
(* operating system's lock against the other processes, and then loads the *)
(* document through the process's cache, changes it and publishes the new  *)
(* file by a rename.  Reads of the REST API go through the same cache      *)
(* without any lock.                                                       *)
(*                                                                         *)
(* JavaScript runs one callback at a time, so a section of the code        *)
(* without an await excludes the rest of its process (`busy') but not the  *)
(* other processes; it is split into the file operations another process   *)
(* can come between.                                                       *)
(***************************************************************************)
EXTENDS Integers, Sequences, FiniteSets

CONSTANTS Procs,          \* server processes on one data directory
          Keys,           \* namespaces (digests of tokens)
          Requests,       \* requests clients may send
          Sites,          \* servers and what they are asked, see IsSite
          MaxNamespaces,  \* maxAnyTokenNamespaces
          NoOne           \* not a request

(* The processes, the namespaces, the kinds of request sent, whether a token *)
(* nobody configured may create a namespace, and a bound on crashes, failing *)
(* writes and unreadable files.                                              *)
IsSite(s) ==
    /\ s.procs \subseteq Procs /\ s.keys \subseteq Keys
    /\ s.kinds \subseteq {"get", "list", "post", "patch", "put", "capture", "gc"}
    /\ s.anyToken \in BOOLEAN
    /\ s.faults \in Nat

ASSUME CloudAssumption ==
    /\ \A s \in Sites : IsSite(s)
    /\ MaxNamespaces \in Nat
    /\ NoOne \notin Requests

VARIABLES
    file,    \* per namespace: the document and the identity its file has (0: no file)
    audio,   \* requests whose recording is stored as an attachment
    stamps,  \* identities given out so far
    lock,    \* who holds the operating system's lock of a key
    cache,   \* per process and namespace: a parsed document and a file identity
    chain,   \* per process and key: the queue of promises behind the lock
    busy,    \* the request whose callback a process is running
    req,     \* the requests
    site,    \* the member of Sites at hand
    faults

disk   == <<file, audio, stamps>>
memory == <<cache, chain, busy>>
vars   == <<file, audio, stamps, lock, cache, chain, busy, req, site, faults>>

Admission == "namespace-admission"
AnyToken  == site.anyToken
LockKeys  == Keys \cup {Admission}

-----------------------------------------------------------------------------
(* Documents.  `changes' are the requests whose task or edit a document     *)
(* holds; `trail' is the history of the one entity that PATCHes contend     *)
(* for, which is what its content digest tells apart.                       *)

Empty  == [changes |-> {}, trail |-> <<>>]
NoFile == [id |-> 0, doc |-> Empty]

Captures == {r \in Requests : req[r].kind = "capture"}

(* "get" and "put" are /v1/data, the sync protocol, and read the file       *)
(* itself; "list" stands for the REST reads, which take no lock; "post" is  *)
(* a REST write without a condition (POST, DELETE, complete, archive),      *)
(* "patch" one with If-Match on an entity that exists, "capture" the        *)
(* webhook and "gc" the collection of orphaned attachments.  All captures   *)
(* are retries of one.                                                      *)
Unlocked == {"list"}
RawRead  == {"get", "put"}

NewRequest(kind, p, k, seen, known) ==
    [kind |-> kind, proc |-> p, key |-> k, stage |-> "handler", pc |-> "start",
     aborted |-> FALSE, base |-> NoFile, result |-> "none", answer |-> "none",
     seen |-> seen, known |-> known]

Unsent == [kind |-> "get", proc |-> NoOne, key |-> NoOne, stage |-> "handler",
           pc |-> "unsent", aborted |-> FALSE, base |-> NoFile, result |-> "none", answer |-> "none",
           seen |-> <<>>, known |-> {}]

Init == /\ file   = [k \in Keys |-> NoFile]
        /\ audio  = {}
        /\ stamps = 0
        /\ lock   = [k \in LockKeys |-> NoOne]
        /\ cache  = [p \in Procs |-> [k \in Keys |-> NoFile]]
        /\ chain  = [p \in Procs |-> [k \in LockKeys |-> <<>>]]
        /\ busy   = [p \in Procs |-> NoOne]
        /\ req    = [r \in Requests |-> Unsent]
        /\ site \in Sites
        /\ faults = 0

-----------------------------------------------------------------------------
(* Requests and the lock's two queues. *)

proc(r)   == req[r].proc
key(r)    == req[r].key
Exists(k) == file[k].id # 0

LockKey(r) == IF req[r].stage = "admission" THEN Admission ELSE key(r)

Turn(r)    == busy[proc(r)] = NoOne      \* the event loop is free
Running(r) == busy[proc(r)] = r          \* its callback has the event loop

(* What clients have been told the namespace holds.                         *)
Acknowledged(k) ==
    {r \in Requests : /\ req[r].answer = "ok"
                      /\ key(r) = k
                      /\ req[r].kind \in {"post", "patch", "put"}}

(* A client sends a request to one of the processes.  A PATCH carries the   *)
(* digest of a version of the entity its client has read.                   *)
Send(r, p, kind, k) ==
    /\ req[r].pc = "unsent"
    /\ \E n \in 0..Len(file[k].doc.trail) :
          /\ kind # "patch" => n = 0
          /\ req' = [req EXCEPT ![r] = NewRequest(kind, p, k,
                        SubSeq(file[k].doc.trail, 1, n), Acknowledged(k))]
    /\ UNCHANGED <<disk, lock, memory, faults>>

(* withWriteLock puts the request behind the others of its process.         *)
Enqueue(r, stage) ==
    /\ req' = [req EXCEPT ![r].stage = stage, ![r].pc = "queued"]
    /\ chain' = [chain EXCEPT ![proc(r)][IF stage = "admission" THEN Admission ELSE key(r)]
                                 = Append(@, r)]

(* withNamespace: a guarded request for a namespace that does not exist     *)
(* waits for admission; a list request reads at once.                       *)
Enter(r) ==
    /\ req[r].pc = "start"
    /\ Turn(r)
    /\ \/ /\ req[r].kind \in Unlocked
          /\ req' = [req EXCEPT ![r].pc = "load"]
          /\ busy' = [busy EXCEPT ![proc(r)] = r]
          /\ UNCHANGED chain
       \/ /\ req[r].kind \notin Unlocked
          /\ AnyToken /\ ~Exists(key(r))
          /\ Enqueue(r, "admission")
          /\ UNCHANGED busy
       \/ /\ req[r].kind \notin Unlocked
          /\ ~AnyToken \/ Exists(key(r))
          /\ req' = [req EXCEPT ![r].pc = "body"]
          /\ UNCHANGED <<chain, busy>>
    /\ UNCHANGED <<disk, lock, cache, faults>>

(* The body has arrived (at once when there is none).                       *)
BodyRead(r) ==
    /\ req[r].pc = "body"
    /\ Turn(r)
    /\ Enqueue(r, "handler")
    /\ UNCHANGED <<disk, lock, cache, busy, faults>>

(* Mutation of Leave: a rejected link is not taken off the chain. *)
LeaveUnlessRejected(r) ==
    IF req[r].result \in {"ok", "admitted"}
    THEN chain' = [chain EXCEPT ![proc(r)][LockKey(r)] = Tail(@)]
    ELSE UNCHANGED chain

(* The link settles, resolved or rejected, and the next one may run.        *)
Leave(r) == chain' = [chain EXCEPT ![proc(r)][LockKey(r)] = Tail(@)]

(* Mutation of Dropped: an aborted request still has its turn. *)
DroppedNever(r) == FALSE

Dropped(r) == req[r].aborted

(* The promise before it has settled: a request that was aborted while it   *)
(* waited is dropped without running.                                       *)
StartRun(r) ==
    /\ req[r].pc = "queued"
    /\ Turn(r)
    /\ Head(chain[proc(r)][LockKey(r)]) = r
    /\ \/ /\ Dropped(r)
          /\ req' = [req EXCEPT ![r].pc = "done"]
          /\ Leave(r)
       \/ /\ ~Dropped(r)
          /\ req' = [req EXCEPT ![r].pc = "polling"]
          /\ UNCHANGED chain
    /\ UNCHANGED <<disk, lock, cache, busy, faults>>

(* Mutation of Free: only the queue of the own process counts. *)
FreeHere(k) == TRUE

Free(k) == lock[k] = NoOne

(* BEGIN IMMEDIATE succeeds and the handler runs.                           *)
Acquire(r) ==
    /\ req[r].pc = "polling"
    /\ Turn(r)
    /\ Free(LockKey(r))
    /\ lock' = [lock EXCEPT ![LockKey(r)] = r]
    /\ busy' = [busy EXCEPT ![proc(r)] = r]
    /\ req' = [req EXCEPT ![r].pc = IF req[r].stage = "admission" THEN "reserve" ELSE "load"]
    /\ UNCHANGED <<disk, cache, chain, faults>>

(* It has been busy for longer than CLOUD_DATA_LOCK_WAIT_TIMEOUT_MS.        *)
LockTimedOut(r) ==
    /\ req[r].pc = "polling"
    /\ Turn(r)
    /\ ~Free(LockKey(r))
    /\ req' = [req EXCEPT ![r].pc = "done", ![r].answer = "error"]
    /\ Leave(r)
    /\ UNCHANGED <<disk, lock, cache, busy, faults>>

(* The request's timer fires.  While it reads its body or polls the lock    *)
(* the abort ends it; while it is queued the client is answered and the     *)
(* link stays in the chain.                                                 *)
Abort(r) ==
    /\ req[r].pc \in {"body", "queued", "polling"}
    /\ ~req[r].aborted
    /\ Turn(r)
    /\ req' = [req EXCEPT ![r].aborted = TRUE,
                          ![r].answer = "timeout",
                          ![r].pc = IF @ = "queued" THEN @ ELSE "done"]
    /\ IF req[r].pc = "polling" THEN Leave(r) ELSE UNCHANGED chain
    /\ UNCHANGED <<disk, lock, cache, busy, faults>>

(* The handler has returned or thrown: the lock is released, the chain      *)
(* moves on, and an admitted request goes on to its body.                   *)
Finish(r) ==
    /\ req[r].pc = "finish"
    /\ Running(r)
    /\ busy' = [busy EXCEPT ![proc(r)] = NoOne]
    /\ IF req[r].kind \in Unlocked
       THEN UNCHANGED <<lock, chain>>
       ELSE lock' = [lock EXCEPT ![LockKey(r)] = NoOne] /\ Leave(r)
    /\ req' = [req EXCEPT
          ![r].stage = "handler",
          ![r].pc = IF req[r].result = "admitted" THEN "body" ELSE "done",
          ![r].answer = IF @ # "none" \/ req[r].result = "admitted" THEN @ ELSE req[r].result]
    /\ UNCHANGED <<disk, cache, faults>>

Conclude(r, result) == req' = [req EXCEPT ![r].pc = "finish", ![r].result = result]

-----------------------------------------------------------------------------
(* Files and the cache. *)

(* Mutation of Published: an identity skips one. *)
PublishedAhead(doc) == [id |-> stamps + 2, doc |-> doc]

(* A renamed file has an identity (inode, times, size) no file had before.  *)
Published(doc) == [id |-> stamps + 1, doc |-> doc]

(* Mutation of Hit: the file's identity is not compared. *)
HitUnchecked(p, k) == Exists(k) /\ cache[p][k].id # 0

Hit(p, k) == Exists(k) /\ cache[p][k].id = file[k].id

(* The identity is taken when the entry is made, not when its bytes were    *)
(* read.                                                                    *)
RememberParsed(p, k, id, doc) ==
    cache' = [cache EXCEPT ![p][k] = IF id = 0 THEN NoFile ELSE [id |-> id, doc |-> doc]]

Forget(p, k) == cache' = [cache EXCEPT ![p][k] = NoFile]

Fault == faults < site.faults /\ faults' = faults + 1

(* Mutation of Remembers: a document that was not written is cached. *)
RemembersFailed(outcome) == outcome \in {"ok", "before"}

Remembers(outcome) == outcome = "ok"

(* writeCloudData: the write succeeds, fails before the rename, or fails    *)
(* after it (the directory's fsync, the check of the storage root).         *)
WriteCloudData(r, doc, outcome) ==
    /\ IF outcome = "before"
       THEN UNCHANGED <<file, stamps>>
       ELSE file' = [file EXCEPT ![key(r)] = Published(doc)] /\ stamps' = stamps + 1
    /\ IF Remembers(outcome)
       THEN RememberParsed(proc(r), key(r), file'[key(r)].id, doc)
       ELSE Forget(proc(r), key(r))
    /\ IF outcome = "ok" THEN UNCHANGED faults ELSE Fault

Outcomes == {"ok", "before", "after"}

-----------------------------------------------------------------------------
(* What runs under a lock. *)

Namespaces == {k \in Keys : Exists(k)}

(* Admission: the cap is checked again under the lock...                    *)
Reserve(r) ==
    /\ req[r].pc = "reserve"
    /\ Running(r)
    /\ \/ /\ Exists(key(r)) \/ (req[r].kind = "gc" /\ Cardinality(Namespaces) < MaxNamespaces)
          /\ Conclude(r, "admitted")
       \/ /\ ~Exists(key(r))
          /\ Cardinality(Namespaces) >= MaxNamespaces
          /\ Conclude(r, "refused")
       \/ /\ ~Exists(key(r))
          /\ Cardinality(Namespaces) < MaxNamespaces
          /\ req[r].kind # "gc"
          /\ req' = [req EXCEPT ![r].pc = "initialize"]
    /\ UNCHANGED <<disk, lock, memory, faults>>

(* ...and an empty document reserves the namespace.  The orphan collection  *)
(* reserves none.                                                           *)
Initialize(r) ==
    /\ req[r].pc = "initialize"
    /\ Running(r)
    /\ \E outcome \in Outcomes :
          /\ WriteCloudData(r, Empty, outcome)
          /\ Conclude(r, IF outcome = "ok" THEN "admitted" ELSE "error")
    /\ UNCHANGED <<audio, lock, chain, busy>>

(* loadAppDataForWrite: a cached document whose file is still the same...   *)
LoadHit(r) ==
    /\ req[r].pc = "load"
    /\ Running(r)
    /\ req[r].kind \notin RawRead
    /\ Hit(proc(r), key(r))
    /\ req' = [req EXCEPT ![r].base = cache[proc(r)][key(r)], ![r].pc = "apply"]
    /\ UNCHANGED <<disk, lock, memory, faults>>

(* ...or the file is read and parsed...                                     *)
LoadRead(r) ==
    /\ req[r].pc = "load"
    /\ Running(r)
    /\ req[r].kind \in RawRead \/ ~Hit(proc(r), key(r))
    /\ req' = [req EXCEPT ![r].base = file[key(r)],
                          ![r].pc = IF req[r].kind \in RawRead THEN "apply" ELSE "remember"]
    /\ UNCHANGED <<disk, lock, memory, faults>>

(* ...and remembered under the identity the file has by now.                *)
Remember(r) ==
    /\ req[r].pc = "remember"
    /\ Running(r)
    /\ RememberParsed(proc(r), key(r), file[key(r)].id, req[r].base.doc)
    /\ req' = [req EXCEPT ![r].pc = "apply"]
    /\ UNCHANGED <<disk, lock, chain, busy, faults>>

(* A file that exists and cannot be read or parsed ends the request.        *)
LoadUnreadable(r) ==
    /\ req[r].pc = "load"
    /\ Running(r)
    /\ Exists(key(r))
    /\ req[r].kind \in RawRead \/ ~Hit(proc(r), key(r))
    /\ Fault
    /\ Conclude(r, "error")
    /\ UNCHANGED <<disk, lock, memory>>

(* A read is answered; GET of a namespace without a document creates it.    *)
AnswerRead(r) ==
    /\ req[r].pc = "apply"
    /\ Running(r)
    /\ req[r].kind \in {"get", "list"}
    /\ IF req[r].kind = "get" /\ req[r].base.id = 0
       THEN req' = [req EXCEPT ![r].pc = "write"]
       ELSE Conclude(r, "ok")
    /\ UNCHANGED <<disk, lock, memory, faults>>

(* Mutation of IfMatchAccepts: the header is not looked at. *)
IfMatchIgnored(r) == TRUE

IfMatchAccepts(r) == req[r].base.doc.trail = req[r].seen

(* A PATCH with If-Match is refused when the entity has another digest.     *)
CheckIfMatch(r) ==
    /\ req[r].pc = "apply"
    /\ Running(r)
    /\ req[r].kind = "patch"
    /\ IF IfMatchAccepts(r)
       THEN req' = [req EXCEPT ![r].pc = "write"]
       ELSE Conclude(r, "refused")
    /\ UNCHANGED <<disk, lock, memory, faults>>

(* POST of a new entity, PUT of a document to merge.                        *)
AcceptWrite(r) ==
    /\ req[r].pc = "apply"
    /\ Running(r)
    /\ req[r].kind \in {"post", "put"}
    /\ req' = [req EXCEPT ![r].pc = "write"]
    /\ UNCHANGED <<disk, lock, memory, faults>>

(* Mutation of Replayed: a retry is taken for a new capture. *)
ReplayedNever(r) == FALSE

Replayed(r) == Captures \cap req[r].base.doc.changes # {}

(* POST /v1/capture: a retry of a capture that landed is answered without   *)
(* a write; otherwise its recording is stored before the document is.       *)
StoreCapture(r) ==
    /\ req[r].pc = "apply"
    /\ Running(r)
    /\ req[r].kind = "capture"
    /\ \/ /\ Replayed(r)
          /\ Conclude(r, "ok")
          /\ UNCHANGED <<audio, faults>>
       \/ /\ ~Replayed(r)
          /\ audio' = audio \cup {r}
          /\ req' = [req EXCEPT ![r].pc = "write"]
          /\ UNCHANGED faults
       \/ /\ ~Replayed(r)
          /\ audio' \in {audio, audio \cup {r}}
          /\ Fault
          /\ Conclude(r, "error")
    /\ UNCHANGED <<file, stamps, lock, memory>>

(* POST /v1/attachments/orphans: stored files that the document does not    *)
(* refer to are removed, the recent ones and the failing ones excepted.     *)
CollectOrphans(r) ==
    /\ req[r].pc = "apply"
    /\ Running(r)
    /\ req[r].kind = "gc"
    /\ \E gone \in SUBSET {a \in audio : key(a) = key(r) /\ a \notin req[r].base.doc.changes} :
          audio' = audio \ gone
    /\ Conclude(r, "ok")
    /\ UNCHANGED <<file, stamps, lock, memory, faults>>

Changed(r) ==
    LET doc == req[r].base.doc
    IN  CASE req[r].kind = "get"   -> Empty
          [] req[r].kind = "patch" -> [changes |-> doc.changes \cup {r}, trail |-> Append(doc.trail, r)]
          [] OTHER                 -> [doc EXCEPT !.changes = @ \cup {r}]

(* Mutation of RemoveOrphanedCaptureAudio: the document is not asked. *)
RemoveCaptureAudio(r) == audio' \in {audio, audio \ {r}}

(* removeOrphanedCaptureAudio: after a failed write the recording goes only *)
(* if the stored document can be read and does not refer to it.             *)
RemoveOrphanedCaptureAudio(r) ==
    audio' \in IF r \in file'[key(r)].doc.changes THEN {audio} ELSE {audio, audio \ {r}}

Write(r) ==
    /\ req[r].pc = "write"
    /\ Running(r)
    /\ \E outcome \in Outcomes :
          /\ WriteCloudData(r, Changed(r), outcome)
          /\ Conclude(r, IF outcome = "ok" THEN "ok" ELSE "error")
          /\ IF req[r].kind = "capture" /\ outcome # "ok"
             THEN RemoveOrphanedCaptureAudio(r)
             ELSE UNCHANGED audio
    /\ UNCHANGED <<lock, chain, busy>>

(* A process dies and is started again; the kernel drops its locks.         *)
Crash(p) ==
    /\ Fault
    /\ lock' = [k \in LockKeys |->
                   IF lock[k] # NoOne /\ proc(lock[k]) = p THEN NoOne ELSE lock[k]]
    /\ cache' = [cache EXCEPT ![p] = [k \in Keys |-> NoFile]]
    /\ chain' = [chain EXCEPT ![p] = [k \in LockKeys |-> <<>>]]
    /\ busy' = [busy EXCEPT ![p] = NoOne]
    /\ req' = [r \in Requests |->
                  IF req[r].pc \notin {"unsent", "done"} /\ proc(r) = p
                  THEN [req[r] EXCEPT !.pc = "done",
                                      !.answer = IF @ = "none" THEN "lost" ELSE @]
                  ELSE req[r]]
    /\ UNCHANGED disk

-----------------------------------------------------------------------------
Callback(r) == Enter(r) \/ BodyRead(r) \/ StartRun(r) \/ Abort(r)

Poll(r) == Acquire(r) \/ LockTimedOut(r)

Section(r) ==
    \/ Reserve(r) \/ Initialize(r)
    \/ LoadHit(r) \/ LoadRead(r) \/ Remember(r) \/ LoadUnreadable(r)
    \/ AnswerRead(r) \/ CheckIfMatch(r) \/ AcceptWrite(r)
    \/ StoreCapture(r) \/ CollectOrphans(r)
    \/ Write(r)
    \/ Finish(r)

Step == \/ \E r \in Requests, p \in site.procs, kind \in site.kinds, k \in site.keys : Send(r, p, kind, k)
        \/ \E r \in Requests : Callback(r) \/ Poll(r) \/ Section(r)
        \/ \E p \in site.procs : Crash(p)

Next == Step /\ UNCHANGED site

Spec == Init /\ [][Next]_vars

-----------------------------------------------------------------------------
(* Properties *)

Docs  == [changes : SUBSET Requests, trail : Seq(Requests)]
Files == [id : Nat, doc : Docs]

Inside == {"reserve", "initialize", "load", "remember", "apply", "write", "finish"}

Tickets ==
    [kind : {"get", "list", "post", "patch", "put", "capture", "gc"},
     proc : Procs \cup {NoOne}, key : Keys \cup {NoOne}, stage : {"handler", "admission"},
     pc : {"unsent", "start", "body", "queued", "polling", "done"} \cup Inside,
     aborted : BOOLEAN, base : Files,
     result : {"none", "ok", "error", "refused", "admitted"},
     answer : {"none", "ok", "error", "refused", "timeout", "lost"},
     seen : Seq(Requests), known : SUBSET Requests]

TypeOK ==
    /\ file \in [Keys -> Files] /\ \A k \in Keys : file[k].id <= stamps
    /\ audio \subseteq Requests
    /\ stamps \in Nat
    /\ lock \in [LockKeys -> Requests \cup {NoOne}]
    /\ cache \in [Procs -> [Keys -> Files]] /\ \A p \in Procs, k \in Keys : cache[p][k].id <= stamps
    /\ chain \in [Procs -> [LockKeys -> Seq(Requests)]]
    /\ busy \in [Procs -> Requests \cup {NoOne}]
    /\ req \in [Requests -> Tickets]
    /\ site \in Sites
    /\ faults \in 0..site.faults

(* A change the server acknowledged stays in the namespace's document,      *)
(* whatever other processes, caches, failing writes and crashes do:         *)
(* handleEntityRoute and PUT /v1/data load and write under the lock, and a  *)
(* cached document is used only while its file is the same.                 *)
AcknowledgedStays == \A k \in Keys : Acknowledged(k) \subseteq file[k].doc.changes

(* A request answered "timed out" or refused never lands, not even later    *)
(* when its link of the chain comes up: createWriteLockRunner drops it.     *)
RefusedNeverLands ==
    \A r \in Requests : req[r].answer \in {"timeout", "refused"}
                            => r \notin file[key(r)].doc.changes

(* PATCHes with If-Match form one chain: each one in the entity's history   *)
(* had read all the ones before it, so none overwrote an edit unseen.       *)
PatchSawAll ==
    \A k \in Keys : LET trail == file[k].doc.trail
                    IN  \A i \in 1..Len(trail) : req[trail[i]].seen = SubSeq(trail, 1, i - 1)

(* What a read returned is in the document, and a change acknowledged       *)
(* before the read was sent is in what it returned: loadAppDataForWrite     *)
(* serves neither a document older than the file nor one never published.   *)
ReadsTrue ==
    \A r \in Requests : (req[r].answer = "ok" /\ req[r].kind \in {"get", "list"}) =>
        /\ req[r].known \subseteq req[r].base.doc.changes
        /\ req[r].base.doc.changes \subseteq file[key(r)].doc.changes

(* However often a capture is sent again, to any process, after errors,     *)
(* time-outs and crashes, one task comes of it, and an acknowledged one is  *)
(* there (handleCaptureRequest compares the capture's id under the lock).   *)
CaptureOnce ==
    \A k \in Keys :
        /\ Cardinality(Captures \cap file[k].doc.changes) <= 1
        /\ (\E r \in Captures : key(r) = k /\ req[r].answer = "ok")
              => Captures \cap file[k].doc.changes # {}

(* A recording the document refers to is on disk: it is stored before the   *)
(* document, a write that failed after publishing does not remove it, and   *)
(* the orphan collection never sees an older document.                      *)
AudioKept == \A k \in Keys : Captures \cap file[k].doc.changes \subseteq audio

(* Tokens nobody configured never hold more namespaces than the cap,        *)
(* however their first requests meet at several processes.                  *)
NamespaceCap == AnyToken => Cardinality(Namespaces) <= MaxNamespaces

(* Whatever times out, is refused or fails, a queue behind the lock moves   *)
(* on: at its head is a request that is still on its way, and every request *)
(* that waits for its turn has a link (createWriteLockRunner's `.then').    *)
NobodyStranded ==
    /\ \A p \in Procs, k \in LockKeys : chain[p][k] # <<>> =>
          LET r == Head(chain[p][k]) IN proc(r) = p /\ LockKey(r) = k /\ req[r].pc \notin {"body", "done"}
    /\ \A r \in Requests : req[r].pc = "queued" =>
          \E i \in DOMAIN chain[proc(r)][LockKey(r)] : chain[proc(r)][LockKey(r)][i] = r

-----------------------------------------------------------------------------
(* Why they hold: the inductive parts. *)

Guarded(r)   == req[r].kind \notin Unlocked
InSection(r) == req[r].pc \in Inside

(* A process runs one callback, a lock has one holder: the request whose     *)
(* section is under way.                                                     *)
Exclusion ==
    /\ \A p \in Procs, r \in Requests : busy[p] = r <=> InSection(r) /\ proc(r) = p
    /\ \A k \in LockKeys, r \in Requests :
          lock[k] = r <=> InSection(r) /\ Guarded(r) /\ LockKey(r) = k

(* Each queue holds, once, every request that waits for its lock or has it;  *)
(* all but the first one wait for their turn.                                *)
Linked(r) == Guarded(r) /\ req[r].pc \in {"queued", "polling"} \cup Inside

IsLink(r, p, k, i) ==
    Linked(r) /\ proc(r) = p /\ LockKey(r) = k /\ (i > 1 => req[r].pc = "queued")

Queues ==
    /\ \A p \in Procs, k \in LockKeys :
          /\ \A i \in 1..Len(chain[p][k]) : IsLink(chain[p][k][i], p, k, i)
          /\ \A i, j \in 1..Len(chain[p][k]) : chain[p][k][i] = chain[p][k][j] => i = j
    /\ \A r \in Requests : Linked(r) =>
          \E i \in 1..Len(chain[proc(r)][LockKey(r)]) : chain[proc(r)][LockKey(r)][i] = r

(* How far a request has come says what it has been told and what it may     *)
(* still do.                                                                 *)
Course(r) ==
    /\ req[r].pc # "unsent" =>
          req[r].kind \in site.kinds /\ proc(r) \in site.procs /\ key(r) \in site.keys
    /\ req[r].aborted => req[r].pc \in {"queued", "done"}
    /\ req[r].answer # "none" => req[r].pc = "done" \/ (req[r].pc = "queued" /\ req[r].aborted)
    /\ req[r].stage = "admission" =>
          AnyToken /\ Guarded(r) /\ req[r].pc \notin {"unsent", "start", "body", "load", "remember", "apply", "write"}
    /\ req[r].pc \in {"reserve", "initialize"} => req[r].stage = "admission"
    /\ req[r].pc = "finish" =>
          req[r].result \in IF req[r].stage = "admission" THEN {"admitted", "refused", "error"}
                            ELSE {"ok", "refused", "error"}
    /\ ~Guarded(r) => req[r].pc \notin {"body", "queued", "polling", "write"}
    /\ req[r].pc = "write" => req[r].kind # "gc"

(* A namespace is created under the admission lock while its cap allows it,  *)
(* and a request that may write to one has found it there.                   *)
Settled(r) ==
    /\ Guarded(r) /\ req[r].kind # "gc"
    /\ IF req[r].stage = "handler" THEN req[r].pc \notin {"unsent", "start", "done"}
       ELSE req[r].pc = "finish" /\ req[r].result = "admitted"

Admitted ==
    AnyToken =>
        /\ IsFiniteSet(Namespaces) /\ Cardinality(Namespaces) <= MaxNamespaces
        /\ \A r \in Requests :
              /\ req[r].pc = "initialize" =>
                    req[r].kind # "gc" /\ ~Exists(key(r)) /\ Cardinality(Namespaces) < MaxNamespaces
              /\ Settled(r) => Exists(key(r))

(* A cached document with the file's identity is the file's document.        *)
CachesTrue ==
    /\ \A k \in Keys : file[k].id = 0 => file[k] = NoFile
    /\ \A p \in Procs, k \in Keys :
          /\ cache[p][k].id = 0 => cache[p][k] = NoFile
          /\ cache[p][k].id = file[k].id => cache[p][k] = file[k]

(* What a request has loaded is the stored document until it has written.    *)
BaseCurrent(r) ==
    /\ req[r].base.id = 0 => req[r].base = NoFile
    /\ req[r].pc \in {"remember", "apply", "write"} /\ (Guarded(r) \/ req[r].pc = "remember") =>
          req[r].base.doc = file[key(r)].doc
    /\ req[r].pc = "write" =>
          /\ req[r].kind = "get" => req[r].base = NoFile
          /\ req[r].kind = "patch" => req[r].base.doc.trail = req[r].seen
          /\ req[r].kind = "capture" => r \in audio /\ Captures \cap req[r].base.doc.changes = {}

(* A change lands when its request writes, and an answer to it says so.      *)
Landing ==
    /\ \A k \in Keys : \A r \in file[k].doc.changes :
          /\ key(r) = k /\ req[r].pc \in {"finish", "done"}
          /\ req[r].pc = "finish" => req[r].stage = "handler" /\ req[r].result \in {"ok", "error"}
    /\ \A k \in Keys : \A i \in DOMAIN file[k].doc.trail : file[k].doc.trail[i] \in file[k].doc.changes
    /\ \A r \in Requests :
          /\ req[r].pc = "finish" /\ req[r].result = "ok" =>
                /\ req[r].kind \in {"post", "patch", "put"} => r \in file[key(r)].doc.changes
                /\ req[r].kind = "capture" => Captures \cap file[key(r)].doc.changes # {}
          /\ req[r].answer = "ok" => req[r].pc = "done"

(* What a reader knew when it asked is in what it has read.                  *)
Reading ==
    \A r \in Requests :
        /\ req[r].pc # "unsent" => req[r].known \subseteq file[key(r)].doc.changes
        /\ /\ req[r].kind \in {"get", "list"}
           /\ req[r].pc \in {"remember", "apply", "write"} \/ (req[r].pc = "finish" /\ req[r].result = "ok")
           => /\ req[r].known \subseteq req[r].base.doc.changes
              /\ req[r].base.doc.changes \subseteq file[key(r)].doc.changes

(* What the server owes its clients, over both processes and their crashes:  *)
(* acknowledged changes stay, refused ones never land, readers see what is   *)
(* stored, and no request blocks those behind it.                            *)
ServerInv ==
    /\ TypeOK
    /\ Exclusion /\ Queues /\ \A r \in Requests : Course(r)
    /\ Admitted /\ CachesTrue /\ \A r \in Requests : BaseCurrent(r)
    /\ Landing /\ Reading
    /\ AcknowledgedStays
    /\ RefusedNeverLands
    /\ PatchSawAll
    /\ ReadsTrue
    /\ NamespaceCap
    /\ NobodyStranded

(* A capture sent again makes one task, whose recording is kept.             *)
CapturesOnce == CaptureOnce /\ AudioKept
=============================================================================
