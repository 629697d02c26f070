-------------------------- MODULE CloudServerProofs --------------------------
(***************************************************************************)
(* The cloud server with any number of processes, namespaces and requests, *)
(* any cap of namespaces and any number of crashes and failing writes.     *)
(***************************************************************************)
EXTENDS CloudServer, FiniteSetTheorems, SequenceTheorems, TLAPS

Courses == \A r \in Requests : Course(r)

(* What does not depend on documents. *)
Control == TypeOK /\ Exclusion /\ Queues /\ Courses

(* Parts of a step: it moves one request only, and leaves it what it is. *)
Only(r) == \A o \in Requests \ {r} : req'[o] = req[o]
Same(r) ==
    /\ req'[r].kind = req[r].kind /\ req'[r].proc = req[r].proc /\ req'[r].key = req[r].key
    /\ req'[r].seen = req[r].seen /\ req'[r].known = req[r].known

(* A request that was sent names a process, a namespace and a lock. *)
LEMMA Places ==
    ASSUME Control, NEW r \in Requests, req[r].pc # "unsent"
    PROVE  /\ proc(r) \in Procs /\ key(r) \in Keys /\ LockKey(r) \in LockKeys
           /\ proc(r) \in site.procs /\ key(r) \in site.keys
           /\ req[r].kind \in site.kinds
<1>1. /\ proc(r) \in site.procs /\ key(r) \in site.keys /\ req[r].kind \in site.kinds
  BY DEF Control, Courses, Course
<1>2. IsSite(site)
  BY CloudAssumption DEF Control, TypeOK
<1> QED BY <1>1, <1>2 DEF IsSite, LockKey, LockKeys

(* Documents and files are typed. *)
LEMMA FilesTyped ==
    /\ Empty \in Docs /\ NoFile \in Files
    /\ \A id \in Nat, doc \in Docs : [id |-> id, doc |-> doc] \in Files
<1>1. <<>> \in Seq(Requests) /\ {} \in SUBSET Requests
  OBVIOUS
<1> QED BY <1>1 DEF Empty, NoFile, Docs, Files

(* A step inside a section. *)
Inner(r) ==
    \/ Reserve(r) \/ Initialize(r)
    \/ LoadHit(r) \/ LoadRead(r) \/ Remember(r) \/ LoadUnreadable(r)
    \/ AnswerRead(r) \/ CheckIfMatch(r) \/ AcceptWrite(r)
    \/ StoreCapture(r) \/ CollectOrphans(r)
    \/ Write(r)

(* Replacing one request by a typed one keeps the others. *)
LEMMA Ticket ==
    ASSUME TypeOK, NEW r \in Requests
    PROVE  /\ req[r] \in Tickets
           /\ \A t \in Tickets : req' = [req EXCEPT ![r] = t] =>
                  req' \in [Requests -> Tickets] /\ req'[r] = t /\ Only(r)
  BY DEF TypeOK, Only

(* A handler that returns or throws changes its request only. *)
LEMMA Concluded ==
    ASSUME Control, NEW r \in Requests, NEW result \in {"ok", "error", "refused", "admitted"},
           Conclude(r, result)
    PROVE  /\ req' \in [Requests -> Tickets] /\ Only(r)
           /\ req'[r] = [req[r] EXCEPT !.pc = "finish", !.result = result]
<1> DEFINE t == [req[r] EXCEPT !.pc = "finish", !.result = result]
<1>0. req[r] \in Tickets
  BY DEF Control, TypeOK
<1>1. t \in Tickets
  BY <1>0 DEF Tickets, Inside
<1>2. req' = [req EXCEPT ![r] = t]
  BY DEF Conclude, Control, TypeOK
<1> QED BY <1>1, <1>2, Ticket DEF Control

(* So does one that goes on to its next step. *)
LEMMA Moved ==
    ASSUME Control, NEW r \in Requests,
           NEW pc \in {"unsent", "start", "body", "queued", "polling", "done"} \cup Inside,
           req' = [req EXCEPT ![r].pc = pc]
    PROVE  /\ req' \in [Requests -> Tickets] /\ Only(r)
           /\ req'[r] = [req[r] EXCEPT !.pc = pc]
<1> DEFINE t == [req[r] EXCEPT !.pc = pc]
<1>0. req[r] \in Tickets
  BY DEF Control, TypeOK
<1>1. t \in Tickets
  BY <1>0 DEF Tickets
<1>2. req' = [req EXCEPT ![r] = t]
  BY DEF Control, TypeOK
<1> QED BY <1>1, <1>2, Ticket DEF Control

(* Faults stay within their bound. *)
LEMMA FaultTyped == Control /\ Fault => faults' \in 0..site.faults
<1> SUFFICES ASSUME Control, Fault PROVE faults' \in 0..site.faults
  OBVIOUS
<1>1. site.faults \in Nat /\ faults \in 0..site.faults
  BY CloudAssumption DEF Control, TypeOK, IsSite
<1> QED BY <1>1 DEF Fault

(* writeCloudData publishes the document or leaves the file, and caches what *)
(* it has published.                                                         *)
LEMMA Written ==
    ASSUME Control, NEW r \in Requests, req[r].pc # "unsent", NEW doc \in Docs,
           NEW outcome \in Outcomes, WriteCloudData(r, doc, outcome), site' = site
    PROVE  /\ file' \in [Keys -> Files] /\ stamps' \in Nat /\ stamps' >= stamps
           /\ \A k \in Keys : file'[k].id <= stamps'
           /\ cache' \in [Procs -> [Keys -> Files]]
           /\ \A p \in Procs, k \in Keys : cache'[p][k].id <= stamps'
           /\ faults' \in 0..site.faults
           /\ \A k \in Keys \ {key(r)} : file'[k] = file[k]
           /\ \/ file' = file /\ stamps' = stamps
              \/ file'[key(r)] = [id |-> stamps + 1, doc |-> doc]
           /\ outcome = "ok" => file'[key(r)] = [id |-> stamps + 1, doc |-> doc]
           /\ outcome = "before" => file' = file
           /\ \A p \in Procs, k \in Keys :
                 \/ cache'[p][k] \in {cache[p][k], NoFile}
                 \/ p = proc(r) /\ k = key(r) /\ cache'[p][k] = file'[k]
<1> DEFINE new == [id |-> stamps + 1, doc |-> doc]
<1>1. /\ file \in [Keys -> Files] /\ stamps \in Nat /\ cache \in [Procs -> [Keys -> Files]]
      /\ \A k \in Keys : file[k].id <= stamps
      /\ \A p \in Procs, k \in Keys : cache[p][k].id <= stamps
      /\ faults \in 0..site.faults
  BY DEF Control, TypeOK
<1>2. key(r) \in Keys /\ proc(r) \in Procs
  BY Places
<1>3. new \in Files /\ new.id = stamps + 1 /\ NoFile \in Files /\ NoFile.id = 0
  <2>1. stamps + 1 \in Nat
    BY <1>1
  <2>2. new \in Files /\ NoFile \in Files
    BY <2>1, FilesTyped
  <2> QED BY <2>2 DEF NoFile
<1>4. \/ outcome = "before" /\ file' = file /\ stamps' = stamps
      \/ outcome # "before" /\ file' = [file EXCEPT ![key(r)] = new] /\ stamps' = stamps + 1
  BY DEF WriteCloudData, Published
<1>5. /\ file' \in [Keys -> Files] /\ stamps' \in Nat /\ stamps' >= stamps
      /\ \A k \in Keys \ {key(r)} : file'[k] = file[k]
      /\ \A k \in Keys : file'[k] \in {file[k], new}
      /\ outcome # "before" => file'[key(r)] = new
  BY <1>1, <1>2, <1>3, <1>4
<1>6. \A k \in Keys : file'[k].id <= stamps'
  <2> SUFFICES ASSUME NEW k \in Keys PROVE file'[k].id <= stamps'
    OBVIOUS
  <2>1. file[k].id \in Nat /\ file[k].id <= stamps
    BY <1>1 DEF Files
  <2>2. CASE file'[k] = file[k]
    BY <1>1, <1>5, <2>1, <2>2
  <2>3. CASE file'[k] # file[k]
    <3>1. file'[k] = new
      BY <1>5, <2>3
    <3>2. file' # file
      BY <2>3
    <3>3. stamps' = stamps + 1
      BY <1>4, <3>2
    <3> QED BY <1>3, <1>1, <3>1, <3>3
  <2> QED BY <2>2, <2>3
<1>7. PICK c \in {file'[key(r)], NoFile} : cache' = [cache EXCEPT ![proc(r)][key(r)] = c]
  <2>1. CASE outcome = "ok"
    <3>1. file'[key(r)] = new /\ new.id # 0
      BY <1>1, <1>5, <1>3, <2>1
    <3> QED BY <2>1, <3>1 DEF WriteCloudData, Remembers, RememberParsed
  <2>2. CASE outcome # "ok"
    BY <2>2 DEF WriteCloudData, Remembers, Forget
  <2> QED BY <2>1, <2>2
<1>8. c \in Files /\ c.id <= stamps'
  BY <1>2, <1>3, <1>5, <1>6, <1>7
<1>9. /\ cache' \in [Procs -> [Keys -> Files]]
      /\ \A p \in Procs, k \in Keys :
            cache'[p][k] = IF p = proc(r) /\ k = key(r) THEN c ELSE cache[p][k]
  BY <1>1, <1>2, <1>7, <1>8
<1>10. \A p \in Procs, k \in Keys : cache'[p][k].id <= stamps'
  <2> SUFFICES ASSUME NEW p \in Procs, NEW k \in Keys PROVE cache'[p][k].id <= stamps'
    OBVIOUS
  <2>1. cache[p][k].id \in Nat /\ cache[p][k].id <= stamps
    BY <1>1 DEF Files
  <2> QED BY <1>1, <1>5, <1>8, <1>9, <2>1
<1>11. faults' \in 0..site.faults
  <2>1. CASE outcome = "ok"
    BY <1>1, <2>1 DEF WriteCloudData
  <2>2. CASE outcome # "ok"
    BY <2>2, FaultTyped DEF WriteCloudData
  <2> QED BY <2>1, <2>2
<1> QED
  BY <1>4, <1>5, <1>6, <1>7, <1>9, <1>10, <1>11

(* Where a step inside a section takes its request. *)
Goes(r, pcs, results) ==
    /\ req' \in [Requests -> Tickets] /\ Only(r) /\ Same(r)
    /\ req'[r].stage = req[r].stage /\ req'[r].aborted = req[r].aborted
    /\ req'[r].answer = req[r].answer
    /\ \/ req'[r].pc \in pcs /\ req'[r].result = req[r].result
       \/ req'[r].pc = "finish" /\ req'[r].result \in results /\ req'[r].base = req[r].base

(* A handler that concludes is about to finish. *)
LEMMA ConcludedGoes ==
    ASSUME Control, NEW r \in Requests, NEW result \in {"ok", "error", "refused", "admitted"},
           Conclude(r, result)
    PROVE  Goes(r, {}, {result})
<1>1. req[r] \in Tickets
  BY DEF Control, TypeOK
<1>2. /\ req' \in [Requests -> Tickets] /\ Only(r)
      /\ req'[r] = [req[r] EXCEPT !.pc = "finish", !.result = result]
  BY Concluded
<1>3. /\ req'[r].pc = "finish" /\ req'[r].result = result /\ req'[r].base = req[r].base
      /\ Same(r) /\ req'[r].stage = req[r].stage /\ req'[r].aborted = req[r].aborted
      /\ req'[r].answer = req[r].answer
  BY <1>1, <1>2 DEF Same, Tickets
<1> QED BY <1>2, <1>3 DEF Goes

(* A step that only goes on keeps what the request has loaded. *)
LEMMA MovedGoes ==
    ASSUME Control, NEW r \in Requests, NEW pc \in Inside, req' = [req EXCEPT ![r].pc = pc]
    PROVE  Goes(r, {pc}, {}) /\ req'[r].base = req[r].base
<1>1. req[r] \in Tickets
  BY DEF Control, TypeOK
<1> QED BY <1>1, Moved DEF Goes, Same, Tickets

(* A load replaces it. *)
LEMMA LoadedGoes ==
    ASSUME Control, NEW r \in Requests, NEW pc \in Inside, NEW base \in Files,
           req' = [req EXCEPT ![r].base = base, ![r].pc = pc]
    PROVE  Goes(r, {pc}, {}) /\ req'[r].base = base
<1> DEFINE t == [req[r] EXCEPT !.base = base, !.pc = pc]
<1>1. req[r] \in Tickets
  BY DEF Control, TypeOK
<1>2. t \in Tickets
  BY <1>1 DEF Tickets
<1>3. req' = [req EXCEPT ![r] = t]
  BY DEF Control, TypeOK
<1>4. req' \in [Requests -> Tickets] /\ req'[r] = t /\ Only(r)
  BY <1>2, <1>3, Ticket DEF Control
<1> QED BY <1>1, <1>4 DEF Goes, Same, Tickets

(* Where the check of the cap leads. *)
LEMMA ReserveGoes ==
    ASSUME Control, NEW r \in Requests, Reserve(r)
    PROVE  Goes(r, {"initialize"}, {"admitted", "refused"})
<1>1. CASE Conclude(r, "admitted")
  BY <1>1, ConcludedGoes DEF Goes
<1>2. CASE Conclude(r, "refused")
  BY <1>2, ConcludedGoes DEF Goes
<1>3. CASE req' = [req EXCEPT ![r].pc = "initialize"]
  BY <1>3, MovedGoes DEF Goes, Inside
<1> QED BY <1>1, <1>2, <1>3 DEF Reserve

(* Where loading the document leads. *)
LEMMA LoadGoes ==
    ASSUME Control, NEW r \in Requests, req[r].pc # "unsent",
           LoadHit(r) \/ LoadRead(r) \/ LoadUnreadable(r)
    PROVE  Goes(r, {"remember", "apply"}, {"error"})
<1>1. key(r) \in Keys /\ proc(r) \in Procs
  BY Places
<1>2. cache[proc(r)][key(r)] \in Files /\ file[key(r)] \in Files
  BY <1>1 DEF Control, TypeOK
<1>3. CASE LoadHit(r)
  BY <1>2, <1>3, LoadedGoes DEF LoadHit, Goes, Inside
<1>4. CASE LoadRead(r)
  BY <1>2, <1>4, LoadedGoes DEF LoadRead, Goes, Inside
<1>5. CASE LoadUnreadable(r)
  BY <1>5, ConcludedGoes DEF LoadUnreadable, Goes
<1> QED BY <1>3, <1>4, <1>5

(* Where the handler's decision leads. *)
LEMMA ApplyGoes ==
    ASSUME Control, NEW r \in Requests,
           AnswerRead(r) \/ CheckIfMatch(r) \/ AcceptWrite(r) \/ StoreCapture(r) \/ CollectOrphans(r)
    PROVE  Goes(r, {"write"}, {"ok", "refused", "error"})
<1>1. CASE req' = [req EXCEPT ![r].pc = "write"]
  BY <1>1, MovedGoes DEF Goes, Inside
<1>2. ASSUME NEW result \in {"ok", "refused", "error"}, Conclude(r, result)
      PROVE  Goes(r, {"write"}, {"ok", "refused", "error"})
  BY <1>2, ConcludedGoes DEF Goes
<1>3. req' = [req EXCEPT ![r].pc = "write"] \/ \E result \in {"ok", "refused", "error"} : Conclude(r, result)
  BY DEF AnswerRead, CheckIfMatch, AcceptWrite, StoreCapture, CollectOrphans
<1> QED BY <1>1, <1>2, <1>3

(* Where caching and publishing lead. *)
LEMMA WriteGoes ==
    ASSUME Control, NEW r \in Requests
    PROVE  /\ Remember(r) => Goes(r, {"apply"}, {}) /\ req'[r].base = req[r].base
           /\ Initialize(r) => Goes(r, {}, {"admitted", "error"})
           /\ Write(r) => Goes(r, {}, {"ok", "error"})
<1>1. ASSUME Remember(r) PROVE Goes(r, {"apply"}, {}) /\ req'[r].base = req[r].base
  BY <1>1, MovedGoes DEF Remember, Inside
<1>2. ASSUME NEW result \in {"ok", "admitted", "error"}, Conclude(r, result)
      PROVE  Goes(r, {}, {result})
  BY <1>2, ConcludedGoes
<1>3. ASSUME Initialize(r) PROVE Goes(r, {}, {"admitted", "error"})
  <2>1. Conclude(r, "admitted") \/ Conclude(r, "error")
    BY <1>3 DEF Initialize
  <2> QED BY <1>2, <2>1 DEF Goes
<1>4. ASSUME Write(r) PROVE Goes(r, {}, {"ok", "error"})
  <2>1. Conclude(r, "ok") \/ Conclude(r, "error")
    BY <1>4 DEF Write
  <2> QED BY <1>2, <2>1 DEF Goes
<1> QED BY <1>1, <1>3, <1>4

(* A step to an allowed place keeps the request on its course. *)
LEMMA StaysOnCourse ==
    ASSUME Control, NEW r \in Requests, InSection(r), site' = site,
           NEW pcs \in SUBSET (Inside \ {"load", "reserve", "finish"}),
           NEW results \in SUBSET {"ok", "error", "refused", "admitted"}, Goes(r, pcs, results),
           req[r].stage = "admission" => pcs \subseteq {"initialize"} /\ "ok" \notin results,
           req[r].stage = "handler" => "initialize" \notin pcs /\ "admitted" \notin results,
           req'[r].pc = "write" => Guarded(r) /\ req[r].kind # "gc"
    PROVE  /\ req' \in [Requests -> Tickets] /\ Only(r) /\ Same(r)
           /\ req'[r].stage = req[r].stage /\ req'[r].answer = req[r].answer
           /\ req'[r].pc \in Inside
           /\ Course(r)'
<1>1. Course(r) /\ req[r] \in Tickets
  BY DEF Control, Courses, TypeOK
<1>2. /\ req' \in [Requests -> Tickets] /\ Only(r) /\ Same(r)
      /\ req'[r].stage = req[r].stage /\ req'[r].answer = req[r].answer
      /\ req'[r].aborted = req[r].aborted
      /\ req'[r].pc \in pcs \/ (req'[r].pc = "finish" /\ req'[r].result \in results)
  BY DEF Goes
<1>3. req'[r].pc \in Inside \ {"load", "reserve"}
  BY <1>2 DEF Inside
<1>4. ~req[r].aborted /\ req[r].answer = "none" /\ req[r].pc # "unsent"
  BY <1>1 DEF Course, InSection, Inside
<1>5. req[r].stage \in {"handler", "admission"}
  BY <1>1 DEF Tickets
<1>6. CASE req[r].stage = "admission"
  <2>1. req'[r].pc = "initialize" \/ (req'[r].pc = "finish" /\ req'[r].result \in {"admitted", "refused", "error"})
    BY <1>2, <1>6
  <2> QED BY <1>1, <1>2, <1>4, <1>6, <2>1 DEF Course, Same, Guarded, AnyToken, proc, key, Inside
<1>7. CASE req[r].stage = "handler"
  <2>1. \/ req'[r].pc \in {"remember", "apply", "write"}
        \/ req'[r].pc = "finish" /\ req'[r].result \in {"ok", "refused", "error"}
    BY <1>2, <1>7 DEF Inside
  <2> QED BY <1>1, <1>2, <1>4, <1>7, <2>1 DEF Course, Same, Guarded, AnyToken, proc, key, Inside
<1> QED BY <1>2, <1>3, <1>5, <1>6, <1>7

(* A step inside a section stays inside it. *)
LEMMA InnerStays ==
    ASSUME Control, NEW r \in Requests, Inner(r), site' = site
    PROVE  /\ InSection(r) /\ Running(r) /\ req[r].pc # "finish"
           /\ req' \in [Requests -> Tickets] /\ Only(r) /\ Same(r)
           /\ req'[r].stage = req[r].stage /\ req'[r].answer = req[r].answer
           /\ req'[r].pc \in Inside
           /\ Course(r)'
           /\ UNCHANGED <<lock, chain, busy>>
<1>1. Course(r)
  BY DEF Control, Courses
<1>2. req[r].pc # "unsent" /\ InSection(r) /\ Running(r) /\ req[r].pc # "finish"
  BY DEF Inner, Reserve, Initialize, LoadHit, LoadRead, Remember, LoadUnreadable, AnswerRead,
         CheckIfMatch, AcceptWrite, StoreCapture, CollectOrphans, Write, InSection, Inside
<1>3. UNCHANGED <<lock, chain, busy>>
  BY DEF Inner, Reserve, Initialize, LoadHit, LoadRead, Remember, LoadUnreadable, AnswerRead,
         CheckIfMatch, AcceptWrite, StoreCapture, CollectOrphans, Write, memory
<1>4. req[r].stage \in {"handler", "admission"}
  BY DEF Control, TypeOK, Tickets
<1>5. CASE Reserve(r)
  <2>1. req[r].stage = "admission"
    BY <1>1, <1>5 DEF Reserve, Course
  <2>2. Goes(r, {"initialize"}, {"admitted", "refused"})
    BY <1>5, ReserveGoes
  <2>3. req'[r].pc # "write"
    BY <2>2 DEF Goes
  <2> QED BY <1>2, <1>3, <2>1, <2>2, <2>3, StaysOnCourse DEF Inside
<1>6. CASE Initialize(r)
  <2>1. req[r].stage = "admission"
    BY <1>1, <1>6 DEF Initialize, Course
  <2>2. Goes(r, {}, {"admitted", "error"})
    BY <1>6, WriteGoes
  <2>3. req'[r].pc # "write"
    BY <2>2 DEF Goes
  <2> QED BY <1>2, <1>3, <2>1, <2>2, <2>3, StaysOnCourse DEF Inside
<1>7. CASE LoadHit(r) \/ LoadRead(r) \/ LoadUnreadable(r)
  <2>1. req[r].stage = "handler"
    BY <1>1, <1>4, <1>7 DEF LoadHit, LoadRead, LoadUnreadable, Course
  <2>2. Goes(r, {"remember", "apply"}, {"error"})
    BY <1>2, <1>7, LoadGoes
  <2>3. req'[r].pc # "write"
    BY <2>2 DEF Goes
  <2> QED BY <1>2, <1>3, <2>1, <2>2, <2>3, StaysOnCourse DEF Inside
<1>8. CASE Remember(r)
  <2>1. req[r].stage = "handler"
    BY <1>1, <1>4, <1>8 DEF Remember, Course
  <2>2. Goes(r, {"apply"}, {})
    BY <1>8, WriteGoes
  <2>3. req'[r].pc # "write"
    BY <2>2 DEF Goes
  <2> QED BY <1>2, <1>3, <2>1, <2>2, <2>3, StaysOnCourse DEF Inside
<1>9. CASE AnswerRead(r) \/ CheckIfMatch(r) \/ AcceptWrite(r) \/ StoreCapture(r) \/ CollectOrphans(r)
  <2>1. req[r].stage = "handler"
    BY <1>1, <1>4, <1>9
       DEF AnswerRead, CheckIfMatch, AcceptWrite, StoreCapture, CollectOrphans, Course
  <2>2. Goes(r, {"write"}, {"ok", "refused", "error"})
    BY <1>9, ApplyGoes
  <2>3. req'[r].pc = "write" => Guarded(r) /\ req[r].kind # "gc"
    <3>1. CASE Guarded(r) /\ req[r].kind # "gc"
      BY <3>1
    <3>2. CASE ~(Guarded(r) /\ req[r].kind # "gc")
      <4>1. Conclude(r, "ok")
        BY <1>9, <3>2 DEF AnswerRead, CheckIfMatch, AcceptWrite, StoreCapture, CollectOrphans,
                          Guarded, Unlocked
      <4>2. Goes(r, {}, {"ok"})
        BY <4>1, ConcludedGoes
      <4> QED BY <4>2 DEF Goes
    <3> QED BY <3>1, <3>2
  <2> QED BY <1>2, <1>3, <2>1, <2>2, <2>3, StaysOnCourse DEF Inside
<1>10. CASE Write(r)
  <2>1. req[r].stage = "handler"
    BY <1>1, <1>4, <1>10 DEF Write, Course
  <2>2. Goes(r, {}, {"ok", "error"})
    BY <1>10, WriteGoes
  <2>3. req'[r].pc # "write"
    BY <2>2 DEF Goes
  <2> QED BY <1>2, <1>3, <2>1, <2>2, <2>3, StaysOnCourse DEF Inside
<1> QED BY <1>5, <1>6, <1>7, <1>8, <1>9, <1>10 DEF Inner

(* The document a request writes is typed. *)
LEMMA ChangedTyped ==
    ASSUME Control, NEW r \in Requests
    PROVE  Changed(r) \in Docs
<1>1. req[r].base.doc \in Docs
  BY DEF Control, TypeOK, Tickets, Files
<1>2. req[r].base.doc.changes \in SUBSET Requests /\ req[r].base.doc.trail \in Seq(Requests)
  BY <1>1 DEF Docs
<1>3. Append(req[r].base.doc.trail, r) \in Seq(Requests)
  BY <1>2
<1>4. CASE req[r].kind = "get"
  BY <1>4, FilesTyped DEF Changed
<1>5. CASE req[r].kind = "patch"
  BY <1>2, <1>3, <1>5 DEF Changed, Docs
<1>6. CASE req[r].kind \notin {"get", "patch"}
  <2>1. Changed(r) = [req[r].base.doc EXCEPT !.changes = @ \cup {r}]
    BY <1>6 DEF Changed
  <2> QED BY <1>1, <1>2, <2>1 DEF Docs
<1> QED BY <1>4, <1>5, <1>6

(* A step inside a section keeps the types. *)
LEMMA InnerTyped ==
    ASSUME Control, NEW r \in Requests, Inner(r), site' = site
    PROVE  TypeOK'
<1>1. /\ InSection(r) /\ req[r].pc # "unsent"
      /\ req' \in [Requests -> Tickets] /\ UNCHANGED <<lock, chain, busy>>
  BY InnerStays DEF InSection, Inside
<1>2. /\ file \in [Keys -> Files] /\ stamps \in Nat /\ cache \in [Procs -> [Keys -> Files]]
      /\ \A k \in Keys : file[k].id <= stamps
      /\ \A p \in Procs, k \in Keys : cache[p][k].id <= stamps
      /\ faults \in 0..site.faults /\ audio \subseteq Requests
  BY DEF Control, TypeOK
<1>3. /\ file' \in [Keys -> Files] /\ stamps' \in Nat /\ cache' \in [Procs -> [Keys -> Files]]
      /\ \A k \in Keys : file'[k].id <= stamps'
      /\ \A p \in Procs, k \in Keys : cache'[p][k].id <= stamps'
      /\ faults' \in 0..site.faults
  <2>1. CASE Initialize(r)
    <3>1. PICK outcome \in Outcomes : WriteCloudData(r, Empty, outcome)
      BY <2>1 DEF Initialize
    <3> QED BY <1>1, <3>1, Written, FilesTyped
  <2>2. CASE Write(r)
    <3>1. PICK outcome \in Outcomes : WriteCloudData(r, Changed(r), outcome)
      BY <2>2 DEF Write
    <3> QED BY <1>1, <3>1, Written, ChangedTyped
  <2>3. CASE Remember(r)
    <3>1. key(r) \in Keys /\ proc(r) \in Procs
      BY <1>1, Places
    <3>2. UNCHANGED <<file, stamps, faults>>
      BY <2>3 DEF Remember, disk
    <3>3. file[key(r)] \in Files /\ req[r].base \in Files
      BY <1>2, <3>1 DEF Control, TypeOK, Tickets
    <3>4. PICK c \in Files : cache' = [cache EXCEPT ![proc(r)][key(r)] = c] /\ c.id <= stamps
      <4>1. NoFile \in Files /\ NoFile.id = 0
        BY FilesTyped DEF NoFile
      <4>2. CASE file[key(r)].id = 0
        <5>1. cache' = [cache EXCEPT ![proc(r)][key(r)] = NoFile]
          BY <2>3, <4>2 DEF Remember, RememberParsed
        <5>2. NoFile.id <= stamps
          BY <1>2, <4>1
        <5> QED BY <4>1, <5>1, <5>2
      <4>3. CASE file[key(r)].id # 0
        <5> DEFINE c == [id |-> file[key(r)].id, doc |-> req[r].base.doc]
        <5>1. c \in Files
          BY <3>3, FilesTyped DEF Files
        <5>2. c.id <= stamps
          BY <1>2, <3>1
        <5> QED BY <2>3, <4>3, <5>1, <5>2 DEF Remember, RememberParsed
      <4> QED BY <4>2, <4>3
    <3>5. /\ cache' \in [Procs -> [Keys -> Files]]
          /\ \A p \in Procs, k \in Keys :
                cache'[p][k] = IF p = proc(r) /\ k = key(r) THEN c ELSE cache[p][k]
      BY <1>2, <3>1, <3>4
    <3> QED BY <1>2, <3>2, <3>4, <3>5
  <2>4. CASE ~Initialize(r) /\ ~Write(r) /\ ~Remember(r)
    <3>1. UNCHANGED <<file, stamps, cache>>
      BY <2>4 DEF Inner, Reserve, LoadHit, LoadRead, LoadUnreadable, AnswerRead, CheckIfMatch,
                  AcceptWrite, StoreCapture, CollectOrphans, disk, memory
    <3>2. faults' = faults \/ Fault
      BY <2>4 DEF Inner, Reserve, LoadHit, LoadRead, LoadUnreadable, AnswerRead, CheckIfMatch,
                  AcceptWrite, StoreCapture, CollectOrphans
    <3>3. faults' \in 0..site.faults
      BY <1>2, <3>2, FaultTyped
    <3> QED BY <1>2, <3>1, <3>3
  <2> QED BY <2>1, <2>2, <2>3, <2>4
<1>4. audio' \subseteq Requests
  BY <1>2 DEF Inner, Reserve, Initialize, LoadHit, LoadRead, Remember, LoadUnreadable, AnswerRead,
              CheckIfMatch, AcceptWrite, StoreCapture, CollectOrphans, Write,
              RemoveOrphanedCaptureAudio, disk
<1> QED BY <1>1, <1>3, <1>4 DEF Control, TypeOK

(* The request keeps its place in the queue of its lock. *)
LEMMA InnerKeeps ==
    ASSUME Control, NEW r \in Requests, Inner(r), site' = site
    PROVE  Control'
<1>1. /\ InSection(r) /\ req' \in [Requests -> Tickets] /\ Only(r) /\ Same(r)
      /\ req'[r].stage = req[r].stage /\ req'[r].pc \in Inside /\ Course(r)'
      /\ UNCHANGED <<lock, chain, busy>>
  BY InnerStays
<1>2. \A o \in Requests : /\ proc(o)' = proc(o) /\ key(o)' = key(o) /\ LockKey(o)' = LockKey(o)
                          /\ Guarded(o)' <=> Guarded(o)
                          /\ InSection(o)' <=> InSection(o)
                          /\ Linked(o)' <=> Linked(o)
                          /\ req'[o].pc = "queued" <=> req[o].pc = "queued"
  BY <1>1 DEF Only, Same, proc, key, LockKey, Guarded, InSection, Linked, Inside
<1>3. Exclusion'
  BY <1>1, <1>2 DEF Control, Exclusion
<1>4. Queues'
  <2>1. \A p \in Procs, k \in LockKeys : \A i \in 1..Len(chain[p][k]) :
            chain[p][k][i] \in Requests
    BY DEF Control, TypeOK
  <2>2. \A o \in Requests, p \in Procs, k \in LockKeys, i \in Nat :
            IsLink(o, p, k, i) => IsLink(o, p, k, i)'
    BY <1>2 DEF IsLink
  <2> QED BY <1>1, <1>2, <2>1, <2>2 DEF Control, Queues
<1>5. Courses'
  <2>1. \A o \in Requests \ {r} : Course(o)'
    BY <1>1 DEF Only, Control, Courses, Course, Guarded, AnyToken, proc, key
  <2> QED BY <1>1, <2>1 DEF Courses
<1> QED BY <1>3, <1>4, <1>5, InnerTyped DEF Control

-----------------------------------------------------------------------------
(* The queues *)

(* The first in a queue is the one that polls or has the lock. *)
LEMMA AtHead ==
    ASSUME Control, NEW r \in Requests, Linked(r)
    PROVE  /\ chain[proc(r)][LockKey(r)] \in Seq(Requests)
           /\ chain[proc(r)][LockKey(r)] # <<>>
           /\ req[r].pc # "queued" => chain[proc(r)][LockKey(r)][1] = r
<1>1. req[r].pc # "unsent"
  BY DEF Linked, Inside
<1>2. chain[proc(r)][LockKey(r)] \in Seq(Requests)
  BY <1>1, Places DEF Control, TypeOK
<1>3. PICK i \in 1..Len(chain[proc(r)][LockKey(r)]) : chain[proc(r)][LockKey(r)][i] = r
  BY DEF Control, Queues
<1>4. proc(r) \in Procs /\ LockKey(r) \in LockKeys
  BY <1>1, Places
<1>5. i > 1 => req[r].pc = "queued"
  BY <1>3, <1>4 DEF Control, Queues, IsLink
<1> QED BY <1>2, <1>3, <1>5

(* The tail of a queue, element by element. *)
LEMMA TailOf ==
    ASSUME NEW s \in Seq(Requests), s # <<>>
    PROVE  /\ Tail(s) \in Seq(Requests) /\ Len(Tail(s)) = Len(s) - 1
           /\ \A i \in 1..Len(Tail(s)) : i + 1 \in 1..Len(s) /\ Tail(s)[i] = s[i + 1]
           /\ \A i \in 1..Len(s) : i # 1 => i - 1 \in 1..Len(Tail(s)) /\ Tail(s)[i - 1] = s[i]
<1>1. Len(s) \in Nat /\ Len(s) # 0
  BY EmptySeq
<1> QED BY <1>1

(* A request that leaves the head of its queue. *)
LEMMA LeaveKeepsQueues ==
    ASSUME Control, NEW r \in Requests, Leave(r), Linked(r),
           chain[proc(r)][LockKey(r)][1] = r,
           Only(r), ~Linked(r)'
    PROVE  Queues' /\ chain' \in [Procs -> [LockKeys -> Seq(Requests)]]
<1> DEFINE p == proc(r)
           k == LockKey(r)
<1>1. /\ p \in Procs /\ k \in LockKeys
      /\ chain[p][k] \in Seq(Requests) /\ chain[p][k] # <<>>
  BY Places, AtHead DEF Linked, Inside
<1>2. chain \in [Procs -> [LockKeys -> Seq(Requests)]]
  BY DEF Control, TypeOK
<1>3. Tail(chain[p][k]) \in Seq(Requests)
  BY <1>1, TailOf
<1>4. chain' = [chain EXCEPT ![p][k] = Tail(chain[p][k])]
  BY <1>1, <1>2 DEF Leave
<1>5. /\ chain' \in [Procs -> [LockKeys -> Seq(Requests)]]
      /\ chain'[p][k] = Tail(chain[p][k])
      /\ \A q \in Procs, l \in LockKeys : q # p \/ l # k => chain'[q][l] = chain[q][l]
  BY <1>1, <1>2, <1>3, <1>4
<1>6. \A o \in Requests \ {r} :
          /\ proc(o)' = proc(o) /\ LockKey(o)' = LockKey(o) /\ req'[o].pc = req[o].pc
          /\ Linked(o)' <=> Linked(o)
  BY DEF Only, proc, key, LockKey, Linked, Guarded
<1>7. \A o \in Requests \ {r} : \A q, l, i : IsLink(o, q, l, i) => IsLink(o, q, l, i)'
  BY <1>6 DEF IsLink
<1>8. \A q \in Procs, l \in LockKeys : \A i \in 1..Len(chain[q][l]) :
          chain[q][l][i] \in Requests /\ i \in Nat /\ i > 0
  BY <1>2
<1>9. \A i \in 1..Len(chain[p][k]) : chain[p][k][i] = r => i = 1
  <2>1. 1 \in 1..Len(chain[p][k])
    BY <1>1, EmptySeq
  <2> QED BY <1>1, <2>1 DEF Control, Queues
<1>10. ASSUME NEW q \in Procs, NEW l \in LockKeys
       PROVE  /\ \A i \in 1..Len(chain'[q][l]) : IsLink(chain[q][l][i], q, l, i)'
              /\ \A i, j \in 1..Len(chain'[q][l]) : chain'[q][l][i] = chain'[q][l][j] => i = j
  <2>1. CASE q = p /\ l = k
    <3>1. \A i \in 1..Len(chain'[q][l]) : i \in Nat /\ i + 1 \in 1..Len(chain[p][k])
                                          /\ chain'[q][l][i] = chain[p][k][i + 1]
      <4>1. chain'[q][l] = Tail(chain[p][k])
        BY <1>5, <2>1
      <4>2. \A i \in 1..Len(Tail(chain[p][k])) :
                i + 1 \in 1..Len(chain[p][k]) /\ Tail(chain[p][k])[i] = chain[p][k][i + 1]
        BY <1>1, TailOf
      <4>3. Len(Tail(chain[p][k])) \in Nat
        BY <1>3
      <4> QED BY <4>1, <4>2, <4>3
    <3>2. ASSUME NEW i \in 1..Len(chain'[q][l]) PROVE IsLink(chain[q][l][i], q, l, i)'
      <4> DEFINE o == chain[p][k][i + 1]
      <4>1. o \in Requests /\ IsLink(o, p, k, i + 1)
        BY <1>1, <1>8, <3>1 DEF Control, Queues
      <4>2. o # r
        BY <1>9, <3>1
      <4>3. IsLink(o, p, k, i)
        BY <3>1, <4>1 DEF IsLink
      <4> QED BY <1>7, <2>1, <3>1, <4>1, <4>2, <4>3
    <3>3. ASSUME NEW i \in 1..Len(chain'[q][l]), NEW j \in 1..Len(chain'[q][l]),
                 chain'[q][l][i] = chain'[q][l][j]
          PROVE  i = j
      <4>1. chain[p][k][i + 1] = chain[p][k][j + 1]
        BY <3>1, <3>3
      <4>2. i + 1 = j + 1
        BY <1>1, <3>1, <4>1 DEF Control, Queues
      <4> QED BY <3>1, <4>2
    <3> QED BY <3>2, <3>3
  <2>2. CASE q # p \/ l # k
    <3>1. chain'[q][l] = chain[q][l]
      BY <1>5, <2>2
    <3>2. ASSUME NEW i \in 1..Len(chain[q][l]) PROVE IsLink(chain[q][l][i], q, l, i)'
      <4>1. chain[q][l][i] \in Requests /\ IsLink(chain[q][l][i], q, l, i)
        BY <1>8 DEF Control, Queues
      <4>2. chain[q][l][i] # r
        BY <2>2, <4>1 DEF IsLink
      <4> QED BY <1>7, <3>1, <4>1, <4>2
    <3>3. \A i, j \in 1..Len(chain[q][l]) : chain[q][l][i] = chain[q][l][j] => i = j
      BY DEF Control, Queues
    <3> QED BY <3>1, <3>2, <3>3
  <2> QED BY <2>1, <2>2
<1>11. ASSUME NEW o \in Requests, Linked(o)'
       PROVE  \E i \in 1..Len(chain'[proc(o)'][LockKey(o)']) : chain'[proc(o)'][LockKey(o)'][i] = o
  <2>1. o # r
    BY <1>11
  <2>2. Linked(o) /\ proc(o)' = proc(o) /\ LockKey(o)' = LockKey(o)
    BY <1>6, <1>11, <2>1
  <2>3. PICK i \in 1..Len(chain[proc(o)][LockKey(o)]) : chain[proc(o)][LockKey(o)][i] = o
    BY <2>2 DEF Control, Queues
  <2>4. proc(o) \in Procs /\ LockKey(o) \in LockKeys
    BY <2>2, Places DEF Linked, Inside
  <2>5. CASE proc(o) = p /\ LockKey(o) = k
    <3>1. i # 1
      BY <2>1, <2>3, <2>5
    <3>2. i - 1 \in 1..Len(Tail(chain[p][k])) /\ Tail(chain[p][k])[i - 1] = o
      BY <1>1, <2>3, <2>5, <3>1, TailOf
    <3> QED BY <1>5, <2>2, <2>5, <3>2
  <2>6. CASE proc(o) # p \/ LockKey(o) # k
    BY <1>5, <2>2, <2>3, <2>4, <2>6
  <2> QED BY <2>5, <2>6
<1> QED
  <2>1. \A o \in Requests : Linked(o)' =>
            \E i \in 1..Len(chain[proc(o)][LockKey(o)])' : chain[proc(o)][LockKey(o)][i]' = o
    BY <1>11
  <2> QED BY <1>5, <1>10, <2>1 DEF Queues

(* A step that leaves the queues alone keeps them linked. *)
LEMMA WaitingKeepsQueues ==
    ASSUME Control, NEW r \in Requests, UNCHANGED chain, Only(r),
           Linked(r)' <=> Linked(r),
           Linked(r) => proc(r)' = proc(r) /\ LockKey(r)' = LockKey(r),
           Linked(r) /\ req'[r].pc # "queued" => chain[proc(r)][LockKey(r)][1] = r
    PROVE  Queues'
<1>1. \A o \in Requests \ {r} :
          /\ proc(o)' = proc(o) /\ LockKey(o)' = LockKey(o) /\ req'[o].pc = req[o].pc
          /\ Linked(o)' <=> Linked(o)
  BY DEF Only, proc, key, LockKey, Linked, Guarded
<1>2. \A q \in Procs, l \in LockKeys : chain[q][l] \in Seq(Requests)
  BY DEF Control, TypeOK
<1>3. ASSUME NEW q \in Procs, NEW l \in LockKeys, NEW i \in 1..Len(chain[q][l])
      PROVE  IsLink(chain[q][l][i], q, l, i)'
  <2> DEFINE o == chain[q][l][i]
  <2>1. o \in Requests /\ IsLink(o, q, l, i) /\ i \in Nat
    BY <1>2 DEF Control, Queues
  <2>2. CASE o # r
    <3>1. IsLink(o, q, l, i)'
      BY <1>1, <2>1, <2>2 DEF IsLink
    <3> QED BY <3>1
  <2>3. CASE o = r
    <3>1. Linked(r) /\ proc(r) = q /\ LockKey(r) = l
      BY <2>1, <2>3 DEF IsLink
    <3>2. req'[r].pc # "queued" => i = 1
      <4> SUFFICES ASSUME req'[r].pc # "queued" PROVE i = 1
        OBVIOUS
      <4>1. chain[q][l][1] = chain[q][l][i] /\ 1 \in 1..Len(chain[q][l])
        BY <1>2, <2>3, <3>1
      <4> QED BY <4>1 DEF Control, Queues
    <3>3. IsLink(r, q, l, i)'
      BY <3>1, <3>2 DEF IsLink
    <3> QED BY <2>3, <3>3
  <2> QED BY <2>2, <2>3
<1>4. ASSUME NEW o \in Requests, Linked(o)'
      PROVE  \E i \in 1..Len(chain[proc(o)][LockKey(o)])' : chain[proc(o)][LockKey(o)][i]' = o
  <2>1. Linked(o) /\ proc(o)' = proc(o) /\ LockKey(o)' = LockKey(o)
    BY <1>1, <1>4
  <2> QED BY <2>1 DEF Control, Queues
<1>5. \A q \in Procs, l \in LockKeys : \A i, j \in 1..Len(chain[q][l]) :
          chain[q][l][i] = chain[q][l][j] => i = j
  BY DEF Control, Queues
<1> QED BY <1>3, <1>4, <1>5 DEF Queues

(* withWriteLock: a request takes the last place. *)
LEMMA EnqueueKeepsQueues ==
    ASSUME Control, NEW r \in Requests, NEW k \in LockKeys, Only(r), req[r].pc # "unsent",
           ~Linked(r), Linked(r)', req'[r].pc = "queued", proc(r)' = proc(r), LockKey(r)' = k,
           chain' = [chain EXCEPT ![proc(r)][k] = Append(@, r)]
    PROVE  Queues' /\ chain' \in [Procs -> [LockKeys -> Seq(Requests)]]
<1> DEFINE p == proc(r)
<1>1. /\ p \in Procs /\ chain \in [Procs -> [LockKeys -> Seq(Requests)]]
      /\ chain[p][k] \in Seq(Requests)
  BY Places DEF Control, TypeOK
<1>2. Append(chain[p][k], r) \in Seq(Requests)
  BY <1>1
<1>3. /\ chain' \in [Procs -> [LockKeys -> Seq(Requests)]]
      /\ chain'[p][k] = Append(chain[p][k], r)
      /\ \A q \in Procs, l \in LockKeys : q # p \/ l # k => chain'[q][l] = chain[q][l]
  BY <1>1, <1>2
<1>4. \A o \in Requests \ {r} :
          /\ proc(o)' = proc(o) /\ LockKey(o)' = LockKey(o) /\ req'[o].pc = req[o].pc
          /\ Linked(o)' <=> Linked(o)
  BY DEF Only, proc, key, LockKey, Linked, Guarded
<1>5. ASSUME NEW q \in Procs, NEW l \in LockKeys, NEW i \in 1..Len(chain[q][l])
      PROVE  /\ chain[q][l][i] \in Requests \ {r}
             /\ \A o : o = chain[q][l][i] => IsLink(o, q, l, i)'
  <2> DEFINE o == chain[q][l][i]
  <2>1. o \in Requests /\ IsLink(o, q, l, i)
    BY <1>1 DEF Control, Queues
  <2>2. o # r
    BY <2>1 DEF IsLink
  <2>3. IsLink(o, q, l, i)'
    BY <1>4, <2>1, <2>2 DEF IsLink
  <2> QED BY <2>1, <2>2, <2>3
<1>6. /\ Len(chain[p][k]) \in Nat
      /\ Len(chain'[p][k]) = Len(chain[p][k]) + 1
      /\ \A i \in 1..Len(chain[p][k]) : chain'[p][k][i] = chain[p][k][i]
      /\ chain'[p][k][Len(chain[p][k]) + 1] = r
  BY <1>1, <1>3
<1>7. ASSUME NEW q \in Procs, NEW l \in LockKeys
      PROVE  /\ \A i \in 1..Len(chain'[q][l]) : IsLink(chain[q][l][i], q, l, i)'
             /\ \A i, j \in 1..Len(chain'[q][l]) : chain'[q][l][i] = chain'[q][l][j] => i = j
  <2>1. CASE q = p /\ l = k
    <3>1. \A i \in 1..Len(chain'[q][l]) : i \in 1..Len(chain[p][k]) \/ i = Len(chain[p][k]) + 1
      BY <1>6, <2>1
    <3>2. \A i : IsLink(r, q, k, i)'
      BY <2>1 DEF IsLink
    <3>3. ASSUME NEW i \in 1..Len(chain'[q][l]) PROVE IsLink(chain[q][l][i], q, l, i)'
      <4>1. CASE i \in 1..Len(chain[p][k])
        <5>1. chain'[q][l][i] = chain[p][k][i]
          BY <1>6, <2>1, <4>1
        <5> QED BY <1>1, <1>5, <2>1, <4>1, <5>1
      <4>2. CASE i = Len(chain[p][k]) + 1
        <5>1. chain'[q][l][i] = r
          BY <1>6, <2>1, <4>2
        <5> QED BY <2>1, <3>2, <5>1
      <4> QED BY <3>1, <4>1, <4>2
    <3>4. ASSUME NEW i \in 1..Len(chain'[q][l]), NEW j \in 1..Len(chain'[q][l]),
                 chain'[q][l][i] = chain'[q][l][j]
          PROVE  i = j
      <4>1. \A x \in 1..Len(chain[p][k]) : chain[p][k][x] # r
        BY <1>1, <1>5
      <4>2. \A x, y \in 1..Len(chain[p][k]) : chain[p][k][x] = chain[p][k][y] => x = y
        BY <1>1 DEF Control, Queues
      <4> QED BY <1>6, <2>1, <3>1, <3>4, <4>1, <4>2
    <3> QED BY <3>3, <3>4
  <2>2. CASE q # p \/ l # k
    <3>1. chain'[q][l] = chain[q][l]
      BY <1>3, <2>2
    <3>2. \A i, j \in 1..Len(chain[q][l]) : chain[q][l][i] = chain[q][l][j] => i = j
      BY DEF Control, Queues
    <3> QED BY <1>5, <3>1, <3>2
  <2> QED BY <2>1, <2>2
<1>8. ASSUME NEW o \in Requests, Linked(o)'
      PROVE  \E i \in 1..Len(chain[proc(o)][LockKey(o)])' : chain[proc(o)][LockKey(o)][i]' = o
  <2>1. CASE o = r
    <3>1. Len(chain[p][k]) + 1 \in 1..Len(chain'[p][k])
      BY <1>6
    <3> QED BY <1>6, <2>1, <3>1
  <2>2. CASE o # r
    <3>1. Linked(o) /\ proc(o)' = proc(o) /\ LockKey(o)' = LockKey(o)
      BY <1>4, <1>8, <2>2
    <3>2. PICK i \in 1..Len(chain[proc(o)][LockKey(o)]) : chain[proc(o)][LockKey(o)][i] = o
      BY <3>1 DEF Control, Queues
    <3>3. proc(o) \in Procs /\ LockKey(o) \in LockKeys
      BY <3>1, Places DEF Linked, Inside
    <3>4. CASE proc(o) = p /\ LockKey(o) = k
      <4>1. i \in 1..Len(chain'[p][k]) /\ chain'[p][k][i] = o
        BY <1>6, <3>2, <3>4
      <4> QED BY <3>1, <3>4, <4>1
    <3>5. CASE proc(o) # p \/ LockKey(o) # k
      BY <1>3, <3>1, <3>2, <3>3, <3>5
    <3> QED BY <3>4, <3>5
  <2> QED BY <2>1, <2>2
<1> QED BY <1>3, <1>7, <1>8 DEF Queues

-----------------------------------------------------------------------------
(* Sections *)

(* A step outside the sections keeps the types. *)
LEMMA OutsideTyped ==
    ASSUME Control, UNCHANGED <<disk, cache, faults, site>>,
           req' \in [Requests -> Tickets], chain' \in [Procs -> [LockKeys -> Seq(Requests)]],
           lock' \in [LockKeys -> Requests \cup {NoOne}],
           busy' \in [Procs -> Requests \cup {NoOne}]
    PROVE  TypeOK'
  BY DEF Control, TypeOK, disk

(* A step of one request leaves the others on their course. *)
LEMMA OthersCourse ==
    ASSUME Control, NEW r \in Requests, Only(r), Course(r)', site' = site
    PROVE  Courses'
<1>1. \A o \in Requests \ {r} : Course(o)'
  BY DEF Only, Control, Courses, Course, Guarded, AnyToken, proc, key
<1> QED BY <1>1 DEF Courses

(* A step outside the sections disturbs no lock. *)
LEMMA OutsideExclusion ==
    ASSUME Control, NEW r \in Requests, Only(r), ~InSection(r), ~InSection(r)',
           UNCHANGED <<lock, busy>>
    PROVE  Exclusion'
<1>1. \A o \in Requests \ {r} :
          /\ proc(o)' = proc(o) /\ LockKey(o)' = LockKey(o)
          /\ InSection(o)' <=> InSection(o)
          /\ Guarded(o)' <=> Guarded(o)
  BY DEF Only, proc, key, LockKey, InSection, Guarded
<1> QED BY <1>1 DEF Control, Exclusion

(* A request whose callback gets the event loop, and its lock if it needs    *)
(* one.                                                                      *)
LEMMA EntersSection ==
    ASSUME Control, NEW r \in Requests, Only(r), req[r].pc # "unsent",
           ~InSection(r), InSection(r)', Turn(r),
           proc(r)' = proc(r), LockKey(r)' = LockKey(r), Guarded(r)' <=> Guarded(r),
           busy' = [busy EXCEPT ![proc(r)] = r],
           IF Guarded(r) THEN Free(LockKey(r)) /\ lock' = [lock EXCEPT ![LockKey(r)] = r]
           ELSE UNCHANGED lock
    PROVE  /\ Exclusion'
           /\ lock' \in [LockKeys -> Requests \cup {NoOne}] /\ busy' \in [Procs -> Requests \cup {NoOne}]
<1>1. \A o \in Requests \ {r} :
          /\ proc(o)' = proc(o) /\ LockKey(o)' = LockKey(o)
          /\ InSection(o)' <=> InSection(o)
          /\ Guarded(o)' <=> Guarded(o)
  BY DEF Only, proc, key, LockKey, InSection, Guarded
<1>2. /\ proc(r) \in Procs /\ LockKey(r) \in LockKeys
      /\ lock \in [LockKeys -> Requests \cup {NoOne}] /\ busy \in [Procs -> Requests \cup {NoOne}]
      /\ NoOne \notin Requests
  BY Places, CloudAssumption DEF Control, TypeOK
<1>3. \A p \in Procs : busy'[p] = IF p = proc(r) THEN r ELSE busy[p]
  BY <1>2
<1>4. \A k \in LockKeys : lock'[k] = IF Guarded(r) /\ k = LockKey(r) THEN r ELSE lock[k]
  BY <1>2
<1>5. busy[proc(r)] = NoOne
  BY DEF Turn
<1>6. ASSUME NEW p \in Procs, NEW o \in Requests
      PROVE  (busy[p] = o <=> InSection(o) /\ proc(o) = p)'
  <2>1. busy[p] = o <=> InSection(o) /\ proc(o) = p
    BY DEF Control, Exclusion
  <2>2. busy[proc(r)] # o
    BY <1>2, <1>5
  <2> QED BY <1>1, <1>3, <2>1, <2>2
<1>7. ASSUME NEW k \in LockKeys, NEW o \in Requests
      PROVE  (lock[k] = o <=> InSection(o) /\ Guarded(o) /\ LockKey(o) = k)'
  <2>1. lock[k] = o <=> InSection(o) /\ Guarded(o) /\ LockKey(o) = k
    BY DEF Control, Exclusion
  <2>2. Guarded(r) => lock[LockKey(r)] # o
    BY <1>2 DEF Free
  <2> QED BY <1>1, <1>4, <2>1, <2>2
<1> QED BY <1>2, <1>6, <1>7 DEF Exclusion

(* A request that leaves its section gives lock and event loop back. *)
LEMMA LeavesSection ==
    ASSUME Control, NEW r \in Requests, Only(r), InSection(r), ~InSection(r)',
           busy' = [busy EXCEPT ![proc(r)] = NoOne],
           IF Guarded(r) THEN lock' = [lock EXCEPT ![LockKey(r)] = NoOne] ELSE UNCHANGED lock
    PROVE  /\ Exclusion'
           /\ lock' \in [LockKeys -> Requests \cup {NoOne}] /\ busy' \in [Procs -> Requests \cup {NoOne}]
<1>1. \A o \in Requests \ {r} :
          /\ proc(o)' = proc(o) /\ LockKey(o)' = LockKey(o)
          /\ InSection(o)' <=> InSection(o)
          /\ Guarded(o)' <=> Guarded(o)
  BY DEF Only, proc, key, LockKey, InSection, Guarded
<1>2. /\ proc(r) \in Procs /\ LockKey(r) \in LockKeys
      /\ lock \in [LockKeys -> Requests \cup {NoOne}] /\ busy \in [Procs -> Requests \cup {NoOne}]
      /\ NoOne \notin Requests
  BY Places, CloudAssumption DEF Control, TypeOK, InSection, Inside
<1>3. \A p \in Procs : busy'[p] = IF p = proc(r) THEN NoOne ELSE busy[p]
  BY <1>2
<1>4. \A k \in LockKeys : lock'[k] = IF Guarded(r) /\ k = LockKey(r) THEN NoOne ELSE lock[k]
  BY <1>2
<1>5. busy[proc(r)] = r /\ (Guarded(r) => lock[LockKey(r)] = r)
  BY <1>2 DEF Control, Exclusion
<1>6. ASSUME NEW p \in Procs, NEW o \in Requests
      PROVE  (busy[p] = o <=> InSection(o) /\ proc(o) = p)'
  <2>1. busy[p] = o <=> InSection(o) /\ proc(o) = p
    BY DEF Control, Exclusion
  <2>2. busy[p] = r <=> proc(r) = p
    BY DEF Control, Exclusion
  <2> QED BY <1>1, <1>2, <1>3, <1>5, <2>1, <2>2
<1>7. ASSUME NEW k \in LockKeys, NEW o \in Requests
      PROVE  (lock[k] = o <=> InSection(o) /\ Guarded(o) /\ LockKey(o) = k)'
  <2>1. lock[k] = o <=> InSection(o) /\ Guarded(o) /\ LockKey(o) = k
    BY DEF Control, Exclusion
  <2>2. lock[k] = r <=> Guarded(r) /\ LockKey(r) = k
    BY DEF Control, Exclusion
  <2> QED BY <1>1, <1>2, <1>4, <1>5, <2>1, <2>2
<1> QED BY <1>2, <1>6, <1>7 DEF Exclusion

-----------------------------------------------------------------------------
(* The steps outside a section *)

(* A request that is sent starts from the beginning. *)
LEMMA SendKeeps ==
    ASSUME Control, NEW r \in Requests, NEW p \in site.procs, NEW kind \in site.kinds,
           NEW k \in site.keys, Send(r, p, kind, k), site' = site
    PROVE  /\ Control' /\ Only(r) /\ req'[r].pc = "start" /\ req'[r].kind = kind /\ req'[r].proc = p
           /\ req'[r].key = k /\ req'[r].stage = "handler" /\ req'[r].base = NoFile
           /\ req'[r].result = "none" /\ req'[r].answer = "none" /\ req'[r].known = Acknowledged(k)
<1>1. IsSite(site)
  BY CloudAssumption DEF Control, TypeOK
<1>2. /\ p \in Procs /\ k \in Keys
      /\ kind \in {"get", "list", "post", "patch", "put", "capture", "gc"}
  BY <1>1 DEF IsSite
<1>3. PICK n \in 0..Len(file[k].doc.trail) :
          req' = [req EXCEPT ![r] = NewRequest(kind, p, k, SubSeq(file[k].doc.trail, 1, n), Acknowledged(k))]
  BY DEF Send
<1>4. file[k].doc.trail \in Seq(Requests)
  BY <1>2 DEF Control, TypeOK, Files, Docs
<1>5. SubSeq(file[k].doc.trail, 1, n) \in Seq(Requests)
  BY <1>4, SubSeqProperties
<1>6. Acknowledged(k) \in SUBSET Requests
  BY DEF Acknowledged
<1> DEFINE t == NewRequest(kind, p, k, SubSeq(file[k].doc.trail, 1, n), Acknowledged(k))
<1>7. t \in Tickets
  BY <1>2, <1>5, <1>6, FilesTyped DEF NewRequest, Tickets
<1>8. req' \in [Requests -> Tickets] /\ req'[r] = t /\ Only(r)
  BY <1>3, <1>7, Ticket DEF Control
<1>9. /\ t.pc = "start" /\ t.kind = kind /\ t.proc = p /\ t.key = k /\ t.stage = "handler"
      /\ t.base = NoFile /\ t.result = "none" /\ t.answer = "none" /\ t.known = Acknowledged(k)
      /\ ~t.aborted
  BY DEF NewRequest
<1>10. req[r].pc = "unsent" /\ UNCHANGED <<disk, lock, memory, faults>>
  BY DEF Send
<1>11. TypeOK'
  BY <1>8, <1>10, OutsideTyped DEF Control, TypeOK, memory
<1>12. Exclusion'
  BY <1>8, <1>9, <1>10, OutsideExclusion DEF InSection, Inside, memory
<1>13. Queues'
  <2>1. ~Linked(r) /\ ~Linked(r)'
    BY <1>8, <1>9, <1>10 DEF Linked, Inside
  <2> QED BY <1>8, <1>10, <2>1, WaitingKeepsQueues DEF memory
<1>14. Courses'
  BY <1>8, <1>9, OthersCourse DEF Course, proc, key, Guarded, Unlocked, Control, Inside
<1> QED BY <1>8, <1>9, <1>11, <1>12, <1>13, <1>14 DEF Control

(* A request outside a section moves on, and is not done. *)
LEMMA StepTicket ==
    ASSUME Control, NEW r \in Requests,
           NEW pc \in {"unsent", "start", "body", "queued", "polling", "done"} \cup Inside,
           req' = [req EXCEPT ![r].pc = pc]
    PROVE  /\ req' \in [Requests -> Tickets] /\ Only(r) /\ Same(r) /\ req'[r].pc = pc
           /\ req'[r].stage = req[r].stage /\ req'[r].aborted = req[r].aborted
           /\ req'[r].answer = req[r].answer /\ req'[r].result = req[r].result
           /\ req'[r].base = req[r].base
<1>1. req[r] \in Tickets
  BY DEF Control, TypeOK
<1>2. req' \in [Requests -> Tickets] /\ Only(r) /\ req'[r] = [req[r] EXCEPT !.pc = pc]
  BY Moved
<1> QED BY <1>1, <1>2 DEF Same, Tickets

(* What queueing does to a request. *)
LEMMA EnqueueTicket ==
    ASSUME Control, NEW r \in Requests, NEW stage \in {"handler", "admission"}, Enqueue(r, stage)
    PROVE  /\ req' \in [Requests -> Tickets] /\ Only(r) /\ Same(r) /\ req'[r].pc = "queued"
           /\ req'[r].stage = stage /\ req'[r].aborted = req[r].aborted
           /\ req'[r].answer = req[r].answer /\ req'[r].result = req[r].result
           /\ req'[r].base = req[r].base
<1> DEFINE t == [req[r] EXCEPT !.stage = stage, !.pc = "queued"]
<1>1. req[r] \in Tickets
  BY DEF Control, TypeOK
<1>2. t \in Tickets
  BY <1>1 DEF Tickets
<1>3. req' = [req EXCEPT ![r] = t]
  BY DEF Enqueue, Control, TypeOK
<1>4. req' \in [Requests -> Tickets] /\ Only(r) /\ req'[r] = t
  BY <1>2, <1>3, Ticket DEF Control
<1> QED BY <1>1, <1>4 DEF Same, Tickets

(* A request that queues keeps the order. *)
LEMMA EnqueueKeeps ==
    ASSUME Control, NEW r \in Requests, NEW stage \in {"handler", "admission"}, Enqueue(r, stage),
           req[r].pc \in {"start", "body"}, Guarded(r), stage = "admission" => AnyToken,
           UNCHANGED <<disk, lock, cache, busy, faults, site>>
    PROVE  Control'
<1>1. /\ req' \in [Requests -> Tickets] /\ Only(r) /\ Same(r) /\ req'[r].pc = "queued"
      /\ req'[r].stage = stage /\ req'[r].aborted = req[r].aborted /\ req'[r].answer = req[r].answer
  BY EnqueueTicket
<1> DEFINE k == IF stage = "admission" THEN Admission ELSE key(r)
<1>2. k \in LockKeys /\ LockKey(r)' = k /\ proc(r)' = proc(r) /\ req[r].pc # "unsent"
  <2>1. key(r) \in Keys
    BY Places
  <2> QED BY <1>1, <2>1 DEF LockKeys, LockKey, proc, key, Same
<1>3. ~Linked(r) /\ Linked(r)'
  BY <1>1 DEF Linked, Inside, Guarded, Same
<1>4. chain' = [chain EXCEPT ![proc(r)][k] = Append(@, r)]
  BY DEF Enqueue
<1>5. Queues' /\ chain' \in [Procs -> [LockKeys -> Seq(Requests)]]
  BY <1>1, <1>2, <1>3, <1>4, EnqueueKeepsQueues
<1>6. Exclusion'
  BY <1>1, OutsideExclusion DEF InSection, Inside
<1>7. TypeOK'
  BY <1>1, <1>5, OutsideTyped DEF Control, TypeOK
<1>8. Course(r)
  BY DEF Control, Courses
<1>9. Courses'
  BY <1>1, <1>8, OthersCourse DEF Course, Same, proc, key, Guarded, AnyToken, Inside
<1> QED BY <1>5, <1>6, <1>7, <1>9 DEF Control

(* withNamespace keeps the order. *)
LEMMA EnterKeeps ==
    ASSUME Control, NEW r \in Requests, Enter(r), site' = site
    PROVE  Control'
<1>1. req[r].pc = "start" /\ Turn(r) /\ UNCHANGED <<disk, lock, cache, faults>> /\ Course(r)
  BY DEF Enter, Control, Courses
<1>2. req[r].stage = "handler"
  BY <1>1 DEF Course, Control, TypeOK, Tickets
<1>3. CASE ~Guarded(r)
  <2>1. req' = [req EXCEPT ![r].pc = "load"] /\ busy' = [busy EXCEPT ![proc(r)] = r] /\ chain' = chain
    BY <1>3 DEF Enter, Guarded
  <2>2. /\ req' \in [Requests -> Tickets] /\ Only(r) /\ Same(r) /\ req'[r].pc = "load"
        /\ req'[r].stage = req[r].stage /\ req'[r].aborted = req[r].aborted
        /\ req'[r].answer = req[r].answer /\ req'[r].result = req[r].result
    BY <2>1, StepTicket DEF Inside
  <2>3. /\ ~InSection(r) /\ InSection(r)' /\ proc(r)' = proc(r) /\ LockKey(r)' = LockKey(r)
        /\ Guarded(r)' <=> Guarded(r)
        /\ ~Linked(r) /\ ~Linked(r)'
    BY <1>1, <1>3, <2>2 DEF InSection, Inside, Same, proc, key, LockKey, Guarded, Linked
  <2>4. Exclusion' /\ lock' \in [LockKeys -> Requests \cup {NoOne}] /\ busy' \in [Procs -> Requests \cup {NoOne}]
    BY <1>1, <1>3, <2>1, <2>2, <2>3, EntersSection
  <2>5. Queues'
    BY <2>1, <2>2, <2>3, WaitingKeepsQueues
  <2>6. TypeOK'
    BY <1>1, <2>1, <2>2, <2>4, OutsideTyped DEF Control, TypeOK
  <2>7. Courses'
    BY <1>1, <1>2, <2>2, OthersCourse DEF Course, Same, proc, key, Guarded, AnyToken, Inside
  <2> QED BY <2>4, <2>5, <2>6, <2>7 DEF Control
<1>4. CASE Guarded(r) /\ AnyToken /\ Enqueue(r, "admission") /\ UNCHANGED busy
  BY <1>1, <1>4, EnqueueKeeps
<1>5. CASE Guarded(r) /\ req' = [req EXCEPT ![r].pc = "body"] /\ UNCHANGED <<chain, busy>>
  <2>1. /\ req' \in [Requests -> Tickets] /\ Only(r) /\ Same(r) /\ req'[r].pc = "body"
        /\ req'[r].stage = req[r].stage /\ req'[r].aborted = req[r].aborted
        /\ req'[r].answer = req[r].answer /\ req'[r].result = req[r].result
    BY <1>5, StepTicket
  <2>2. ~InSection(r) /\ ~InSection(r)' /\ ~Linked(r) /\ ~Linked(r)'
    BY <1>1, <2>1 DEF InSection, Inside, Linked
  <2>3. TypeOK'
    BY <1>1, <1>5, <2>1, OutsideTyped DEF Control, TypeOK
  <2>4. Courses'
    BY <1>1, <1>2, <1>5, <2>1, OthersCourse DEF Course, Same, proc, key, Guarded, AnyToken, Inside
  <2> QED BY <1>1, <1>5, <2>1, <2>2, <2>3, <2>4, OutsideExclusion, WaitingKeepsQueues DEF Control
<1> QED BY <1>3, <1>4, <1>5 DEF Enter, Guarded

(* The body's arrival keeps the order. *)
LEMMA BodyReadKeeps ==
    ASSUME Control, NEW r \in Requests, BodyRead(r), site' = site
    PROVE  Control'
<1>1. Course(r) /\ req[r].pc = "body"
  BY DEF Control, Courses, BodyRead
<1>2. Guarded(r)
  BY <1>1 DEF Course
<1> QED BY <1>1, <1>2, EnqueueKeeps DEF BodyRead

(* A request that ends is on its course. *)
LEMMA DoneTicket ==
    ASSUME Control, NEW r \in Requests, req[r].pc # "unsent", req' \in [Requests -> Tickets],
           Only(r), Same(r), req'[r].pc = "done", req'[r].stage = req[r].stage, site' = site
    PROVE  Courses'
<1>1. Course(r)
  BY DEF Control, Courses
<1> QED BY <1>1, OthersCourse DEF Course, Same, proc, key, Guarded, AnyToken, Inside

(* A request that gives up at the head of its queue. *)
LEMMA GivesUpKeeps ==
    ASSUME Control, NEW r \in Requests, Linked(r), ~InSection(r),
           chain[proc(r)][LockKey(r)][1] = r, Leave(r),
           req' \in [Requests -> Tickets], Only(r), Same(r), req'[r].pc = "done",
           req'[r].stage = req[r].stage,
           UNCHANGED <<disk, lock, cache, busy, faults, site>>
    PROVE  Control'
<1>1. ~Linked(r)' /\ ~InSection(r)' /\ req[r].pc # "unsent"
  BY DEF Linked, InSection, Inside
<1>2. Queues' /\ chain' \in [Procs -> [LockKeys -> Seq(Requests)]]
  BY <1>1, LeaveKeepsQueues
<1>3. TypeOK'
  BY <1>2, OutsideTyped DEF Control, TypeOK
<1> QED BY <1>1, <1>2, <1>3, OutsideExclusion, DoneTicket DEF Control

(* A turn, taken or dropped, keeps the order. *)
LEMMA StartRunKeeps ==
    ASSUME Control, NEW r \in Requests, StartRun(r), site' = site
    PROVE  Control'
<1>1. /\ req[r].pc = "queued" /\ Head(chain[proc(r)][LockKey(r)]) = r
      /\ UNCHANGED <<disk, lock, cache, busy, faults>> /\ Course(r)
  BY DEF StartRun, Control, Courses
<1>2. Linked(r) /\ ~InSection(r)
  BY <1>1 DEF Course, Linked, InSection, Inside
<1>3. chain[proc(r)][LockKey(r)][1] = r
  BY <1>1, <1>2, AtHead
<1>4. CASE req' = [req EXCEPT ![r].pc = "done"] /\ Leave(r)
  <2>1. /\ req' \in [Requests -> Tickets] /\ Only(r) /\ Same(r) /\ req'[r].pc = "done"
        /\ req'[r].stage = req[r].stage
    BY <1>4, StepTicket
  <2> QED BY <1>1, <1>2, <1>3, <1>4, <2>1, GivesUpKeeps
<1>5. CASE ~Dropped(r) /\ req' = [req EXCEPT ![r].pc = "polling"] /\ UNCHANGED chain
  <2>1. /\ req' \in [Requests -> Tickets] /\ Only(r) /\ Same(r) /\ req'[r].pc = "polling"
        /\ req'[r].stage = req[r].stage /\ req'[r].aborted = req[r].aborted
        /\ req'[r].answer = req[r].answer
    BY <1>5, StepTicket
  <2>2. /\ ~InSection(r)' /\ Linked(r)' /\ proc(r)' = proc(r) /\ LockKey(r)' = LockKey(r)
    BY <1>2, <2>1 DEF InSection, Inside, Linked, Guarded, Same, proc, key, LockKey
  <2>3. TypeOK'
    BY <1>1, <1>5, <2>1, OutsideTyped DEF Control, TypeOK
  <2>4. Courses'
    BY <1>1, <1>2, <1>5, <2>1, OthersCourse
       DEF Course, Same, proc, key, Guarded, AnyToken, Inside, Dropped, Linked
  <2> QED BY <1>1, <1>2, <1>3, <1>5, <2>1, <2>2, <2>3, <2>4, OutsideExclusion, WaitingKeepsQueues
          DEF Control
<1> QED BY <1>4, <1>5 DEF StartRun

(* Getting the operating system's lock keeps the order. *)
LEMMA AcquireKeeps ==
    ASSUME Control, NEW r \in Requests, Acquire(r), site' = site
    PROVE  Control'
<1>1. /\ req[r].pc = "polling" /\ Turn(r) /\ Free(LockKey(r)) /\ Course(r)
      /\ lock' = [lock EXCEPT ![LockKey(r)] = r] /\ busy' = [busy EXCEPT ![proc(r)] = r]
      /\ UNCHANGED <<disk, cache, chain, faults>>
  BY DEF Acquire, Control, Courses
<1> DEFINE pc == IF req[r].stage = "admission" THEN "reserve" ELSE "load"
<1>2. /\ req' \in [Requests -> Tickets] /\ Only(r) /\ Same(r) /\ req'[r].pc = pc
      /\ req'[r].stage = req[r].stage /\ req'[r].aborted = req[r].aborted
      /\ req'[r].answer = req[r].answer
  <2>1. pc \in Inside
    BY DEF Inside
  <2>2. req' = [req EXCEPT ![r].pc = pc]
    BY DEF Acquire
  <2> HIDE DEF pc
  <2> QED BY <2>1, <2>2, StepTicket
<1>3. Linked(r) /\ ~InSection(r) /\ Guarded(r)
  BY <1>1 DEF Course, Linked, InSection, Inside
<1>4. /\ InSection(r)' /\ Linked(r)' /\ proc(r)' = proc(r) /\ LockKey(r)' = LockKey(r)
      /\ Guarded(r)' <=> Guarded(r)
  BY <1>2, <1>3 DEF InSection, Inside, Linked, Guarded, Same, proc, key, LockKey
<1>5. chain[proc(r)][LockKey(r)][1] = r
  BY <1>1, <1>3, AtHead
<1>6. Exclusion' /\ lock' \in [LockKeys -> Requests \cup {NoOne}] /\ busy' \in [Procs -> Requests \cup {NoOne}]
  BY <1>1, <1>2, <1>3, <1>4, EntersSection
<1>7. Queues'
  BY <1>1, <1>2, <1>3, <1>4, <1>5, WaitingKeepsQueues
<1>8. TypeOK'
  BY <1>1, <1>2, <1>6, OutsideTyped DEF Control, TypeOK
<1>9. Courses'
  <2>1. req[r].stage \in {"handler", "admission"}
    BY DEF Control, TypeOK, Tickets
  <2> QED BY <1>1, <1>2, <1>3, <2>1, OthersCourse DEF Course, Same, proc, key, Guarded, AnyToken, Inside
<1> QED BY <1>6, <1>7, <1>8, <1>9 DEF Control

(* What an answer does to a request. *)
LEMMA AnsweredTicket ==
    ASSUME Control, NEW r \in Requests, NEW aborted \in BOOLEAN,
           NEW answer \in {"none", "ok", "error", "refused", "timeout", "lost"},
           NEW pc \in {"unsent", "start", "body", "queued", "polling", "done"} \cup Inside,
           req' = [req EXCEPT ![r].aborted = aborted, ![r].answer = answer, ![r].pc = pc]
    PROVE  /\ req' \in [Requests -> Tickets] /\ Only(r) /\ Same(r) /\ req'[r].pc = pc
           /\ req'[r].stage = req[r].stage /\ req'[r].aborted = aborted
           /\ req'[r].answer = answer /\ req'[r].result = req[r].result
           /\ req'[r].base = req[r].base
<1> DEFINE t == [req[r] EXCEPT !.aborted = aborted, !.answer = answer, !.pc = pc]
<1>1. req[r] \in Tickets
  BY DEF Control, TypeOK
<1>2. t \in Tickets
  BY <1>1 DEF Tickets
<1>3. req' = [req EXCEPT ![r] = t]
  BY DEF Control, TypeOK
<1>4. req' \in [Requests -> Tickets] /\ Only(r) /\ req'[r] = t
  BY <1>2, <1>3, Ticket DEF Control
<1> QED BY <1>1, <1>4 DEF Same, Tickets

(* What a lock's timeout does to a request. *)
LEMMA LockTimedOutTicket ==
    ASSUME Control, NEW r \in Requests, LockTimedOut(r)
    PROVE  /\ req' \in [Requests -> Tickets] /\ Only(r) /\ Same(r) /\ req'[r].pc = "done"
           /\ req'[r].stage = req[r].stage /\ req'[r].answer = "error"
           /\ req'[r].base = req[r].base /\ req'[r].result = req[r].result
<1> DEFINE t == [req[r] EXCEPT !.pc = "done", !.answer = "error"]
<1>1. req[r] \in Tickets
  BY DEF Control, TypeOK
<1>2. t \in Tickets
  BY <1>1 DEF Tickets
<1>3. req' = [req EXCEPT ![r] = t]
  BY DEF LockTimedOut, Control, TypeOK
<1>4. req' \in [Requests -> Tickets] /\ Only(r) /\ req'[r] = t
  BY <1>2, <1>3, Ticket DEF Control
<1> QED BY <1>1, <1>4 DEF Same, Tickets

(* A lock's timeout keeps the order. *)
LEMMA LockTimedOutKeeps ==
    ASSUME Control, NEW r \in Requests, LockTimedOut(r), site' = site
    PROVE  Control'
<1>1. req[r].pc = "polling" /\ Leave(r) /\ UNCHANGED <<disk, lock, cache, busy, faults>> /\ Course(r)
  BY DEF LockTimedOut, Control, Courses
<1>2. Linked(r) /\ ~InSection(r)
  BY <1>1 DEF Course, Linked, InSection, Inside
<1>3. chain[proc(r)][LockKey(r)][1] = r
  BY <1>1, <1>2, AtHead
<1> QED BY <1>1, <1>2, <1>3, LockTimedOutTicket, GivesUpKeeps

(* What its timer does to a request. *)
LEMMA AbortTicket ==
    ASSUME Control, NEW r \in Requests, Abort(r)
    PROVE  /\ req' \in [Requests -> Tickets] /\ Only(r) /\ Same(r)
           /\ req'[r].pc = IF req[r].pc = "queued" THEN "queued" ELSE "done"
           /\ req'[r].aborted /\ req'[r].stage = req[r].stage /\ req'[r].answer = "timeout"
           /\ req'[r].base = req[r].base /\ req'[r].result = req[r].result
<1> DEFINE pc == IF req[r].pc = "queued" THEN "queued" ELSE "done"
<1>1. req' = [req EXCEPT ![r].aborted = TRUE, ![r].answer = "timeout", ![r].pc = pc]
  BY DEF Abort, Control, TypeOK
<1>2. pc \in {"unsent", "start", "body", "queued", "polling", "done"} \cup Inside
  OBVIOUS
<1> HIDE DEF pc
<1>3. /\ req' \in [Requests -> Tickets] /\ Only(r) /\ Same(r) /\ req'[r].pc = pc
      /\ req'[r].stage = req[r].stage /\ req'[r].aborted = TRUE
      /\ req'[r].answer = "timeout" /\ req'[r].base = req[r].base /\ req'[r].result = req[r].result
  BY <1>1, <1>2, AnsweredTicket
<1> QED BY <1>3 DEF pc

(* A request's timer keeps the order. *)
LEMMA AbortKeeps ==
    ASSUME Control, NEW r \in Requests, Abort(r), site' = site
    PROVE  Control'
<1>1. /\ req[r].pc \in {"body", "queued", "polling"} /\ Course(r)
      /\ UNCHANGED <<disk, lock, cache, busy, faults>>
      /\ IF req[r].pc = "polling" THEN Leave(r) ELSE UNCHANGED chain
  BY DEF Abort, Control, Courses
<1>2. /\ req' \in [Requests -> Tickets] /\ Only(r) /\ Same(r)
      /\ req'[r].pc = IF req[r].pc = "queued" THEN "queued" ELSE "done"
      /\ req'[r].aborted /\ req'[r].stage = req[r].stage /\ req'[r].answer = "timeout"
  BY AbortTicket
<1>3. Guarded(r) /\ ~InSection(r) /\ ~InSection(r)'
  BY <1>1, <1>2 DEF Course, InSection, Inside
<1>4. CASE req[r].pc = "polling"
  <2>1. Linked(r)
    BY <1>3, <1>4 DEF Linked
  <2>2. chain[proc(r)][LockKey(r)][1] = r
    BY <1>4, <2>1, AtHead
  <2> QED BY <1>1, <1>2, <1>3, <1>4, <2>1, <2>2, GivesUpKeeps
<1>5. CASE req[r].pc # "polling"
  <2>1. Linked(r)' <=> Linked(r)
    BY <1>1, <1>2, <1>3, <1>5 DEF Linked, Inside, Guarded, Same
  <2>2. /\ proc(r)' = proc(r) /\ LockKey(r)' = LockKey(r)
        /\ Linked(r) => req'[r].pc = "queued"
    BY <1>1, <1>2, <1>5 DEF Same, proc, key, LockKey, Linked, Inside
  <2>3. Queues'
    BY <1>1, <1>2, <1>5, <2>1, <2>2, WaitingKeepsQueues
  <2>4. TypeOK'
    BY <1>1, <1>2, <1>5, OutsideTyped DEF Control, TypeOK
  <2>5. Courses'
    BY <1>1, <1>2, <1>3, OthersCourse DEF Course, Same, proc, key, Guarded, AnyToken, Inside
  <2> QED BY <1>1, <1>2, <1>3, <2>3, <2>4, <2>5, OutsideExclusion DEF Control
<1> QED BY <1>4, <1>5

(* What its handler's return does to a request. *)
LEMMA FinishTicket ==
    ASSUME Control, NEW r \in Requests, Finish(r)
    PROVE  /\ req' \in [Requests -> Tickets] /\ Only(r) /\ Same(r)
           /\ req'[r].pc = IF req[r].result = "admitted" THEN "body" ELSE "done"
           /\ req'[r].stage = "handler" /\ req'[r].aborted = req[r].aborted
           /\ req'[r].answer = IF req[r].result = "admitted" THEN "none" ELSE req[r].result
           /\ req'[r].result = req[r].result /\ req'[r].base = req[r].base
<1> DEFINE pc == IF req[r].result = "admitted" THEN "body" ELSE "done"
           answer == IF req[r].result = "admitted" THEN "none" ELSE req[r].result
           t == [req[r] EXCEPT !.stage = "handler", !.pc = pc, !.answer = answer]
<1>1. req[r] \in Tickets /\ req[r].pc = "finish" /\ Course(r)
  BY DEF Control, TypeOK, Courses, Finish
<1>2. req[r].answer = "none"
  BY <1>1 DEF Course
<1>3. /\ pc \in {"body", "done"}
      /\ answer \in {"none", "ok", "error", "refused", "timeout", "lost"}
  BY <1>1 DEF Tickets
<1>4. t \in Tickets
  <2>1. \A x \in {"body", "done"}, y \in {"none", "ok", "error", "refused", "timeout", "lost"} :
            [req[r] EXCEPT !.stage = "handler", !.pc = x, !.answer = y] \in Tickets
    BY <1>1 DEF Tickets
  <2> HIDE DEF pc, answer
  <2> QED BY <1>3, <2>1
<1>5. req' = [req EXCEPT ![r] = t]
  BY <1>2 DEF Finish, Control, TypeOK
<1>6. req' \in [Requests -> Tickets] /\ Only(r) /\ req'[r] = t
  BY <1>4, <1>5, Ticket DEF Control
<1> QED BY <1>1, <1>6 DEF Same, Tickets

(* The return of a handler keeps the order. *)
LEMMA FinishKeeps ==
    ASSUME Control, NEW r \in Requests, Finish(r), site' = site
    PROVE  Control'
<1>1. /\ req[r].pc = "finish" /\ Course(r) /\ UNCHANGED <<disk, cache, faults>>
      /\ busy' = [busy EXCEPT ![proc(r)] = NoOne]
      /\ IF Guarded(r) THEN lock' = [lock EXCEPT ![LockKey(r)] = NoOne] /\ Leave(r)
         ELSE UNCHANGED <<lock, chain>>
  BY DEF Finish, Guarded, Control, Courses
<1>2. /\ req' \in [Requests -> Tickets] /\ Only(r) /\ Same(r)
      /\ req'[r].pc = IF req[r].result = "admitted" THEN "body" ELSE "done"
      /\ req'[r].stage = "handler" /\ req'[r].aborted = req[r].aborted
      /\ req'[r].answer = IF req[r].result = "admitted" THEN "none" ELSE req[r].result
      /\ req'[r].result = req[r].result /\ req'[r].base = req[r].base
  BY FinishTicket
<1>3. InSection(r) /\ ~InSection(r)' /\ ~Linked(r)'
  BY <1>1, <1>2 DEF InSection, Inside, Linked
<1>4. Exclusion' /\ lock' \in [LockKeys -> Requests \cup {NoOne}] /\ busy' \in [Procs -> Requests \cup {NoOne}]
  BY <1>1, <1>2, <1>3, LeavesSection
<1>5. Queues' /\ chain' \in [Procs -> [LockKeys -> Seq(Requests)]]
  <2>1. CASE Guarded(r)
    <3>1. Linked(r) /\ chain[proc(r)][LockKey(r)][1] = r
      BY <1>1, <2>1, AtHead DEF Linked, Inside
    <3> QED BY <1>1, <1>2, <1>3, <2>1, <3>1, LeaveKeepsQueues
  <2>2. CASE ~Guarded(r)
    <3>1. ~Linked(r)
      BY <2>2 DEF Linked
    <3> QED BY <1>1, <1>2, <1>3, <2>2, <3>1, WaitingKeepsQueues DEF Control, TypeOK
  <2> QED BY <2>1, <2>2
<1>6. TypeOK'
  BY <1>1, <1>2, <1>4, <1>5, OutsideTyped
<1>7. Courses'
  <2>1. req[r].stage \in {"handler", "admission"}
    BY DEF Control, TypeOK, Tickets
  <2>2. ~Guarded(r) => req[r].result # "admitted"
    BY <1>1, <2>1 DEF Course
  <2> QED BY <1>1, <1>2, <2>1, <2>2, OthersCourse DEF Course, Same, proc, key, Guarded, AnyToken, Inside
<1> QED BY <1>4, <1>5, <1>6, <1>7 DEF Control

(* What a crash does to the requests of a process. *)
LEMMA CrashTickets ==
    ASSUME Control, NEW p \in site.procs, Crash(p)
    PROVE  /\ req' \in [Requests -> Tickets]
           /\ \A r \in Requests :
                 \/ /\ req'[r] = req[r]
                    /\ proc(r) = p => req[r].pc \in {"unsent", "done"}
                 \/ /\ proc(r) = p /\ req[r].pc \notin {"unsent", "done"}
                    /\ Same(r) /\ req'[r].pc = "done" /\ req'[r].stage = req[r].stage
                    /\ req'[r].base = req[r].base /\ req'[r].result = req[r].result
                    /\ req'[r].answer = IF req[r].answer = "none" THEN "lost" ELSE req[r].answer
<1>1. \A r \in Requests : req[r] \in Tickets
  BY DEF Control, TypeOK
<1>2. \A r \in Requests :
          req'[r] = IF req[r].pc \notin {"unsent", "done"} /\ proc(r) = p
                    THEN [req[r] EXCEPT !.pc = "done", !.answer = IF @ = "none" THEN "lost" ELSE @]
                    ELSE req[r]
  BY DEF Crash
<1>3. ASSUME NEW r \in Requests PROVE req'[r] \in Tickets
  <2>1. \A y \in {"none", "ok", "error", "refused", "timeout", "lost"} :
            [req[r] EXCEPT !.pc = "done", !.answer = y] \in Tickets
    <3>1. req[r] \in Tickets
      BY <1>1
    <3> QED BY <3>1 DEF Tickets
  <2>2. req[r].answer \in {"none", "ok", "error", "refused", "timeout", "lost"}
    BY <1>1 DEF Tickets
  <2>3. CASE req[r].answer = "none"
    BY <1>1, <1>2, <2>1, <2>3
  <2>4. CASE req[r].answer # "none"
    BY <1>1, <1>2, <2>1, <2>2, <2>4
  <2> QED BY <2>3, <2>4
<1>4. req' = [r \in Requests |-> req'[r]]
  BY DEF Crash
<1>5. req' \in [Requests -> Tickets]
  BY <1>3, <1>4
<1>6. ASSUME NEW r \in Requests, req[r].pc \notin {"unsent", "done"}, proc(r) = p
      PROVE  /\ Same(r) /\ req'[r].pc = "done" /\ req'[r].stage = req[r].stage
             /\ req'[r].base = req[r].base /\ req'[r].result = req[r].result
             /\ req'[r].answer = IF req[r].answer = "none" THEN "lost" ELSE req[r].answer
  BY <1>1, <1>2, <1>6 DEF Tickets, Same
<1> QED BY <1>2, <1>5, <1>6

(* A crash of one process keeps the order of all. *)
LEMMA CrashKeeps ==
    ASSUME Control, NEW p \in site.procs, Crash(p), site' = site
    PROVE  Control'
<1>1. p \in Procs
  BY CloudAssumption DEF Control, TypeOK, IsSite
<1>2. /\ req' \in [Requests -> Tickets]
      /\ \A r \in Requests : proc(r) # p \/ req[r].pc \in {"unsent", "done"} => req'[r] = req[r]
      /\ \A r \in Requests : proc(r) = p /\ req[r].pc \notin {"unsent", "done"} =>
            Same(r) /\ req'[r].pc = "done" /\ req'[r].stage = req[r].stage
  BY CrashTickets
<1>3. /\ UNCHANGED disk
      /\ \A k \in LockKeys : lock'[k] = IF lock[k] # NoOne /\ proc(lock[k]) = p THEN NoOne ELSE lock[k]
      /\ lock' \in [LockKeys -> Requests \cup {NoOne}]
      /\ \A q \in Procs : busy'[q] = IF q = p THEN NoOne ELSE busy[q]
      /\ busy' \in [Procs -> Requests \cup {NoOne}]
  BY <1>1 DEF Crash, Control, TypeOK
<1>4. /\ chain' \in [Procs -> [LockKeys -> Seq(Requests)]]
      /\ \A q \in Procs, k \in LockKeys : chain'[q][k] = IF q = p THEN <<>> ELSE chain[q][k]
  <2>1. chain' = [chain EXCEPT ![p] = [k \in LockKeys |-> <<>>]]
    BY DEF Crash
  <2>2. [k \in LockKeys |-> <<>>] \in [LockKeys -> Seq(Requests)]
    OBVIOUS
  <2>3. chain \in [Procs -> [LockKeys -> Seq(Requests)]]
    BY DEF Control, TypeOK
  <2> QED BY <1>1, <2>1, <2>2, <2>3
<1>5. /\ cache' \in [Procs -> [Keys -> Files]]
      /\ \A q \in Procs, k \in Keys : cache'[q][k].id <= stamps'
  <2>1. /\ cache' = [cache EXCEPT ![p] = [k \in Keys |-> NoFile]] /\ stamps' = stamps
        /\ cache \in [Procs -> [Keys -> Files]] /\ stamps \in Nat
        /\ \A q \in Procs, k \in Keys : cache[q][k].id <= stamps
    BY DEF Crash, disk, Control, TypeOK
  <2>2. [k \in Keys |-> NoFile] \in [Keys -> Files] /\ NoFile.id = 0
    BY FilesTyped DEF NoFile
  <2>3. \A q \in Procs, k \in Keys : cache'[q][k] = IF q = p THEN NoFile ELSE cache[q][k]
    BY <1>1, <2>1
  <2>4. cache' \in [Procs -> [Keys -> Files]]
    BY <1>1, <2>1, <2>2
  <2> QED BY <2>1, <2>2, <2>3, <2>4
<1>6. TypeOK'
  <2>1. faults' \in 0..site.faults
    BY FaultTyped DEF Crash
  <2> QED BY <1>2, <1>3, <1>4, <1>5, <2>1 DEF Control, TypeOK, disk
<1>7. Courses'
  <2> SUFFICES ASSUME NEW r \in Requests PROVE Course(r)'
    BY DEF Courses
  <2>1. Course(r)
    BY DEF Control, Courses
  <2>2. CASE req'[r] = req[r]
    BY <2>1, <2>2 DEF Course, Guarded, AnyToken, proc, key
  <2>3. CASE req'[r] # req[r]
    BY <1>2, <2>1, <2>3 DEF Course, Same, proc, key, Guarded, AnyToken, Inside
  <2> QED BY <2>2, <2>3
<1>8. \A r \in Requests :
          /\ proc(r)' = proc(r) /\ LockKey(r)' = LockKey(r)
          /\ Guarded(r)' <=> Guarded(r)
          /\ InSection(r)' <=> InSection(r) /\ proc(r) # p
          /\ Linked(r)' <=> Linked(r) /\ proc(r) # p
          /\ Linked(r)' => req'[r] = req[r]
  BY <1>2 DEF Same, proc, key, LockKey, Guarded, InSection, Linked, Inside
<1>9. NoOne \notin Requests
  BY CloudAssumption
<1>10. Exclusion'
  <2>1. ASSUME NEW q \in Procs, NEW r \in Requests
        PROVE  (busy[q] = r <=> InSection(r) /\ proc(r) = q)'
    <3>1. busy[q] = r <=> InSection(r) /\ proc(r) = q
      BY DEF Control, Exclusion
    <3> QED BY <1>3, <1>8, <1>9, <3>1
  <2>2. ASSUME NEW k \in LockKeys, NEW r \in Requests
        PROVE  (lock[k] = r <=> InSection(r) /\ Guarded(r) /\ LockKey(r) = k)'
    <3>1. lock[k] = r <=> InSection(r) /\ Guarded(r) /\ LockKey(r) = k
      BY DEF Control, Exclusion
    <3> QED BY <1>3, <1>8, <1>9, <3>1
  <2> QED BY <2>1, <2>2 DEF Exclusion
<1>11. Queues'
  <2>1. ASSUME NEW q \in Procs, NEW k \in LockKeys
        PROVE  /\ \A i \in 1..Len(chain'[q][k]) : IsLink(chain[q][k][i], q, k, i)'
               /\ \A i, j \in 1..Len(chain'[q][k]) : chain'[q][k][i] = chain'[q][k][j] => i = j
    <3>1. CASE q = p
      BY <1>4, <3>1
    <3>2. CASE q # p
      <4>1. chain'[q][k] = chain[q][k] /\ chain[q][k] \in Seq(Requests)
        BY <1>4, <3>2 DEF Control, TypeOK
      <4>2. ASSUME NEW i \in 1..Len(chain[q][k]) PROVE IsLink(chain[q][k][i], q, k, i)'
        <5> DEFINE o == chain[q][k][i]
        <5>1. o \in Requests /\ IsLink(o, q, k, i)
          BY <4>1 DEF Control, Queues
        <5>2. IsLink(o, q, k, i)'
          BY <1>8, <3>2, <4>1, <5>1 DEF IsLink
        <5> QED BY <5>2
      <4>3. \A i, j \in 1..Len(chain[q][k]) : chain[q][k][i] = chain[q][k][j] => i = j
        BY DEF Control, Queues
      <4> QED BY <4>1, <4>2, <4>3
    <3> QED BY <3>1, <3>2
  <2>2. ASSUME NEW o \in Requests, Linked(o)'
        PROVE  \E i \in 1..Len(chain[proc(o)][LockKey(o)])' : chain[proc(o)][LockKey(o)][i]' = o
    <3>1. Linked(o) /\ proc(o) # p /\ proc(o)' = proc(o) /\ LockKey(o)' = LockKey(o)
      BY <1>8, <2>2
    <3>2. proc(o) \in Procs /\ LockKey(o) \in LockKeys
      BY <3>1, Places DEF Linked, Inside
    <3> QED BY <1>4, <3>1, <3>2 DEF Control, Queues
  <2> QED BY <2>1, <2>2 DEF Queues
<1> QED BY <1>6, <1>7, <1>10, <1>11 DEF Control

(* Nothing is locked or queued at first. *)
LEMMA InitControl == Init => Control
<1> SUFFICES ASSUME Init PROVE Control
  OBVIOUS
<1>1. IsSite(site)
  BY CloudAssumption DEF Init
<1>2. Unsent \in Tickets
  BY FilesTyped DEF Unsent, Tickets
<1>3. /\ req = [r \in Requests |-> Unsent] /\ \A r \in Requests : req[r] = Unsent
  BY DEF Init
<1>4. TypeOK
  <2>1. /\ file = [k \in Keys |-> NoFile] /\ audio = {} /\ stamps = 0
        /\ lock = [k \in LockKeys |-> NoOne] /\ cache = [p \in Procs |-> [k \in Keys |-> NoFile]]
        /\ chain = [p \in Procs |-> [k \in LockKeys |-> <<>>]] /\ busy = [p \in Procs |-> NoOne]
        /\ site \in Sites /\ faults = 0
    BY DEF Init
  <2>2. NoFile \in Files /\ NoFile.id = 0 /\ <<>> \in Seq(Requests)
    BY FilesTyped DEF NoFile
  <2>3. faults \in 0..site.faults
    BY <1>1, <2>1 DEF IsSite
  <2>4. chain \in [Procs -> [LockKeys -> Seq(Requests)]] /\ cache \in [Procs -> [Keys -> Files]]
    BY <2>1, <2>2
  <2>5. req \in [Requests -> Tickets]
    BY <1>2, <1>3
  <2> QED BY <2>1, <2>2, <2>3, <2>4, <2>5 DEF TypeOK
<1>5. \A r \in Requests : ~InSection(r) /\ ~Linked(r)
  BY <1>3 DEF InSection, Inside, Linked, Unsent
<1>6. Exclusion
  BY <1>5, CloudAssumption DEF Init, Exclusion
<1>7. Queues
  <2>1. \A p \in Procs, k \in LockKeys : chain[p][k] = <<>>
    BY DEF Init
  <2> QED BY <1>5, <2>1 DEF Queues
<1>8. Courses
  BY <1>3 DEF Courses, Course, Unsent, Guarded, Unlocked
<1> QED BY <1>4, <1>6, <1>7, <1>8 DEF Control

(* A step that changes nothing keeps the order. *)
LEMMA UnchangedControl == Control /\ UNCHANGED vars => Control'
<1> SUFFICES ASSUME Control, UNCHANGED vars PROVE Control'
  OBVIOUS
<1>1. TypeOK'
  BY DEF Control, vars, TypeOK
<1>2. Exclusion'
  BY DEF Control, vars, Exclusion, InSection, Guarded, LockKey, proc, key
<1>3. Queues'
  BY DEF Control, vars, Queues, IsLink, Linked, Guarded, LockKey, proc, key
<1>4. Courses'
  BY DEF Control, vars, Courses, Course, Guarded, AnyToken, proc, key
<1> QED BY <1>1, <1>2, <1>3, <1>4 DEF Control

(* Every step keeps it. *)
LEMMA StepKeepsControl == Control /\ Next => Control'
<1> SUFFICES ASSUME Control, Next PROVE Control'
  OBVIOUS
<1>1. site' = site
  BY DEF Next
<1>2. ASSUME NEW r \in Requests, NEW p \in site.procs, NEW kind \in site.kinds, NEW k \in site.keys,
             Send(r, p, kind, k)
      PROVE  Control'
  BY <1>1, <1>2, SendKeeps
<1>3. ASSUME NEW r \in Requests, Callback(r) \/ Poll(r) \/ Finish(r) PROVE Control'
  BY <1>1, <1>3, EnterKeeps, BodyReadKeeps, StartRunKeeps, AbortKeeps, AcquireKeeps,
     LockTimedOutKeeps, FinishKeeps DEF Callback, Poll
<1>4. ASSUME NEW r \in Requests, Inner(r) PROVE Control'
  BY <1>1, <1>4, InnerKeeps
<1>5. ASSUME NEW p \in site.procs, Crash(p) PROVE Control'
  BY <1>1, <1>5, CrashKeeps
<1> QED BY <1>2, <1>3, <1>4, <1>5 DEF Next, Step, Section, Inner

-----------------------------------------------------------------------------
(* Namespaces *)

(* What a write to the data directory does to files and caches. *)
LEMMA Publishes ==
    ASSUME Control, NEW r \in Requests, Initialize(r) \/ Write(r), site' = site
    PROVE  /\ key(r) \in Keys /\ proc(r) \in Procs
           /\ \A k \in Keys \ {key(r)} : file'[k] = file[k]
           /\ stamps' >= stamps
           /\ \/ file' = file /\ stamps' = stamps
              \/ file'[key(r)] = [id |-> stamps + 1, doc |-> IF Write(r) THEN Changed(r) ELSE Empty]
           /\ req'[r].result # "error" => file'[key(r)].id = stamps + 1
           /\ \A p \in Procs, k \in Keys :
                 \/ cache'[p][k] \in {cache[p][k], NoFile}
                 \/ p = proc(r) /\ k = key(r) /\ cache'[p][k] = file'[k]
<1>1. req[r].pc # "unsent"
  BY DEF Initialize, Write
<1>2. key(r) \in Keys /\ proc(r) \in Procs
  BY <1>1, Places
<1>3. CASE Initialize(r)
  <2>1. PICK outcome \in Outcomes :
            WriteCloudData(r, Empty, outcome) /\ Conclude(r, IF outcome = "ok" THEN "admitted" ELSE "error")
    BY <1>3 DEF Initialize
  <2>2. ~Write(r)
    BY <1>3 DEF Initialize, Write
  <2>3. outcome # "ok" => req'[r].result = "error"
    BY <2>1, ConcludedGoes DEF Goes
  <2> QED BY <1>1, <1>2, <2>1, <2>2, <2>3, Written, FilesTyped
<1>4. CASE Write(r)
  <2>1. PICK outcome \in Outcomes :
            WriteCloudData(r, Changed(r), outcome) /\ Conclude(r, IF outcome = "ok" THEN "ok" ELSE "error")
    BY <1>4 DEF Write
  <2>2. outcome # "ok" => req'[r].result = "error"
    BY <2>1, ConcludedGoes DEF Goes
  <2> QED BY <1>1, <1>2, <1>4, <2>1, <2>2, Written, ChangedTyped
<1> QED BY <1>3, <1>4

(* The file it publishes is new. *)
LEMMA PublishedDoc ==
    ASSUME Control, NEW r \in Requests, Initialize(r) \/ Write(r), site' = site
    PROVE  /\ file' = file \/ file'[key(r)].doc = IF Write(r) THEN Changed(r) ELSE Empty
           /\ file' = file \/ file'[key(r)].id = stamps + 1
<1>1. CASE file'[key(r)] = [id |-> stamps + 1, doc |-> IF Write(r) THEN Changed(r) ELSE Empty]
  <2> DEFINE doc == IF Write(r) THEN Changed(r) ELSE Empty
  <2>1. file'[key(r)] = [id |-> stamps + 1, doc |-> doc]
    BY <1>1
  <2> HIDE DEF doc
  <2>2. file'[key(r)].doc = doc /\ file'[key(r)].id = stamps + 1
    BY <2>1
  <2> QED BY <2>2 DEF doc
<1> QED BY <1>1, Publishes

(* Only a publication changes a file. *)
LEMMA OnlyPublished ==
    ASSUME Next, \A r \in Requests : ~Initialize(r) /\ ~Write(r)
    PROVE  UNCHANGED <<file, stamps>>
BY DEF Next, Step, Send, Callback, Poll, Section, Enter, BodyRead, StartRun, Abort, Acquire, LockTimedOut,
       Reserve, LoadHit, LoadRead, Remember, LoadUnreadable, AnswerRead, CheckIfMatch, AcceptWrite,
       StoreCapture, CollectOrphans, Finish, Crash, disk

(* A namespace that exists stays. *)
LEMMA ExistsForGood ==
    ASSUME Control, Next
    PROVE  \A k \in Keys : Exists(k) => Exists(k)'
<1>1. site' = site /\ stamps \in Nat /\ \A k \in Keys : file[k].id \in Nat
  BY DEF Next, Control, TypeOK, Files
<1>2. ASSUME NEW r \in Requests, Initialize(r) \/ Write(r), NEW k \in Keys, Exists(k) PROVE Exists(k)'
  <2>1. CASE k = key(r)
    <3>1. CASE file' = file
      BY <1>2, <3>1 DEF Exists
    <3>2. CASE file'[key(r)] = [id |-> stamps + 1, doc |-> IF Write(r) THEN Changed(r) ELSE Empty]
      <4>1. file'[key(r)].id = stamps + 1
        BY <3>2
      <4> QED BY <1>1, <2>1, <4>1 DEF Exists
    <3> QED BY <1>1, <1>2, <3>1, <3>2, Publishes
  <2>2. CASE k # key(r)
    BY <1>1, <1>2, <2>2, Publishes DEF Exists
  <2> QED BY <2>1, <2>2
<1> QED BY <1>2, OnlyPublished DEF Exists

(* Only the admission's write creates one. *)
LEMMA NamespacesGrow ==
    ASSUME Control, Admitted, AnyToken, Next
    PROVE  \/ Namespaces' = Namespaces
           \/ \E r \in Requests : Initialize(r) /\ Namespaces' = Namespaces \cup {key(r)}
<1>1. site' = site /\ stamps \in Nat
  BY DEF Next, Control, TypeOK
<1>2. ASSUME NEW r \in Requests, Write(r) PROVE Namespaces' = Namespaces
  <2>1. Settled(r)
    <3>1. Course(r) /\ req[r].stage \in {"handler", "admission"} /\ req[r].pc = "write"
      BY <1>2 DEF Control, Courses, TypeOK, Tickets, Write
    <3> QED BY <3>1 DEF Course, Settled
  <2>2. Exists(key(r))
    BY <2>1 DEF Admitted
  <2>3. \A k \in Keys : Exists(k)' <=> Exists(k)
    BY <1>1, <1>2, <2>2, Publishes, ExistsForGood DEF Exists
  <2> QED BY <2>3 DEF Namespaces
<1>3. ASSUME NEW r \in Requests, Initialize(r)
      PROVE  Namespaces' = Namespaces \/ Namespaces' = Namespaces \cup {key(r)}
  <2>1. \A k \in Keys \ {key(r)} : Exists(k)' <=> Exists(k)
    BY <1>1, <1>3, Publishes DEF Exists
  <2>2. \A k \in Keys : Exists(k) => Exists(k)'
    BY ExistsForGood
  <2>3. key(r) \in Keys
    BY <1>1, <1>3, Publishes
  <2>4. CASE Exists(key(r))'
    BY <2>1, <2>2, <2>3, <2>4 DEF Namespaces
  <2>5. CASE ~Exists(key(r))'
    BY <2>1, <2>2, <2>3, <2>5 DEF Namespaces
  <2> QED BY <2>4, <2>5
<1>4. CASE \A r \in Requests : ~Initialize(r) /\ ~Write(r)
  BY <1>4, OnlyPublished DEF Namespaces, Exists
<1> QED BY <1>2, <1>3, <1>4

-----------------------------------------------------------------------------
(* What a step does to a request outside its section's own steps: it is sent, *)
(* it waits, gives up or gets its turn, its handler returns, or its process   *)
(* dies.                                                                      *)
Arrives(r) ==
    /\ req[r].pc = "unsent" /\ req'[r].pc = "start" /\ req'[r].key \in site.keys
    /\ req'[r].stage = "handler" /\ req'[r].base = NoFile /\ req'[r].answer = "none"
    /\ req'[r].known = Acknowledged(req'[r].key)

Keeps(r) == Same(r) /\ req'[r].base = req[r].base /\ req'[r].result = req[r].result

Starts(r) ==
    /\ Keeps(r) /\ req[r].pc = "start" /\ req'[r].answer = req[r].answer
    /\ \/ req'[r].pc = "load" /\ ~Guarded(r) /\ req'[r].stage = "handler"
       \/ req'[r].pc = "queued" /\ req'[r].stage = "admission"
       \/ req'[r].pc = "body" /\ req'[r].stage = "handler" /\ (~AnyToken \/ Exists(key(r)))

Waits(r) ==
    /\ Keeps(r) /\ req[r].pc \in {"body", "queued", "polling"} /\ req'[r].stage = req[r].stage
    /\ req'[r].pc \in {"queued", "polling", "load", "reserve", "done"}
    /\ req'[r].answer \in {req[r].answer, "error", "timeout"}
    /\ req'[r].answer # req[r].answer => req[r].answer = "none"

Returns(r) ==
    /\ Keeps(r) /\ req[r].pc = "finish" /\ req'[r].stage = "handler"
    /\ req'[r].pc = IF req[r].result = "admitted" THEN "body" ELSE "done"
    /\ req'[r].answer = IF req[r].result = "admitted" THEN "none" ELSE req[r].result

Dies(r) ==
    /\ Keeps(r) /\ req[r].pc \notin {"unsent", "done"} /\ req'[r].pc = "done"
    /\ req'[r].stage = req[r].stage
    /\ req'[r].answer = IF req[r].answer = "none" THEN "lost" ELSE req[r].answer

Around(r) == req'[r] = req[r] \/ Arrives(r) \/ Starts(r) \/ Waits(r) \/ Returns(r) \/ Dies(r)

(* A step that is not inside a section leaves the data directory alone. *)
Quiet ==
    /\ UNCHANGED disk
    /\ \A p \in Procs, k \in Keys : cache'[p][k] \in {cache[p][k], NoFile}
    /\ \A r \in Requests : Around(r)

(* Every step is inside a section or quiet. *)
LEMMA QuietUnlessInner ==
    ASSUME Control, Next, \A r \in Requests : ~Inner(r)
    PROVE  Quiet
<1>0. /\ cache \in [Procs -> [Keys -> Files]] /\ site' = site
      /\ \A r \in Requests : Course(r) /\ req[r] \in Tickets
  BY DEF Next, Control, TypeOK, Courses
<1>1. ASSUME NEW r \in Requests, NEW p \in site.procs, NEW kind \in site.kinds, NEW k \in site.keys,
             Send(r, p, kind, k)
      PROVE  Quiet
  <2>1. /\ Only(r) /\ req'[r].pc = "start" /\ req'[r].key = k /\ req'[r].stage = "handler"
        /\ req'[r].base = NoFile /\ req'[r].answer = "none" /\ req'[r].known = Acknowledged(k)
    BY <1>0, <1>1, SendKeeps
  <2>2. req[r].pc = "unsent" /\ UNCHANGED <<disk, cache>>
    BY <1>1 DEF Send, memory
  <2> QED BY <2>1, <2>2 DEF Quiet, Around, Arrives, Only
<1>2. ASSUME NEW r \in Requests, Callback(r) \/ Poll(r) \/ Finish(r) PROVE Quiet
  <2>1. UNCHANGED <<disk, cache>>
    BY <1>2 DEF Callback, Poll, Enter, BodyRead, StartRun, Abort, Acquire, LockTimedOut, Finish
  <2>2. Only(r) /\ Around(r)
    <3>1. CASE Enter(r)
      <4>1. req[r].pc = "start" /\ req[r].stage = "handler"
        BY <1>0, <3>1 DEF Enter, Course, Tickets
      <4>2. CASE ~Guarded(r) /\ req' = [req EXCEPT ![r].pc = "load"]
        BY <4>1, <4>2, StepTicket DEF Inside, Around, Starts, Keeps
      <4>3. CASE Enqueue(r, "admission")
        BY <4>1, <4>3, EnqueueTicket DEF Around, Starts, Keeps
      <4>4. CASE (~AnyToken \/ Exists(key(r))) /\ req' = [req EXCEPT ![r].pc = "body"]
        BY <4>1, <4>4, StepTicket DEF Around, Starts, Keeps
      <4> QED BY <3>1, <4>2, <4>3, <4>4 DEF Enter, Guarded
    <3>2. CASE BodyRead(r)
      <4>1. req[r].pc = "body" /\ req[r].stage = "handler" /\ Enqueue(r, "handler")
        BY <1>0, <3>2 DEF BodyRead, Course, Tickets
      <4> QED BY <4>1, EnqueueTicket DEF Around, Waits, Keeps
    <3>3. CASE StartRun(r)
      <4>1. req[r].pc = "queued" /\ \E pc \in {"done", "polling"} : req' = [req EXCEPT ![r].pc = pc]
        BY <3>3 DEF StartRun
      <4> QED BY <4>1, StepTicket DEF Around, Waits, Keeps
    <3>4. CASE Abort(r)
      <4>1. req[r].pc \in {"body", "queued", "polling"} /\ ~req[r].aborted
        BY <3>4 DEF Abort
      <4>2. req[r].answer = "none"
        BY <1>0, <4>1 DEF Course
      <4> QED BY <3>4, <4>1, <4>2, AbortTicket DEF Around, Waits, Keeps
    <3>5. CASE Acquire(r)
      <4>1. req[r].pc = "polling" /\ \E pc \in {"reserve", "load"} : req' = [req EXCEPT ![r].pc = pc]
        BY <3>5 DEF Acquire
      <4> QED BY <4>1, StepTicket DEF Around, Waits, Keeps, Inside
    <3>6. CASE LockTimedOut(r)
      <4>1. req[r].pc = "polling"
        BY <3>6 DEF LockTimedOut
      <4>2. req[r].answer = "none"
        BY <1>0, <4>1 DEF Course
      <4> QED BY <3>6, <4>1, <4>2, LockTimedOutTicket DEF Around, Waits, Keeps
    <3>7. CASE Finish(r)
      <4>1. req[r].pc = "finish"
        BY <3>7 DEF Finish
      <4> QED BY <3>7, <4>1, FinishTicket DEF Around, Returns, Keeps
    <3> QED BY <1>2, <3>1, <3>2, <3>3, <3>4, <3>5, <3>6, <3>7 DEF Callback, Poll
  <2> QED BY <2>1, <2>2 DEF Quiet, Around, Only
<1>3. ASSUME NEW p \in site.procs, Crash(p) PROVE Quiet
  <2>1. UNCHANGED disk /\ cache' = [cache EXCEPT ![p] = [k \in Keys |-> NoFile]]
    BY <1>3 DEF Crash
  <2>2. \A q \in Procs, k \in Keys : cache'[q][k] \in {cache[q][k], NoFile}
    BY <1>0, <2>1
  <2>3. ASSUME NEW r \in Requests PROVE Around(r)
    BY <1>3, CrashTickets DEF Around, Dies, Keeps
  <2> QED BY <2>1, <2>2, <2>3 DEF Quiet
<1> QED BY <1>1, <1>2, <1>3 DEF Next, Step, Section, Inner

-----------------------------------------------------------------------------
(* Admission *)

(* Two requests in sections under one lock, or in one process, are one. *)
LEMMA OneInSection ==
    ASSUME Control, NEW r \in Requests, NEW o \in Requests, InSection(r), InSection(o),
           \/ Guarded(r) /\ Guarded(o) /\ LockKey(r) = LockKey(o)
           \/ proc(r) = proc(o)
    PROVE  r = o
<1>1. req[r].pc # "unsent"
  BY DEF InSection, Inside
<1>2. proc(r) \in Procs /\ LockKey(r) \in LockKeys
  BY <1>1, Places
<1> QED BY <1>2 DEF Control, Exclusion

(* What a section's step does to the place of its request. *)
LEMMA InnerSettles ==
    ASSUME Control, Control', NEW r \in Requests, Inner(r), AnyToken, site' = site, Settled(r)'
    PROVE  Settled(r) \/ Exists(key(r))'
<1>1. /\ InSection(r) /\ Only(r) /\ Same(r) /\ req'[r].stage = req[r].stage /\ req'[r].pc \in Inside
  BY InnerStays
<1>2. Course(r) /\ req[r].stage \in {"handler", "admission"}
  BY DEF Control, Courses, TypeOK, Tickets
<1>3. Guarded(r) /\ req[r].kind # "gc"
  BY <1>1 DEF Settled, Guarded, Same
<1>4. CASE req[r].stage = "handler"
  BY <1>1, <1>3, <1>4 DEF Settled, InSection, Inside
<1>5. CASE req[r].stage = "admission"
  <2>1. req'[r].pc = "finish" /\ req'[r].result = "admitted"
    BY <1>1, <1>5 DEF Settled
  <2>2. Reserve(r) \/ Initialize(r)
    BY <1>2, <1>5 DEF Course, Inner, LoadHit, LoadRead, Remember, LoadUnreadable, AnswerRead, CheckIfMatch,
                      AcceptWrite, StoreCapture, CollectOrphans, Write
  <2>3. CASE Initialize(r)
    <3>1. /\ file'[key(r)].id = stamps + 1 /\ stamps \in Nat
      BY <2>1, <2>3, Publishes DEF Control, TypeOK
    <3>2. key(r)' = key(r)
      BY <1>1 DEF Same, key
    <3> QED BY <3>1, <3>2 DEF Exists
  <2>4. CASE Reserve(r)
    <3>1. UNCHANGED file
      BY <2>4 DEF Reserve, disk
    <3>2. CASE Exists(key(r))
      <4>1. key(r)' = key(r)
        BY <1>1 DEF Same, key
      <4> QED BY <3>1, <3>2, <4>1 DEF Exists
    <3>3. CASE Conclude(r, "refused")
      BY <2>1, <3>3, ConcludedGoes DEF Goes
    <3>4. CASE req' = [req EXCEPT ![r].pc = "initialize"]
      BY <2>1, <3>4, MovedGoes DEF Goes, Inside
    <3> QED BY <1>3, <2>4, <3>2, <3>3, <3>4 DEF Reserve
  <2> QED BY <2>2, <2>3, <2>4
<1> QED BY <1>2, <1>4, <1>5

(* A step outside the sections settles no request without a namespace. *)
LEMMA AroundSettles ==
    ASSUME Control, NEW r \in Requests, Around(r), AnyToken, Settled(r)'
    PROVE  Settled(r) \/ Exists(key(r))
<1>1. Course(r) /\ req[r].stage \in {"handler", "admission"}
  BY DEF Control, Courses, TypeOK, Tickets
<1>2. CASE req'[r] = req[r]
  BY <1>2 DEF Settled, Guarded
<1>3. CASE Arrives(r)
  BY <1>3 DEF Arrives, Settled
<1>4. CASE Starts(r)
  BY <1>4 DEF Starts, Settled, Guarded, Keeps, Same
<1>5. CASE Waits(r)
  BY <1>1, <1>5 DEF Waits, Settled, Guarded, Keeps, Same
<1>6. CASE Returns(r)
  BY <1>1, <1>6 DEF Returns, Settled, Guarded, Keeps, Same, Course
<1>7. CASE Dies(r)
  BY <1>1, <1>7 DEF Dies, Settled
<1> QED BY <1>2, <1>3, <1>4, <1>5, <1>6, <1>7 DEF Around

(* A request that may write has its namespace. *)
LEMMA StepSettles ==
    ASSUME Control, Control', Next, AnyToken, Admitted, NEW o \in Requests, Settled(o)'
    PROVE  Exists(key(o))'
<1>0. site' = site
  BY DEF Next
<1>1. Settled(o) => Exists(key(o)) /\ key(o) \in Keys /\ req[o].pc \notin {"unsent", "done"}
  <2> SUFFICES ASSUME Settled(o) PROVE Exists(key(o)) /\ key(o) \in Keys /\ req[o].pc \notin {"unsent", "done"}
    OBVIOUS
  <2>1. req[o].pc \notin {"unsent", "done"}
    BY DEF Settled
  <2> QED BY <2>1, Places DEF Admitted
<1>2. CASE \A r \in Requests : ~Inner(r)
  <2>1. Quiet
    BY <1>2, QuietUnlessInner
  <2>2. Around(o) /\ file' = file
    BY <2>1 DEF Quiet, disk
  <2>3. Exists(key(o)) /\ req[o].pc # "unsent"
    <3>1. req[o].pc = "unsent" => req'[o].pc \in {"unsent", "start"}
      BY <2>2 DEF Around, Arrives, Starts, Waits, Returns, Dies
    <3>2. req[o].pc = "unsent" => req[o].stage = "handler"
      BY DEF Control, Courses, Course, TypeOK, Tickets
    <3>3. req[o].pc = "unsent" => req'[o].stage = "handler"
      BY <2>2, <3>2 DEF Around, Arrives, Starts, Waits, Returns, Dies
    <3>4. req[o].pc # "unsent"
      BY <3>1, <3>3 DEF Settled
    <3> QED BY <1>1, <2>2, <3>4, AroundSettles
  <2>4. key(o)' = key(o)
    BY <2>2, <2>3 DEF Around, Arrives, Starts, Waits, Returns, Dies, Keeps, Same, key
  <2> QED BY <2>2, <2>3, <2>4 DEF Exists
<1>3. ASSUME NEW r \in Requests, Inner(r) PROVE Exists(key(o))'
  <2>1. Only(r) /\ Same(r)
    BY <1>0, <1>3, InnerStays
  <2>2. key(o)' = key(o)
    BY <2>1 DEF Only, Same, key
  <2>3. CASE Settled(o)
    <3>1. Exists(key(o)) /\ key(o) \in Keys
      BY <1>1, <2>3
    <3> QED BY <2>2, <3>1, ExistsForGood DEF Exists
  <2>4. CASE ~Settled(o) /\ o = r
    BY <1>0, <1>3, <2>4, InnerSettles
  <2>5. CASE ~Settled(o) /\ o # r
    BY <2>1, <2>5 DEF Only, Settled, Guarded
  <2> QED BY <2>3, <2>4, <2>5
<1> QED BY <1>2, <1>3

(* The request that creates a namespace found room for it, and nobody else   *)
(* is between that check and the creation.                                   *)
LEMMA Creating ==
    ASSUME Control, Control', Next, AnyToken, Admitted, NEW o \in Requests, req'[o].pc = "initialize"
    PROVE  /\ req[o].kind # "gc" /\ ~Exists(key(o)) /\ Cardinality(Namespaces) < MaxNamespaces
           /\ Same(o) /\ Namespaces' = Namespaces
<1>0. site' = site
  BY DEF Next
<1>1. CASE \A r \in Requests : ~Inner(r)
  <2>1. Quiet
    BY <1>1, QuietUnlessInner
  <2>2. req'[o] = req[o] /\ file' = file
    BY <2>1 DEF Quiet, Around, Arrives, Starts, Waits, Returns, Dies, disk
  <2>3. Same(o) /\ Namespaces' = Namespaces
    BY <2>2 DEF Same, Namespaces, Exists
  <2> QED BY <2>2, <2>3 DEF Admitted
<1>2. ASSUME NEW r \in Requests, Inner(r), r # o
      PROVE  req'[o] = req[o] /\ Same(o) /\ Namespaces' = Namespaces
  <2>1. req'[o] = req[o] /\ Same(o)
    BY <1>0, <1>2, InnerStays DEF Only, Same
  <2>2. ASSUME NEW q \in Requests, Initialize(q) PROVE FALSE
    <3>1. Inner(q) /\ req[q].pc = "initialize"
      BY <2>2 DEF Inner, Initialize
    <3>2. req'[q].pc = "finish"
      BY <2>2, WriteGoes DEF Goes
    <3>3. q # o
      BY <3>2
    <3>4. /\ req[o].stage = "admission" /\ req[q].stage = "admission" /\ Guarded(o) /\ Guarded(q)
          /\ InSection(o) /\ InSection(q)
      BY <2>1, <3>1 DEF Control, Courses, Course, InSection, Inside
    <3> QED BY <3>3, <3>4, OneInSection DEF LockKey
  <2> QED BY <2>1, <2>2, NamespacesGrow
<1>3. CASE Inner(o)
  <2>1. Reserve(o)
    <3>1. Goes(o, {"initialize"}, {}) \/ ~Initialize(o)
      BY WriteGoes DEF Goes
    <3>2. ~(LoadHit(o) \/ LoadRead(o) \/ LoadUnreadable(o))
      <4>1. SUFFICES ASSUME LoadHit(o) \/ LoadRead(o) \/ LoadUnreadable(o) PROVE FALSE
        OBVIOUS
      <4>2. req[o].pc # "unsent"
        BY <4>1 DEF LoadHit, LoadRead, LoadUnreadable
      <4> QED BY <4>1, <4>2, LoadGoes DEF Goes
    <3>3. ~(AnswerRead(o) \/ CheckIfMatch(o) \/ AcceptWrite(o) \/ StoreCapture(o) \/ CollectOrphans(o))
      BY ApplyGoes DEF Goes
    <3>4. ~Remember(o) /\ ~Write(o) /\ ~Initialize(o)
      BY WriteGoes DEF Goes
    <3> QED BY <1>3, <3>2, <3>3, <3>4 DEF Inner
  <2>2. ~Conclude(o, "admitted") /\ ~Conclude(o, "refused")
    BY ConcludedGoes DEF Goes
  <2>3. /\ ~Exists(key(o)) /\ Cardinality(Namespaces) < MaxNamespaces /\ req[o].kind # "gc"
        /\ UNCHANGED file
    BY <2>1, <2>2 DEF Reserve, disk
  <2>4. Namespaces' = Namespaces
    BY <2>3 DEF Namespaces, Exists
  <2>5. Same(o)
    BY <1>0, <1>3, InnerStays
  <2> QED BY <2>3, <2>4, <2>5
<1>4. req'[o] = req[o] => req[o].kind # "gc" /\ ~Exists(key(o)) /\ Cardinality(Namespaces) < MaxNamespaces
  BY DEF Admitted
<1> QED BY <1>1, <1>2, <1>3, <1>4

(* Every step keeps the cap of namespaces. *)
LEMMA StepKeepsAdmitted == Control /\ Control' /\ Admitted /\ Next => Admitted'
<1> SUFFICES ASSUME Control, Control', Admitted, Next, AnyToken' PROVE Admitted'
  BY DEF Admitted
<1>1. AnyToken /\ MaxNamespaces \in Nat
  BY CloudAssumption DEF Next, AnyToken
<1>2. IsFiniteSet(Namespaces)' /\ (Cardinality(Namespaces) <= MaxNamespaces)'
  <2>1. IsFiniteSet(Namespaces) /\ Cardinality(Namespaces) \in Nat /\ Cardinality(Namespaces) <= MaxNamespaces
    BY <1>1, FS_CardinalityType DEF Admitted
  <2>2. CASE Namespaces' = Namespaces
    BY <2>1, <2>2
  <2>3. ASSUME NEW r \in Requests, Initialize(r), Namespaces' = Namespaces \cup {key(r)}
        PROVE  IsFiniteSet(Namespaces') /\ Cardinality(Namespaces') <= MaxNamespaces
    <3>1. Cardinality(Namespaces) < MaxNamespaces /\ ~Exists(key(r))
      BY <1>1, <2>3 DEF Initialize, Admitted
    <3>2. key(r) \notin Namespaces
      BY <3>1 DEF Namespaces
    <3>3. Cardinality(Namespaces') = Cardinality(Namespaces) + 1 /\ IsFiniteSet(Namespaces')
      BY <2>1, <2>3, <3>2, FS_AddElement
    <3> QED BY <1>1, <2>1, <3>1, <3>3
  <2> QED BY <1>1, <2>2, <2>3, NamespacesGrow
<1>3. ASSUME NEW o \in Requests, req'[o].pc = "initialize"
      PROVE  req'[o].kind # "gc" /\ ~Exists(key(o))' /\ (Cardinality(Namespaces) < MaxNamespaces)'
  <2>1. /\ req[o].kind # "gc" /\ ~Exists(key(o)) /\ Cardinality(Namespaces) < MaxNamespaces
        /\ Same(o) /\ Namespaces' = Namespaces
    BY <1>1, <1>3, Creating
  <2>2. key(o)' = key(o)
    BY <2>1 DEF Same, key
  <2>3. key(o)' \in Keys
    <3>1. Course(o)' /\ site' \in Sites
      BY DEF Control, Courses, TypeOK
    <3>2. key(o)' \in site'.keys
      BY <1>3, <3>1 DEF Course
    <3> QED BY <3>1, <3>2, CloudAssumption DEF IsSite
  <2>4. ~Exists(key(o))'
    BY <2>1, <2>2, <2>3 DEF Namespaces, Exists
  <2> QED BY <2>1, <2>4 DEF Same
<1>4. \A o \in Requests : Settled(o)' => Exists(key(o))'
  BY <1>1, StepSettles
<1> QED BY <1>2, <1>3, <1>4 DEF Admitted

(* There is no namespace at first. *)
LEMMA InitAdmitted == Init => Admitted
<1> SUFFICES ASSUME Init PROVE Admitted
  OBVIOUS
<1>1. Namespaces = {}
  BY DEF Init, Namespaces, Exists, NoFile
<1>2. IsFiniteSet({}) /\ Cardinality({}) = 0
  BY FS_EmptySet
<1>3. Cardinality(Namespaces) <= MaxNamespaces
  BY <1>1, <1>2, CloudAssumption
<1>4. \A r \in Requests : req[r].pc = "unsent" /\ req[r].stage = "handler"
  BY DEF Init, Unsent
<1>5. \A r \in Requests : req[r].pc # "initialize" /\ ~Settled(r)
  BY <1>4 DEF Settled
<1> QED BY <1>1, <1>2, <1>3, <1>5 DEF Admitted

-----------------------------------------------------------------------------
(* Documents *)

(* At most one of the retries of a capture is in a document, and one is when *)
(* a retry was acknowledged.                                                 *)
OneCapture == \A k \in Keys : \A a, b \in Captures \cap file[k].doc.changes : a = b
CaptureAnswered ==
    \A r \in Captures : req[r].answer = "ok" => Captures \cap file[key(r)].doc.changes # {}

(* What is stored and what has been said of it.                              *)
Data ==
    /\ CachesTrue /\ \A r \in Requests : BaseCurrent(r)
    /\ Landing /\ Reading
    /\ AcknowledgedStays /\ RefusedNeverLands /\ PatchSawAll /\ ReadsTrue
    /\ OneCapture /\ CaptureAnswered /\ AudioKept

(* The only way a document changes: a write adds its request.                *)
Lands(r) ==
    /\ Write(r) /\ req[r].kind \in {"post", "patch", "put", "capture"} /\ key(r) \in Keys
    /\ \A k \in Keys \ {key(r)} : file'[k] = file[k]
    /\ file'[key(r)].doc.changes = file[key(r)].doc.changes \cup {r}
    /\ file'[key(r)].doc.trail = IF req[r].kind = "patch" THEN Append(file[key(r)].doc.trail, r)
                                 ELSE file[key(r)].doc.trail

(* The types of files and of what requests have loaded. *)
LEMMA DocumentsTyped ==
    ASSUME Control
    PROVE  /\ \A k \in Keys : /\ file[k] \in Files /\ file[k].id \in Nat /\ file[k].doc \in Docs
                              /\ file[k].doc.changes \subseteq Requests
                              /\ file[k].doc.trail \in Seq(Requests)
           /\ \A r \in Requests : /\ req[r] \in Tickets /\ req[r].base \in Files
                                  /\ req[r].base.id \in Nat /\ req[r].base.doc \in Docs
                                  /\ req[r].base.doc.changes \subseteq Requests
                                  /\ req[r].base.doc.trail \in Seq(Requests)
                                  /\ req[r].known \subseteq Requests /\ req[r].seen \in Seq(Requests)
<1>1. \A f \in Files : /\ f.id \in Nat /\ f.doc \in Docs /\ f.doc.changes \subseteq Requests
                       /\ f.doc.trail \in Seq(Requests)
  BY DEF Files, Docs
<1>2. \A k \in Keys : file[k] \in Files
  BY DEF Control, TypeOK
<1>3. \A r \in Requests : req[r] \in Tickets
  BY DEF Control, TypeOK
<1>4. \A r \in Requests : req[r].base \in Files /\ req[r].known \subseteq Requests /\ req[r].seen \in Seq(Requests)
  BY <1>3 DEF Tickets
<1> QED BY <1>1, <1>2, <1>3, <1>4

(* A step changes no document, or a write lands in one. *)
LEMMA DocumentsStep ==
    ASSUME Control, Admitted, Data, Next
    PROVE  (\A k \in Keys : file'[k].doc = file[k].doc) \/ \E r \in Requests : Lands(r)
<1>0. site' = site
  BY DEF Next
<1>1. CASE \A r \in Requests : ~Initialize(r) /\ ~Write(r)
  BY <1>1, OnlyPublished
<1>2. ASSUME NEW r \in Requests, Initialize(r) PROVE \A k \in Keys : file'[k].doc = file[k].doc
  <2>1. req[r].pc = "initialize" /\ Course(r) /\ ~Write(r)
    BY <1>2 DEF Initialize, Write, Control, Courses
  <2>2. key(r) \in Keys /\ ~Exists(key(r))
    BY <1>0, <1>2, <2>1, Publishes DEF Course, Admitted
  <2>3. file[key(r)].doc = Empty
    BY <2>2 DEF Exists, Data, CachesTrue, NoFile
  <2>4. file' = file \/ file'[key(r)].doc = Empty
    BY <1>0, <1>2, <2>1, PublishedDoc
  <2> QED BY <1>0, <1>2, <2>3, <2>4, Publishes
<1>3. ASSUME NEW r \in Requests, Write(r)
      PROVE  (\A k \in Keys : file'[k].doc = file[k].doc) \/ Lands(r)
  <2>1. req[r].pc = "write" /\ Course(r) /\ BaseCurrent(r)
    BY <1>3 DEF Write, Control, Courses, Data
  <2>2. Guarded(r) /\ req[r].kind # "gc" /\ req[r].base.doc = file[key(r)].doc
    BY <2>1 DEF Course, BaseCurrent
  <2>3. /\ key(r) \in Keys /\ \A k \in Keys \ {key(r)} : file'[k] = file[k]
        /\ file' = file \/ file'[key(r)].doc = Changed(r)
    BY <1>0, <1>3, Publishes, PublishedDoc
  <2>4. CASE file' = file
    BY <2>4
  <2>5. CASE file'[key(r)].doc = Changed(r) /\ req[r].kind = "get"
    <3>1. Changed(r) = Empty /\ file[key(r)].doc = Empty
      BY <2>1, <2>2, <2>5 DEF Changed, BaseCurrent, NoFile
    <3> QED BY <2>3, <2>5, <3>1
  <2>6. CASE file'[key(r)].doc = Changed(r) /\ req[r].kind # "get"
    <3>1. req[r].kind \in {"post", "patch", "put", "capture"}
      BY <2>2, <2>6, DocumentsTyped DEF Tickets, Guarded, Unlocked
    <3>2. req[r].base.doc \in Docs
      BY DocumentsTyped
    <3>3. CASE req[r].kind = "patch"
      <4>1. Changed(r) = [changes |-> req[r].base.doc.changes \cup {r}, trail |-> Append(req[r].base.doc.trail, r)]
        BY <3>3 DEF Changed
      <4> QED BY <1>3, <2>2, <2>3, <2>6, <3>1, <3>3, <4>1 DEF Lands
    <3>4. CASE req[r].kind # "patch"
      <4>1. Changed(r) = [req[r].base.doc EXCEPT !.changes = @ \cup {r}]
        BY <2>6, <3>4 DEF Changed
      <4>2. /\ Changed(r).changes = req[r].base.doc.changes \cup {r}
            /\ Changed(r).trail = req[r].base.doc.trail
        BY <3>2, <4>1 DEF Docs
      <4> QED BY <1>3, <2>2, <2>3, <2>6, <3>1, <3>4, <4>2 DEF Lands
    <3> QED BY <3>3, <3>4
  <2> QED BY <2>3, <2>4, <2>5, <2>6
<1> QED BY <1>1, <1>2, <1>3

(* Changes stay, and what is new in a document has just been written there.  *)
LEMMA DocumentsGrow ==
    ASSUME Control, Admitted, Data, Next
    PROVE  /\ \A k \in Keys : file[k].doc.changes \subseteq file'[k].doc.changes
           /\ \A k \in Keys : \A o \in file'[k].doc.changes :
                  o \in file[k].doc.changes \/ (o \in Requests /\ Lands(o) /\ key(o) = k)
<1>1. CASE \A k \in Keys : file'[k].doc = file[k].doc
  BY <1>1
<1>2. ASSUME NEW r \in Requests, Lands(r)
      PROVE  /\ \A k \in Keys : file[k].doc.changes \subseteq file'[k].doc.changes
             /\ \A k \in Keys : \A o \in file'[k].doc.changes :
                    o \in file[k].doc.changes \/ (o = r /\ key(o) = k)
  <2>1. /\ \A k \in Keys \ {key(r)} : file'[k] = file[k]
        /\ file'[key(r)].doc.changes = file[key(r)].doc.changes \cup {r}
    BY <1>2 DEF Lands
  <2> QED BY <2>1
<1> QED BY <1>1, <1>2, DocumentsStep

(* A step moves one request inside its section, or is quiet.                 *)
LEMMA QuietOrInner ==
    ASSUME Control, Next
    PROVE  /\ site' = site
           /\ \/ Quiet
              \/ \E r \in Requests : /\ Inner(r) /\ InSection(r) /\ req[r].pc # "finish" /\ Only(r) /\ Same(r)
                                     /\ req'[r].stage = req[r].stage /\ req'[r].answer = req[r].answer
                                     /\ req'[r].pc \in Inside
<1>1. site' = site
  BY DEF Next
<1> QED BY <1>1, QuietUnlessInner, InnerStays

(* A request that was sent stays what it is. *)
LEMMA SameRequest ==
    ASSUME Control, Next, NEW o \in Requests
    PROVE  /\ req[o].pc # "unsent" => Same(o) /\ key(o)' = key(o) /\ proc(o)' = proc(o) /\ (Guarded(o)' <=> Guarded(o))
           /\ req[o].pc = "unsent" => req'[o].pc \in {"unsent", "start"}
<1>1. req'[o] = req[o] => Same(o)
  BY DEF Same
<1>2. CASE Quiet
  <2>1. Around(o)
    BY <1>2 DEF Quiet
  <2> QED BY <1>1, <2>1
      DEF Around, Arrives, Starts, Waits, Returns, Dies, Keeps, Same, key, proc, Guarded
<1>3. ASSUME NEW r \in Requests, InSection(r), Only(r), Same(r)
      PROVE  /\ Same(o) /\ key(o)' = key(o) /\ proc(o)' = proc(o) /\ (Guarded(o)' <=> Guarded(o))
             /\ req[o].pc = "unsent" => req'[o].pc = "unsent"
  <2>1. o = r \/ req'[o] = req[o]
    BY <1>3 DEF Only
  <2> QED BY <1>1, <1>3, <2>1 DEF Same, key, proc, Guarded, InSection, Inside
<1> QED BY <1>2, <1>3, QuietOrInner

(* Requests in a document have returned from their section, or are about to. *)
LEMMA StoredRequests ==
    ASSUME Control, Data, Next, NEW k \in Keys, NEW o \in file[k].doc.changes
    PROVE  /\ o \in Requests /\ Same(o) /\ key(o) = k /\ key(o)' = k
           /\ req[o].pc \in {"finish", "done"}
           /\ o \in Captures <=> o \in Captures'
<1>1. o \in Requests /\ key(o) = k /\ req[o].pc \in {"finish", "done"}
  BY DocumentsTyped DEF Data, Landing
<1>2. Same(o) /\ key(o)' = k
  BY <1>1, SameRequest
<1> QED BY <1>1, <1>2 DEF Captures, Same

(* A request in a document has passed its write. *)
LEMMA LandedReturn ==
    ASSUME Control, Admitted, Data, Next, NEW k \in Keys, NEW o \in file'[k].doc.changes
    PROVE  /\ o \in Requests /\ key(o)' = k /\ req'[o].pc \in {"finish", "done"}
           /\ req'[o].pc = "finish" => req'[o].stage = "handler" /\ req'[o].result \in {"ok", "error"}
<1>1. CASE o \in Requests /\ Lands(o) /\ key(o) = k
  <2>1. Write(o) /\ req[o].pc = "write"
    BY <1>1 DEF Lands, Write
  <2>2. Goes(o, {}, {"ok", "error"})
    BY <1>1, <2>1, WriteGoes
  <2>3. req[o].stage = "handler"
    BY <1>1, <2>1, DocumentsTyped DEF Control, Courses, Course, Tickets
  <2> QED BY <1>1, <2>2, <2>3 DEF Goes, Same, key
<1>2. CASE o \in file[k].doc.changes
  <2>1. o \in Requests /\ key(o)' = k /\ req[o].pc \in {"finish", "done"}
    BY <1>2, StoredRequests
  <2>2. req[o].pc = "finish" => req[o].stage = "handler" /\ req[o].result \in {"ok", "error"}
    BY <1>2 DEF Data, Landing
  <2>3. CASE Quiet
    <3>1. Around(o)
      BY <2>1, <2>3 DEF Quiet
    <3> QED BY <2>1, <2>2, <3>1 DEF Around, Arrives, Starts, Waits, Returns, Dies
  <2>4. ASSUME NEW r \in Requests, InSection(r), req[r].pc # "finish", Only(r) PROVE req'[o] = req[o]
    <3>1. r # o
      BY <2>1, <2>4 DEF InSection, Inside
    <3> QED BY <2>1, <2>4, <3>1 DEF Only
  <2> QED BY <2>1, <2>2, <2>3, <2>4, QuietOrInner
<1> QED BY <1>1, <1>2, DocumentsGrow

(* The history of an entity names changes of its document. *)
LEMMA TrailsStored ==
    ASSUME Control, Admitted, Data, Next, NEW k \in Keys
    PROVE  \A i \in DOMAIN file'[k].doc.trail : file'[k].doc.trail[i] \in file'[k].doc.changes
<1>1. \A i \in DOMAIN file[k].doc.trail : file[k].doc.trail[i] \in file[k].doc.changes
  BY DEF Data, Landing
<1>2. CASE file'[k].doc = file[k].doc
  BY <1>1, <1>2
<1>3. ASSUME NEW r \in Requests, Lands(r), k = key(r)
      PROVE  \A i \in DOMAIN file'[k].doc.trail : file'[k].doc.trail[i] \in file'[k].doc.changes
  <2>1. file'[k].doc.changes = file[k].doc.changes \cup {r} /\ file[k].doc.trail \in Seq(Requests)
    BY <1>3, DocumentsTyped DEF Lands
  <2>2. CASE file'[k].doc.trail = file[k].doc.trail
    BY <1>1, <2>1, <2>2
  <2>3. CASE file'[k].doc.trail = Append(file[k].doc.trail, r)
    BY <1>1, <2>1, <2>3
  <2> QED BY <1>3, <2>2, <2>3 DEF Lands
<1>4. ASSUME NEW r \in Requests, Lands(r), k # key(r) PROVE file'[k].doc = file[k].doc
  BY <1>4 DEF Lands
<1> QED BY <1>2, <1>3, <1>4, DocumentsStep

(* Where a handler's success comes from. *)
LEMMA Succeeds ==
    ASSUME Control, NEW r \in Requests, Inner(r), req'[r].pc = "finish", req'[r].result = "ok"
    PROVE  \/ AnswerRead(r) \/ CollectOrphans(r) \/ Write(r)
           \/ StoreCapture(r) /\ Replayed(r)
<1>1. ~Initialize(r) /\ ~Remember(r)
  BY WriteGoes DEF Goes
<1>2. ~Reserve(r)
  BY ReserveGoes DEF Goes
<1>3. ~(LoadHit(r) \/ LoadRead(r) \/ LoadUnreadable(r))
  <2> SUFFICES ASSUME LoadHit(r) \/ LoadRead(r) \/ LoadUnreadable(r) PROVE FALSE
    OBVIOUS
  <2>1. req[r].pc # "unsent"
    BY DEF LoadHit, LoadRead, LoadUnreadable
  <2> QED BY <2>1, LoadGoes DEF Goes
<1>4. ASSUME req' = [req EXCEPT ![r].pc = "write"] PROVE FALSE
  BY <1>4, MovedGoes DEF Goes, Inside
<1>5. ~Conclude(r, "refused") /\ ~Conclude(r, "error")
  BY ConcludedGoes DEF Goes
<1>6. ~CheckIfMatch(r) /\ ~AcceptWrite(r) /\ (StoreCapture(r) => Replayed(r))
  BY <1>4, <1>5 DEF CheckIfMatch, AcceptWrite, StoreCapture
<1> QED BY <1>1, <1>2, <1>3, <1>6 DEF Inner

(* A write that succeeds has published its document. *)
LEMMA WrittenWhenOk ==
    ASSUME Control, Data, Next, NEW r \in Requests, Write(r), req'[r].result = "ok"
    PROVE  key(r) \in Keys /\ file'[key(r)].doc = Changed(r)
<1>1. site' = site /\ \A k \in Keys : file[k].id <= stamps /\ file[k].id \in Nat /\ stamps \in Nat
  BY DocumentsTyped DEF Next, Control, TypeOK
<1>2. key(r) \in Keys /\ file'[key(r)].id = stamps + 1
  BY <1>1, Publishes
<1>3. file' # file
  BY <1>1, <1>2
<1> QED BY <1>1, <1>2, <1>3, PublishedDoc

(* A writer's document contains its change. *)
LEMMA ChangedContains ==
    ASSUME Control, NEW r \in Requests, req[r].kind # "get"
    PROVE  r \in Changed(r).changes
<1>1. req[r].base.doc \in Docs
  BY DocumentsTyped
<1>2. CASE req[r].kind = "patch"
  BY <1>2 DEF Changed
<1>3. CASE req[r].kind # "patch"
  <2>1. Changed(r) = [req[r].base.doc EXCEPT !.changes = @ \cup {r}]
    BY <1>3 DEF Changed
  <2> QED BY <1>1, <2>1 DEF Docs
<1> QED BY <1>2, <1>3

(* A handler that succeeded has landed its change, or met an earlier capture. *)
LEMMA FinishedWell ==
    ASSUME Control, Admitted, Data, Next, NEW o \in Requests,
           req'[o].pc = "finish", req'[o].result = "ok"
    PROVE  /\ req[o].pc # "unsent" /\ key(o) \in Keys /\ key(o)' = key(o)
           /\ req[o].kind \in {"post", "patch", "put"} => o \in file'[key(o)].doc.changes
           /\ req[o].kind = "capture" => Captures' \cap file'[key(o)].doc.changes # {}
<1>1. req[o].pc # "unsent"
  BY SameRequest
<1>2. key(o) \in Keys /\ key(o)' = key(o) /\ Same(o)
  BY <1>1, Places, SameRequest
<1>3. CASE req[o].pc = "finish" /\ req[o].result = "ok"
  <2>1. /\ req[o].kind \in {"post", "patch", "put"} => o \in file[key(o)].doc.changes
        /\ req[o].kind = "capture" => Captures \cap file[key(o)].doc.changes # {}
    BY <1>3 DEF Data, Landing
  <2>2. ASSUME NEW a \in Captures \cap file[key(o)].doc.changes
        PROVE  a \in Captures' \cap file'[key(o)].doc.changes
    BY <1>2, <2>2, StoredRequests, DocumentsGrow
  <2>3. file[key(o)].doc.changes \subseteq file'[key(o)].doc.changes
    BY <1>2, DocumentsGrow
  <2> QED BY <1>1, <1>2, <2>1, <2>2, <2>3
<1>4. CASE Inner(o)
  <2>1. Course(o) /\ BaseCurrent(o)
    BY DEF Control, Courses, Data
  <2>2. CASE AnswerRead(o) \/ CollectOrphans(o)
    BY <1>1, <1>2, <2>2 DEF AnswerRead, CollectOrphans
  <2>3. CASE Write(o)
    <3>1. file'[key(o)].doc = Changed(o)
      BY <2>3, WrittenWhenOk
    <3>2. req[o].kind # "get" => o \in file'[key(o)].doc.changes
      BY <3>1, ChangedContains
    <3>3. req[o].kind = "capture" => o \in Captures'
      BY <1>2 DEF Same, Captures
    <3> QED BY <1>1, <1>2, <3>2, <3>3
  <2>4. CASE StoreCapture(o) /\ Replayed(o)
    <3>1. req[o].pc = "apply" /\ req[o].kind = "capture" /\ UNCHANGED file
      BY <2>4 DEF StoreCapture
    <3>2. Captures \cap file[key(o)].doc.changes # {}
      BY <2>1, <2>4, <3>1 DEF Replayed, BaseCurrent, Guarded, Unlocked
    <3>3. PICK a \in Captures : a \in file[key(o)].doc.changes
      BY <3>2
    <3>4. a \in Captures'
      BY <1>2, <3>3, StoredRequests
    <3> QED BY <1>1, <1>2, <3>1, <3>3, <3>4
  <2> QED BY <1>4, <2>2, <2>3, <2>4, Succeeds
<1>5. req'[o] = req[o] \/ Inner(o)
  <2>1. CASE Quiet
    <3>1. Around(o)
      BY <2>1 DEF Quiet
    <3> QED BY <3>1 DEF Around, Arrives, Starts, Waits, Returns, Dies
  <2>2. ASSUME NEW r \in Requests, Inner(r), Only(r) PROVE req'[o] = req[o] \/ Inner(o)
    BY <2>2 DEF Only
  <2> QED BY <2>1, <2>2, QuietOrInner
<1> QED BY <1>3, <1>4, <1>5

(* Every step keeps what landing means. *)
LEMMA LandingStep == Control /\ Admitted /\ Data /\ Next => Landing'
<1> SUFFICES ASSUME Control, Admitted, Data, Next PROVE Landing'
  OBVIOUS
<1>1. ASSUME NEW o \in Requests, req'[o].pc = "finish", req'[o].result = "ok"
      PROVE  /\ req'[o].kind \in {"post", "patch", "put"} => o \in file'[key(o)'].doc.changes
             /\ req'[o].kind = "capture" => Captures' \cap file'[key(o)'].doc.changes # {}
  BY <1>1, FinishedWell, SameRequest DEF Same
<1>2. ASSUME NEW o \in Requests, req'[o].answer = "ok" PROVE req'[o].pc = "done"
  <2>1. req[o].answer = "ok" => req[o].pc = "done"
    BY DEF Data, Landing
  <2>2. CASE Quiet
    <3>1. Around(o)
      BY <2>2 DEF Quiet
    <3>2. Course(o)
      BY DEF Control, Courses
    <3> QED BY <1>2, <2>1, <3>1, <3>2 DEF Around, Arrives, Starts, Waits, Returns, Dies
  <2>3. ASSUME NEW r \in Requests, InSection(r), Only(r), req'[r].answer = req[r].answer
        PROVE  req'[o].pc = "done"
    BY <1>2, <2>1, <2>3 DEF Only, InSection, Inside
  <2> QED BY <2>2, <2>3, QuietOrInner
<1>3. \A k \in Keys : \A o \in file'[k].doc.changes :
          /\ key(o)' = k /\ req'[o].pc \in {"finish", "done"}
          /\ req'[o].pc = "finish" => req'[o].stage = "handler" /\ req'[o].result \in {"ok", "error"}
  BY LandedReturn
<1> QED BY <1>1, <1>2, <1>3, TrailsStored DEF Landing

(* A new file has an identity that no cached document has.                   *)
LEMMA CachesStep == Control /\ Data /\ Next => CachesTrue'
<1> SUFFICES ASSUME Control, Data, Next PROVE CachesTrue'
  OBVIOUS
<1>0. /\ site' = site /\ NoFile.id = 0 /\ stamps \in Nat
      /\ \A k \in Keys : file[k].id \in Nat /\ file[k].id <= stamps /\ (file[k].id = 0 => file[k] = NoFile)
      /\ \A p \in Procs, k \in Keys :
            /\ cache[p][k].id <= stamps /\ (cache[p][k].id = 0 => cache[p][k] = NoFile)
            /\ cache[p][k].id = file[k].id => cache[p][k] = file[k]
  BY DocumentsTyped DEF Next, NoFile, Control, TypeOK, Data, CachesTrue
<1>1. CASE UNCHANGED file /\ \A p \in Procs, k \in Keys : cache'[p][k] \in {cache[p][k], NoFile}
  BY <1>0, <1>1 DEF CachesTrue
<1>2. ASSUME NEW r \in Requests, Initialize(r) \/ Write(r) PROVE CachesTrue'
  <2>1. /\ key(r) \in Keys
        /\ \A k \in Keys \ {key(r)} : file'[k] = file[k]
        /\ file' = file \/ file'[key(r)].id = stamps + 1
        /\ \A p \in Procs, k \in Keys :
              cache'[p][k] \in {cache[p][k], NoFile} \/ cache'[p][k] = file'[k]
    BY <1>0, <1>2, Publishes, PublishedDoc
  <2>2. \A k \in Keys : file'[k] = file[k] \/ file'[k].id = stamps + 1
    BY <2>1
  <2>3. \A k \in Keys : file'[k].id = 0 => file'[k] = NoFile
    BY <1>0, <2>2
  <2>4. ASSUME NEW p \in Procs, NEW k \in Keys
        PROVE  /\ cache'[p][k].id = 0 => cache'[p][k] = NoFile
               /\ cache'[p][k].id = file'[k].id => cache'[p][k] = file'[k]
    <3>1. CASE cache'[p][k] = file'[k]
      BY <2>3, <3>1
    <3>2. CASE cache'[p][k] = NoFile
      BY <1>0, <2>3, <3>2
    <3>3. CASE cache'[p][k] = cache[p][k]
      <4>1. cache[p][k].id # stamps + 1
        BY <1>0
      <4> QED BY <1>0, <2>2, <3>3, <4>1
    <3> QED BY <2>1, <3>1, <3>2, <3>3
  <2> QED BY <2>3, <2>4 DEF CachesTrue
<1>3. ASSUME NEW r \in Requests, Remember(r) PROVE CachesTrue'
  <2>1. /\ UNCHANGED file /\ req[r].pc = "remember"
        /\ RememberParsed(proc(r), key(r), file[key(r)].id, req[r].base.doc)
    BY <1>3 DEF Remember, disk
  <2>2. key(r) \in Keys /\ proc(r) \in Procs
    BY <2>1, Places
  <2>3. req[r].base.doc = file[key(r)].doc
    BY <2>1 DEF Data, BaseCurrent
  <2>4. file[key(r)] = [id |-> file[key(r)].id, doc |-> req[r].base.doc]
    BY <2>2, <2>3, DocumentsTyped DEF Files
  <2>5. cache' = [cache EXCEPT ![proc(r)][key(r)] = file[key(r)]]
    BY <1>0, <2>1, <2>2, <2>4 DEF RememberParsed
  <2>6. \A p \in Procs, k \in Keys : cache'[p][k] = IF p = proc(r) /\ k = key(r) THEN file[k] ELSE cache[p][k]
    BY <2>2, <2>5 DEF Control, TypeOK
  <2> QED BY <1>0, <2>1, <2>6 DEF CachesTrue
<1>4. CASE Quiet
  BY <1>1, <1>4 DEF Quiet, disk
<1>5. ASSUME NEW r \in Requests, Inner(r), ~Initialize(r), ~Write(r), ~Remember(r) PROVE CachesTrue'
  <2>1. UNCHANGED <<file, cache>>
    BY <1>5 DEF Inner, Reserve, LoadHit, LoadRead, LoadUnreadable, AnswerRead, CheckIfMatch,
                AcceptWrite, StoreCapture, CollectOrphans, disk, memory
  <2> QED BY <1>1, <2>1
<1> QED BY <1>2, <1>3, <1>4, <1>5, QuietUnlessInner DEF Inner

(* What a document held stays, and an answer says no more than what landed.  *)
LEMMA AnswersStep ==
    Control /\ Admitted /\ Data /\ Next => AcknowledgedStays' /\ CaptureAnswered' /\ ReadsTrue'
<1> SUFFICES ASSUME Control, Admitted, Data, Next
             PROVE  AcknowledgedStays' /\ CaptureAnswered' /\ ReadsTrue'
  OBVIOUS
<1>1. ASSUME NEW o \in Requests, req'[o].answer = "ok"
      PROVE  /\ req[o].pc # "unsent" /\ Same(o) /\ key(o)' = key(o) /\ key(o) \in Keys
             /\ req'[o].base = req[o].base
             /\ \/ req[o].answer = "ok"
                \/ req[o].pc = "finish" /\ req[o].result = "ok"
  <2>1. req[o].answer = "ok" => req[o].pc = "done"
    BY DEF Data, Landing
  <2>2. CASE Quiet
    <3>1. Around(o)
      BY <2>2 DEF Quiet
    <3>2. \/ req[o].answer = "ok" /\ req'[o].base = req[o].base
          \/ req[o].pc = "finish" /\ req[o].result = "ok" /\ req'[o].base = req[o].base
      BY <1>1, <2>1, <3>1 DEF Around, Arrives, Starts, Waits, Returns, Dies, Keeps
    <3> QED BY <2>1, <3>2, SameRequest, Places
  <2>3. ASSUME NEW r \in Requests, InSection(r), Only(r), req'[r].answer = req[r].answer
        PROVE  req'[o] = req[o]
    BY <1>1, <2>1, <2>3 DEF Only, InSection, Inside
  <2> QED BY <1>1, <2>1, <2>2, <2>3, SameRequest, Places, QuietOrInner
<1>2. AcknowledgedStays'
  <2> SUFFICES ASSUME NEW k \in Keys, NEW o \in Acknowledged(k)' PROVE o \in file'[k].doc.changes
    BY DEF AcknowledgedStays
  <2>1. /\ o \in Requests /\ req'[o].answer = "ok" /\ key(o)' = k
        /\ req'[o].kind \in {"post", "patch", "put"}
    BY DEF Acknowledged
  <2>2. key(o) = k /\ req[o].kind \in {"post", "patch", "put"}
    BY <1>1, <2>1 DEF Same
  <2>3. o \in file[k].doc.changes
    BY <1>1, <2>1, <2>2 DEF Data, AcknowledgedStays, Acknowledged, Landing
  <2> QED BY <2>3, DocumentsGrow
<1>3. CaptureAnswered'
  <2> SUFFICES ASSUME NEW o \in Captures', req'[o].answer = "ok"
               PROVE  Captures' \cap file'[key(o)'].doc.changes # {}
    BY DEF CaptureAnswered
  <2>1. o \in Requests /\ o \in Captures /\ key(o)' = key(o) /\ key(o) \in Keys
    BY <1>1 DEF Captures, Same
  <2>2. Captures \cap file[key(o)].doc.changes # {}
    BY <1>1, <2>1 DEF Data, CaptureAnswered, Landing, Captures
  <2>3. PICK a \in Captures : a \in file[key(o)].doc.changes
    BY <2>2
  <2>4. a \in Captures' /\ a \in file'[key(o)].doc.changes
    BY <2>1, <2>3, StoredRequests, DocumentsGrow
  <2> QED BY <2>1, <2>4
<1>4. ReadsTrue'
  <2> SUFFICES ASSUME NEW o \in Requests, req'[o].answer = "ok", req'[o].kind \in {"get", "list"}
               PROVE  /\ req'[o].known \subseteq req'[o].base.doc.changes
                      /\ req'[o].base.doc.changes \subseteq file'[key(o)'].doc.changes
    BY DEF ReadsTrue
  <2>1. /\ req[o].kind \in {"get", "list"} /\ req'[o].known = req[o].known
        /\ req'[o].base = req[o].base /\ key(o)' = key(o) /\ key(o) \in Keys
    BY <1>1 DEF Same
  <2>2. /\ req[o].known \subseteq req[o].base.doc.changes
        /\ req[o].base.doc.changes \subseteq file[key(o)].doc.changes
    BY <1>1, <2>1 DEF Data, ReadsTrue, Reading
  <2> QED BY <2>1, <2>2, DocumentsGrow
<1> QED BY <1>2, <1>3, <1>4

(* A refused request had landed nowhere, and one that gave up has no section *)
(* left to run.                                                              *)
LEMMA RefusedStep == Control /\ Control' /\ Admitted /\ Data /\ Next => RefusedNeverLands'
<1> SUFFICES ASSUME Control, Control', Admitted, Data, Next,
                    NEW o \in Requests, req'[o].answer \in {"timeout", "refused"},
                    o \in file'[key(o)'].doc.changes
             PROVE  FALSE
  BY DEF RefusedNeverLands
<1>1. req[o].pc # "unsent"
  <2>1. Course(o)'
    BY DEF Control, Courses
  <2>2. req'[o].pc \notin {"unsent", "start"}
    BY <2>1 DEF Course
  <2> QED BY <2>2, SameRequest
<1>2. key(o) \in Keys /\ key(o)' = key(o) /\ Course(o)
  BY <1>1, Places, SameRequest DEF Control, Courses
<1>3. CASE Lands(o)
  <2>1. Write(o) /\ req[o].pc = "write"
    BY <1>3 DEF Lands, Write
  <2>2. req'[o].answer = req[o].answer
    BY <2>1, WriteGoes DEF Goes
  <2> QED BY <1>2, <2>1, <2>2 DEF Course
<1>4. CASE o \in file[key(o)].doc.changes
  <2>1. /\ req[o].pc \in {"finish", "done"} /\ req[o].answer \notin {"timeout", "refused"}
        /\ req[o].pc = "finish" => req[o].result \in {"ok", "error"}
    BY <1>2, <1>4 DEF Data, Landing, RefusedNeverLands
  <2>2. CASE Quiet
    <3>1. Around(o)
      BY <2>2 DEF Quiet
    <3> QED BY <2>1, <3>1 DEF Around, Arrives, Starts, Waits, Returns, Dies
  <2>3. ASSUME NEW r \in Requests, Only(r), req'[r].answer = req[r].answer PROVE FALSE
    BY <2>1, <2>3 DEF Only
  <2> QED BY <2>2, <2>3, QuietOrInner
<1> QED BY <1>2, <1>3, <1>4, DocumentsGrow

(* A history that grows keeps its prefixes. *)
LEMMA AppendedPrefix ==
    ASSUME NEW s \in Seq(Requests), NEW x \in Requests
    PROVE  /\ SubSeq(s, 1, Len(s)) = s
           /\ \A i \in 1..(Len(s) + 1) : SubSeq(Append(s, x), 1, i - 1) = SubSeq(s, 1, i - 1)
OBVIOUS

(* A PATCH is accepted on the history it has seen, under the lock it lands   *)
(* with.                                                                     *)
LEMMA PatchesStep == Control /\ Admitted /\ Data /\ Next => PatchSawAll'
<1> SUFFICES ASSUME Control, Admitted, Data, Next, NEW k \in Keys
             PROVE  \A i \in 1..Len(file'[k].doc.trail) :
                        req'[file'[k].doc.trail[i]].seen = SubSeq(file'[k].doc.trail, 1, i - 1)
  BY DEF PatchSawAll
<1> DEFINE t == file[k].doc.trail
<1>1. t \in Seq(Requests) /\ \A i \in 1..Len(t) : req[t[i]].seen = SubSeq(t, 1, i - 1)
  BY DocumentsTyped DEF Data, PatchSawAll
<1>2. \A i \in 1..Len(t) : req'[t[i]].seen = SubSeq(t, 1, i - 1)
  <2> SUFFICES ASSUME NEW i \in 1..Len(t) PROVE req'[t[i]].seen = req[t[i]].seen
    BY <1>1
  <2>1. t[i] \in file[k].doc.changes
    BY <1>1 DEF Data, Landing
  <2> QED BY <2>1, StoredRequests DEF Same
<1>3. CASE file'[k].doc.trail = t
  BY <1>2, <1>3
<1>4. ASSUME NEW r \in Requests, Lands(r), k = key(r), file'[k].doc.trail = Append(t, r),
             req[r].kind = "patch"
      PROVE  \A i \in 1..Len(file'[k].doc.trail) :
                 req'[file'[k].doc.trail[i]].seen = SubSeq(file'[k].doc.trail, 1, i - 1)
  <2>1. req[r].pc = "write" /\ BaseCurrent(r) /\ Guarded(r) /\ Same(r)
    <3>1. req[r].pc = "write"
      BY <1>4 DEF Lands, Write
    <3> QED BY <1>4, <3>1, SameRequest DEF Data, Guarded, Unlocked
  <2>2. req'[r].seen = t
    BY <1>4, <2>1 DEF BaseCurrent, Same
  <2> HIDE DEF t
  <2>3. Len(Append(t, r)) = Len(t) + 1 /\ Append(t, r)[Len(t) + 1] = r
        /\ \A i \in 1..Len(t) : Append(t, r)[i] = t[i]
    BY <1>1
  <2>4. \A i \in 1..(Len(t) + 1) : req'[Append(t, r)[i]].seen = SubSeq(t, 1, i - 1)
    <3> SUFFICES ASSUME NEW i \in 1..(Len(t) + 1)
                 PROVE  req'[Append(t, r)[i]].seen = SubSeq(t, 1, i - 1)
      OBVIOUS
    <3>1. CASE i = Len(t) + 1
      BY <1>1, <2>2, <2>3, <3>1, AppendedPrefix
    <3>2. CASE i \in 1..Len(t)
      BY <1>2, <2>3, <3>2
    <3>3. Len(t) \in Nat
      BY <1>1
    <3> QED BY <3>1, <3>2, <3>3
  <2> QED BY <1>1, <1>4, <2>3, <2>4, AppendedPrefix
<1>5. file'[k].doc = file[k].doc => file'[k].doc.trail = t
  OBVIOUS
<1> QED BY <1>3, <1>4, <1>5, DocumentsStep DEF Lands

(* A capture is written when the document it was loaded with holds none.     *)
LEMMA OneCaptureStep == Control /\ Admitted /\ Data /\ Next => OneCapture'
<1> SUFFICES ASSUME Control, Admitted, Data, Next, NEW k \in Keys,
                    NEW a \in Captures', NEW b \in Captures',
                    a \in file'[k].doc.changes, b \in file'[k].doc.changes
             PROVE  a = b
  BY DEF OneCapture
<1>1. \A c \in {a, b} : c \in file[k].doc.changes => c \in Captures
  BY StoredRequests
<1>2. CASE a \in file[k].doc.changes /\ b \in file[k].doc.changes
  BY <1>1, <1>2 DEF Data, OneCapture
<1>3. ASSUME NEW r \in Requests, Lands(r), key(r) = k, r \in Captures'
      PROVE  Captures \cap file[k].doc.changes = {}
  <2>1. req[r].pc = "write" /\ BaseCurrent(r)
    BY <1>3 DEF Lands, Write, Data
  <2>2. req[r].kind = "capture"
    BY <1>3, <2>1, SameRequest DEF Captures, Same
  <2> QED BY <1>3, <2>1, <2>2 DEF BaseCurrent, Guarded, Unlocked
<1>4. ASSUME NEW c \in {a, b}, c \notin file[k].doc.changes PROVE c \in Requests /\ Lands(c) /\ key(c) = k
  BY <1>4, DocumentsGrow
<1>5. ASSUME a # b PROVE FALSE
  <2>1. CASE a \notin file[k].doc.changes /\ b \notin file[k].doc.changes
    <3>1. InSection(a) /\ InSection(b) /\ Running(a) /\ Only(a) /\ Only(b)
          /\ req'[a].pc = "finish" /\ req[a].pc = "write"
      <4>1. Write(a) /\ Write(b) /\ a \in Requests /\ b \in Requests
        BY <1>4, <2>1 DEF Lands
      <4> QED BY <4>1, WriteGoes DEF Goes, Write, InSection, Inside
    <3>2. req'[a] = req[a]
      BY <1>5, <3>1, <1>4, <2>1 DEF Only
    <3> QED BY <3>1, <3>2
  <2>2. CASE a \notin file[k].doc.changes /\ b \in file[k].doc.changes
    BY <1>1, <1>3, <1>4, <2>2
  <2>3. CASE b \notin file[k].doc.changes /\ a \in file[k].doc.changes
    BY <1>1, <1>3, <1>4, <2>3
  <2> QED BY <1>2, <1>5, <2>1, <2>2, <2>3
<1> QED BY <1>5

(* What a section's step does to what its request has loaded.                *)
LEMMA Loaded ==
    ASSUME Control, Data, NEW r \in Requests, Inner(r)
    PROVE  \/ /\ LoadHit(r) \/ LoadRead(r)
              /\ key(r) \in Keys /\ req'[r].base = file[key(r)] /\ UNCHANGED <<file, audio>>
              /\ req'[r].pc \in {"remember", "apply"}
           \/ /\ req'[r].base = req[r].base
              /\ req'[r].pc = "initialize" \/ (req'[r].pc = "finish" /\ req'[r].result # "ok")
           \/ /\ req'[r].base = req[r].base
              /\ \/ req[r].pc = "remember" /\ Remember(r) /\ req'[r].pc = "apply"
                 \/ req[r].pc = "apply" /\ req'[r].pc \in {"write", "finish"} /\ UNCHANGED file
                 \/ req[r].pc = "write" /\ Write(r) /\ req'[r].pc = "finish"
<1>1. CASE LoadHit(r)
  <2>1. req[r].pc = "load" /\ Hit(proc(r), key(r)) /\ UNCHANGED <<file, audio>>
    BY <1>1 DEF LoadHit, disk
  <2>2. key(r) \in Keys /\ proc(r) \in Procs
    BY <2>1, Places
  <2>3. cache[proc(r)][key(r)] = file[key(r)]
    BY <2>1, <2>2 DEF Hit, Data, CachesTrue
  <2>4. req'[r].base = file[key(r)] /\ req'[r].pc = "apply"
    <3>1. file[key(r)] \in Files
      BY <2>2, DocumentsTyped
    <3>2. req' = [req EXCEPT ![r].base = file[key(r)], ![r].pc = "apply"]
      BY <1>1, <2>3 DEF LoadHit
    <3> QED BY <3>1, <3>2, LoadedGoes DEF Goes, Inside
  <2> QED BY <1>1, <2>1, <2>2, <2>4
<1>2. CASE LoadRead(r)
  <2>1. req[r].pc = "load" /\ UNCHANGED <<file, audio>>
    BY <1>2 DEF LoadRead, disk
  <2>2. key(r) \in Keys
    BY <2>1, Places
  <2>3. file[key(r)] \in Files
    BY <2>2, DocumentsTyped
  <2>4. PICK pc \in {"remember", "apply"} : req' = [req EXCEPT ![r].base = file[key(r)], ![r].pc = pc]
    BY <1>2 DEF LoadRead
  <2>5. Goes(r, {pc}, {}) /\ req'[r].base = file[key(r)]
    BY <2>3, <2>4, LoadedGoes DEF Inside
  <2>6. req'[r].pc \in {"remember", "apply"}
    BY <2>5 DEF Goes
  <2> QED BY <1>2, <2>1, <2>2, <2>5, <2>6
<1>3. ASSUME NEW result \in {"ok", "error", "refused", "admitted"}, Conclude(r, result)
      PROVE  req'[r].base = req[r].base /\ req'[r].pc = "finish" /\ req'[r].result = result
  BY <1>3, ConcludedGoes DEF Goes
<1>4. ASSUME NEW pc \in {"initialize", "apply", "write"}, req' = [req EXCEPT ![r].pc = pc]
      PROVE  req'[r].base = req[r].base /\ req'[r].pc = pc
  BY <1>4, MovedGoes DEF Goes, Inside
<1>5. CASE Reserve(r)
  BY <1>3, <1>4, <1>5 DEF Reserve
<1>6. CASE Initialize(r)
  BY <1>3, <1>6 DEF Initialize
<1>7. CASE LoadUnreadable(r)
  BY <1>3, <1>7 DEF LoadUnreadable
<1>8. CASE Remember(r)
  BY <1>4, <1>8 DEF Remember
<1>9. CASE AnswerRead(r) \/ CheckIfMatch(r) \/ AcceptWrite(r) \/ StoreCapture(r) \/ CollectOrphans(r)
  <2>1. req[r].pc = "apply" /\ UNCHANGED file
    BY <1>9 DEF AnswerRead, CheckIfMatch, AcceptWrite, StoreCapture, CollectOrphans, disk
  <2>2. \/ req' = [req EXCEPT ![r].pc = "write"]
        \/ \E result \in {"ok", "error", "refused"} : Conclude(r, result)
    BY <1>9 DEF AnswerRead, CheckIfMatch, AcceptWrite, StoreCapture, CollectOrphans
  <2> QED BY <1>3, <1>4, <2>1, <2>2
<1>10. CASE Write(r)
  <2>1. req[r].pc = "write" /\ \E result \in {"ok", "error"} : Conclude(r, result)
    BY <1>10 DEF Write
  <2> QED BY <1>3, <1>10, <2>1
<1> QED BY <1>1, <1>2, <1>5, <1>6, <1>7, <1>8, <1>9, <1>10 DEF Inner

(* Where a quiet step leaves a request that is inside its section.           *)
LEMMA QuietInside ==
    ASSUME Quiet, NEW o \in Requests, req'[o].pc \in {"remember", "apply", "write", "finish"}
    PROVE  req'[o] = req[o]
<1>1. Around(o)
  BY DEF Quiet
<1> QED BY <1>1 DEF Around, Arrives, Starts, Waits, Returns, Dies

(* A reader knows no more than it reads, and reads what is stored. *)
LEMMA ReadingStep == Control /\ Control' /\ Admitted /\ Data /\ Next => Reading'
<1> SUFFICES ASSUME Control, Control', Admitted, Data, Next, NEW o \in Requests
             PROVE  /\ req'[o].pc # "unsent" => req'[o].known \subseteq file'[key(o)'].doc.changes
                    /\ /\ req'[o].kind \in {"get", "list"}
                       /\ \/ req'[o].pc \in {"remember", "apply", "write"}
                          \/ req'[o].pc = "finish" /\ req'[o].result = "ok"
                       => /\ req'[o].known \subseteq req'[o].base.doc.changes
                          /\ req'[o].base.doc.changes \subseteq file'[key(o)'].doc.changes
  BY DEF Reading
<1>1. CASE req[o].pc = "unsent"
  <2>1. req'[o].pc \in {"unsent", "start"}
    BY <1>1, SameRequest
  <2>2. CASE req'[o].pc = "start"
    <3>1. Arrives(o)
      <4>1. CASE Quiet
        <5>1. Around(o)
          BY <4>1 DEF Quiet
        <5> QED BY <1>1, <2>2, <5>1 DEF Around, Starts, Waits, Returns, Dies
      <4>2. ASSUME NEW r \in Requests, Only(r), InSection(r) PROVE FALSE
        BY <1>1, <2>2, <4>2 DEF Only, InSection, Inside
      <4> QED BY <4>1, <4>2, QuietOrInner
    <3>2. key(o)' \in Keys
      <4>1. key(o)' \in site.keys /\ site \in Sites
        BY <3>1 DEF Arrives, key, Control, TypeOK
      <4> QED BY <4>1, CloudAssumption DEF IsSite
    <3>3. req'[o].known = Acknowledged(key(o)')
      BY <3>1 DEF Arrives, key
    <3>4. Acknowledged(key(o)') \subseteq file[key(o)'].doc.changes
      BY <3>2 DEF Data, AcknowledgedStays
    <3> QED BY <2>2, <3>2, <3>3, <3>4, DocumentsGrow
  <2> QED BY <2>1, <2>2
<1>2. CASE req[o].pc # "unsent"
  <2>1. Same(o) /\ key(o)' = key(o) /\ key(o) \in Keys
    BY <1>2, SameRequest, Places
  <2>2. file[key(o)].doc.changes \subseteq file'[key(o)].doc.changes
    BY <2>1, DocumentsGrow
  <2>3. req'[o].known = req[o].known /\ req[o].known \subseteq file[key(o)].doc.changes
    BY <1>2, <2>1 DEF Same, Data, Reading
  <2>4. ASSUME req'[o].kind \in {"get", "list"},
               \/ req'[o].pc \in {"remember", "apply", "write"}
               \/ req'[o].pc = "finish" /\ req'[o].result = "ok"
        PROVE  /\ req[o].known \subseteq req'[o].base.doc.changes
               /\ req'[o].base.doc.changes \subseteq file[key(o)].doc.changes
    <3>1. req[o].kind \in {"get", "list"}
      BY <2>1, <2>4 DEF Same
    <3>2. \/ req[o].pc \in {"remember", "apply", "write"}
          \/ req[o].pc = "finish" /\ req[o].result = "ok"
          => /\ req[o].known \subseteq req[o].base.doc.changes
             /\ req[o].base.doc.changes \subseteq file[key(o)].doc.changes
      BY <3>1 DEF Data, Reading
    <3>3. CASE req'[o] = req[o]
      BY <2>4, <3>2, <3>3
    <3>4. CASE Inner(o)
      <4>1. CASE req'[o].base = file[key(o)]
        BY <2>3, <4>1
      <4>2. CASE req'[o].base = req[o].base /\ req[o].pc \in {"remember", "apply", "write"}
        BY <3>2, <4>2
      <4> QED BY <2>4, <3>4, <4>1, <4>2, Loaded
    <3>5. ASSUME NEW r \in Requests, Inner(r), Only(r), r # o PROVE req'[o] = req[o]
      BY <3>5 DEF Only
    <3> QED BY <2>4, <3>3, <3>4, <3>5, QuietInside, QuietOrInner
  <2> QED BY <2>1, <2>2, <2>3, <2>4
<1> QED BY <1>1, <1>2

(* Recordings that go: those of a failed write, and orphans. *)
LEMMA AudioGone ==
    ASSUME Control, Data, Next, NEW a \in audio, a \notin audio'
    PROVE  \E r \in Requests :
               \/ Write(r) /\ a = r /\ r \notin file'[key(r)].doc.changes
               \/ /\ CollectOrphans(r) /\ InSection(r) /\ Guarded(r) /\ req[r].stage = "handler"
                  /\ key(a) = key(r) /\ key(r) \in Keys /\ a \notin file[key(r)].doc.changes
<1>1. PICK r \in Requests : Write(r) \/ CollectOrphans(r)
  <2>1. ASSUME \A r \in Requests : ~Write(r) /\ ~CollectOrphans(r) PROVE FALSE
    <3>1. ASSUME NEW r \in Requests, Inner(r) PROVE FALSE
      BY <2>1, <3>1 DEF Inner, Reserve, Initialize, LoadHit, LoadRead, Remember, LoadUnreadable, AnswerRead,
                        CheckIfMatch, AcceptWrite, StoreCapture, disk
    <3>2. Quiet
      BY <3>1, QuietUnlessInner
    <3> QED BY <3>2 DEF Quiet, disk
  <2> QED BY <2>1
<1>2. CASE Write(r)
  BY <1>2 DEF Write, RemoveOrphanedCaptureAudio
<1>3. CASE CollectOrphans(r)
  <2>1. /\ req[r].pc = "apply" /\ req[r].kind = "gc" /\ key(a) = key(r) /\ a \notin req[r].base.doc.changes
    BY <1>3 DEF CollectOrphans
  <2>2. Guarded(r) /\ InSection(r) /\ req[r].stage = "handler" /\ BaseCurrent(r)
    BY <2>1, DocumentsTyped DEF Guarded, Unlocked, InSection, Inside, Control, Courses, Course, Tickets, Data
  <2>3. key(r) \in Keys
    BY <2>1, Places
  <2>4. req[r].base.doc = file[key(r)].doc
    BY <2>1, <2>2 DEF BaseCurrent
  <2> QED BY <1>3, <2>1, <2>2, <2>3, <2>4
<1> QED BY <1>1, <1>2, <1>3

(* No step removes a recording a document refers to. *)
LEMMA AudioStep == Control /\ Admitted /\ Data /\ Next => AudioKept'
<1> SUFFICES ASSUME Control, Admitted, Data, Next, NEW k \in Keys,
                    NEW a \in Captures', a \in file'[k].doc.changes, a \notin audio'
             PROVE  FALSE
  BY DEF AudioKept
<1>1. a \in audio /\ key(a) = k
  <2>1. CASE a \in file[k].doc.changes
    BY <2>1, StoredRequests DEF Data, AudioKept
  <2>2. CASE a \in Requests /\ Lands(a) /\ key(a) = k
    <3>1. req[a].pc = "write" /\ BaseCurrent(a)
      BY <2>2 DEF Lands, Write, Data
    <3>2. req[a].kind = "capture"
      BY <2>2, <3>1, SameRequest DEF Captures, Same
    <3> QED BY <2>2, <3>1, <3>2 DEF BaseCurrent
  <2> QED BY <2>1, <2>2, DocumentsGrow
<1>2. PICK r \in Requests :
          \/ Write(r) /\ a = r /\ r \notin file'[key(r)].doc.changes
          \/ CollectOrphans(r) /\ key(a) = key(r) /\ a \notin file[key(r)].doc.changes
  BY <1>1, AudioGone
<1>3. CollectOrphans(r) /\ a \notin file[k].doc.changes
  BY <1>1, <1>2
<1>4. file' = file
  BY <1>3 DEF CollectOrphans
<1> QED BY <1>3, <1>4

(* Processes that read without the lock share their data directory with no   *)
(* other process: loadAppDataForRead takes a cached document by the identity *)
(* its file had when it was remembered.                                      *)
ReadsAlone == \A s \in Sites : "list" \in s.kinds => \A p, q \in s.procs : p = q

(* While a request works on a document, nobody else writes to it.            *)
LEMMA Undisturbed ==
    ASSUME ReadsAlone, Control, Admitted, Data, Next, NEW o \in Requests, req'[o] = req[o],
           req[o].pc \in {"remember", "apply", "write"}, Guarded(o) \/ req[o].pc = "remember"
    PROVE  key(o) \in Keys /\ file'[key(o)].doc = file[key(o)].doc
<1>1. key(o) \in Keys /\ InSection(o) /\ req[o].stage = "handler"
  <2>1. req[o].pc # "unsent" /\ InSection(o)
    BY DEF InSection, Inside
  <2>2. req[o].stage = "handler"
    BY DocumentsTyped DEF Control, Courses, Course, Tickets
  <2> QED BY <2>1, <2>2, Places
<1>2. ASSUME NEW r \in Requests, Lands(r), key(r) = key(o) PROVE FALSE
  <2>1. Write(r) /\ req[r].pc = "write" /\ InSection(r)
    BY <1>2 DEF Lands, Write, InSection, Inside
  <2>2. req[r].stage = "handler" /\ Guarded(r)
    BY <2>1, DocumentsTyped DEF Control, Courses, Course, Tickets
  <2>3. r # o
    <3>1. req'[r].pc = "finish"
      BY <2>1, WriteGoes DEF Goes
    <3> QED BY <2>1, <3>1
  <2>4. CASE Guarded(o)
    BY <1>1, <1>2, <2>1, <2>2, <2>3, <2>4, OneInSection DEF LockKey
  <2>5. CASE ~Guarded(o)
    <3>1. req[o].pc # "unsent" /\ req[r].pc # "unsent" /\ req[o].kind = "list"
      BY <2>1, <2>5 DEF Guarded, Unlocked
    <3>2. "list" \in site.kinds /\ proc(o) \in site.procs /\ proc(r) \in site.procs /\ site \in Sites
      BY <3>1, Places DEF Control, TypeOK
    <3>3. proc(o) = proc(r)
      BY <3>2 DEF ReadsAlone
    <3> QED BY <1>1, <2>1, <2>3, <3>3, OneInSection
  <2> QED BY <2>4, <2>5
<1>3. ASSUME NEW r \in Requests, Lands(r), key(r) # key(o) PROVE file'[key(o)].doc = file[key(o)].doc
  BY <1>1, <1>3 DEF Lands
<1> QED BY <1>1, <1>2, <1>3, DocumentsStep

(* What a request that goes on to write has found in the document.           *)
LEMMA WritesWhat ==
    ASSUME Control, Data, NEW o \in Requests, Inner(o), req'[o].pc = "write"
    PROVE  /\ req[o].kind = "get" => req[o].base.id = 0
           /\ req[o].kind = "patch" => req[o].base.doc.trail = req[o].seen
           /\ req[o].kind = "capture" => o \in audio' /\ Captures \cap req[o].base.doc.changes = {}
<1>1. ASSUME NEW result \in {"ok", "error", "refused", "admitted"}, Conclude(o, result) PROVE FALSE
  BY <1>1, ConcludedGoes DEF Goes
<1>2. req[o].pc = "apply"
  BY Loaded
<1>3. AnswerRead(o) \/ CheckIfMatch(o) \/ AcceptWrite(o) \/ StoreCapture(o) \/ CollectOrphans(o)
  BY <1>2 DEF Inner, Reserve, Initialize, LoadHit, LoadRead, Remember, LoadUnreadable, Write
<1>4. CASE AnswerRead(o)
  BY <1>1, <1>4 DEF AnswerRead
<1>5. CASE CheckIfMatch(o)
  BY <1>1, <1>5 DEF CheckIfMatch, IfMatchAccepts
<1>6. CASE AcceptWrite(o)
  BY <1>6 DEF AcceptWrite
<1>7. CASE StoreCapture(o)
  BY <1>1, <1>7 DEF StoreCapture, Replayed
<1>8. CASE CollectOrphans(o)
  BY <1>1, <1>8 DEF CollectOrphans
<1> QED BY <1>3, <1>4, <1>5, <1>6, <1>7, <1>8

(* An unmoved request finds the recording it stored. *)
LEMMA RecordingWaits ==
    ASSUME Control, Data, Next, NEW o \in Requests, req'[o] = req[o], req[o].pc = "write", o \in audio
    PROVE  o \in audio'
<1>1. /\ InSection(o) /\ req[o].stage = "handler" /\ Guarded(o)
  BY DocumentsTyped DEF InSection, Inside, Control, Courses, Course, Tickets
<1>2. ASSUME NEW r \in Requests, Write(r) PROVE r # o
  <2>1. req[r].pc = "write" /\ req'[r].pc = "finish"
    BY <1>2, WriteGoes DEF Goes, Write
  <2> QED BY <2>1
<1>3. ASSUME NEW r \in Requests, CollectOrphans(r), InSection(r), Guarded(r), req[r].stage = "handler",
             key(o) = key(r)
      PROVE  FALSE
  <2>1. r = o
    BY <1>1, <1>3, OneInSection DEF LockKey
  <2> QED BY <1>3, <2>1 DEF CollectOrphans
<1> QED BY <1>2, <1>3, AudioGone

(* What a request has loaded stays the stored document until it writes. *)
LEMMA BaseStep ==
    ASSUME ReadsAlone, Control, Control', Admitted, Data, Next, NEW o \in Requests
    PROVE  BaseCurrent(o)'
<1>0. BaseCurrent(o) /\ NoFile.id = 0 /\ \A k \in Keys : file[k].id = 0 => file[k] = NoFile
  BY DEF Data, CachesTrue, NoFile
<1>1. CASE req'[o] = req[o]
  <2>1. req[o].pc # "unsent" => key(o)' = key(o) /\ (Guarded(o)' <=> Guarded(o))
    BY SameRequest
  <2>2. req[o].pc \in {"remember", "apply", "write"} /\ (Guarded(o) \/ req[o].pc = "remember") =>
            key(o) \in Keys /\ file'[key(o)].doc = file[key(o)].doc
    BY <1>1, Undisturbed
  <2>3. req[o].pc = "write" /\ req[o].kind = "capture" =>
            o \in audio' /\ Captures' \cap req[o].base.doc.changes = {}
    <3> SUFFICES ASSUME req[o].pc = "write", req[o].kind = "capture"
                 PROVE  o \in audio' /\ Captures' \cap req[o].base.doc.changes = {}
      OBVIOUS
    <3>1. Guarded(o)
      BY DEF Guarded, Unlocked
    <3>2. o \in audio /\ Captures \cap req[o].base.doc.changes = {} /\ req[o].base.doc = file[key(o)].doc
      BY <1>0, <3>1 DEF BaseCurrent
    <3>3. \A a \in file[key(o)].doc.changes : a \in Captures' => a \in Captures
      BY <2>2, <3>1, StoredRequests
    <3> QED BY <1>1, <3>2, <3>3, RecordingWaits
  <2> QED BY <1>0, <1>1, <2>1, <2>2, <2>3 DEF BaseCurrent
<1>2. CASE Inner(o)
  <2>1. /\ req[o].pc # "unsent" /\ key(o) \in Keys /\ key(o)' = key(o) /\ (Guarded(o)' <=> Guarded(o))
        /\ Same(o)
    <3>1. req[o].pc # "unsent"
      BY <1>2 DEF Inner, Reserve, Initialize, LoadHit, LoadRead, Remember, LoadUnreadable, AnswerRead,
                  CheckIfMatch, AcceptWrite, StoreCapture, CollectOrphans, Write
    <3> QED BY <3>1, SameRequest, Places
  <2>2. CASE /\ req'[o].base = file[key(o)] /\ UNCHANGED <<file, audio>>
             /\ req'[o].pc \in {"remember", "apply"}
    BY <1>0, <2>1, <2>2 DEF BaseCurrent
  <2>3. CASE /\ req'[o].base = req[o].base
             /\ req'[o].pc \in {"initialize", "finish"}
    BY <1>0, <2>3 DEF BaseCurrent
  <2>4. CASE req'[o].base = req[o].base /\ req[o].pc = "remember" /\ Remember(o) /\ req'[o].pc = "apply"
    <3>1. UNCHANGED file
      BY <2>4 DEF Remember, disk
    <3> QED BY <1>0, <2>1, <2>4, <3>1 DEF BaseCurrent
  <2>5. CASE req'[o].base = req[o].base /\ req[o].pc = "apply" /\ req'[o].pc = "write" /\ UNCHANGED file
    <3>1. Guarded(o)
      <4>1. Guarded(o)'
        BY <2>5 DEF Control, Courses, Course
      <4> QED BY <2>1, <4>1
    <3>2. req[o].base.doc = file[key(o)].doc
      BY <1>0, <2>5, <3>1 DEF BaseCurrent
    <3>3. /\ req[o].kind = "get" => req[o].base.id = 0
          /\ req[o].kind = "patch" => req[o].base.doc.trail = req[o].seen
          /\ req[o].kind = "capture" => o \in audio' /\ Captures \cap req[o].base.doc.changes = {}
      BY <1>2, <2>5, WritesWhat
    <3>4. req[o].kind = "capture" => Captures' \cap req[o].base.doc.changes = {}
      <4>1. \A a \in file[key(o)].doc.changes : a \in Captures' => a \in Captures
        BY <2>1, StoredRequests
      <4> QED BY <3>2, <3>3, <4>1
    <3>5. req[o].base.id = 0 => req[o].base = NoFile
      BY <1>0 DEF BaseCurrent
    <3> QED BY <2>1, <2>5, <3>2, <3>3, <3>4, <3>5 DEF BaseCurrent, Same
  <2> QED BY <1>2, <2>2, <2>3, <2>4, <2>5, Loaded
<1>3. CASE Quiet /\ req'[o] # req[o]
  <2>1. Around(o) /\ req'[o].pc \notin {"remember", "apply", "write"}
    BY <1>3, QuietInside DEF Quiet
  <2>2. req'[o].base \in {req[o].base, NoFile}
    BY <1>3, <2>1 DEF Around, Arrives, Starts, Waits, Returns, Dies, Keeps
  <2> QED BY <1>0, <2>1, <2>2 DEF BaseCurrent
<1>4. ASSUME NEW r \in Requests, Inner(r), Only(r) PROVE BaseCurrent(o)'
  <2>1. Inner(o) \/ req'[o] = req[o]
    BY <1>4 DEF Only
  <2> QED BY <1>1, <1>2, <2>1
<1> QED BY <1>1, <1>3, <1>4, QuietOrInner

(* Every step keeps what is stored and said of it. *)
LEMMA StepKeepsData == ReadsAlone /\ Control /\ Control' /\ Admitted /\ Data /\ Next => Data'
<1> SUFFICES ASSUME ReadsAlone, Control, Control', Admitted, Data, Next PROVE Data'
  OBVIOUS
<1>1. \A r \in Requests : BaseCurrent(r)'
  BY BaseStep
<1>2. CachesTrue' /\ Landing' /\ Reading'
  BY CachesStep, LandingStep, ReadingStep
<1>3. AcknowledgedStays' /\ CaptureAnswered' /\ ReadsTrue' /\ RefusedNeverLands'
  BY AnswersStep, RefusedStep
<1>4. PatchSawAll' /\ OneCapture' /\ AudioKept'
  BY PatchesStep, OneCaptureStep, AudioStep
<1> QED BY <1>1, <1>2, <1>3, <1>4 DEF Data

(* Nothing is stored or said at first. *)
LEMMA InitData == Init => Data
<1> SUFFICES ASSUME Init PROVE Data
  OBVIOUS
<1>1. /\ \A k \in Keys : file[k] = NoFile /\ file[k].doc.changes = {} /\ file[k].doc.trail = <<>>
      /\ \A p \in Procs, k \in Keys : cache[p][k] = NoFile
  BY DEF Init, NoFile, Empty
<1>2. \A r \in Requests : /\ req[r].pc = "unsent" /\ req[r].answer = "none" /\ req[r].base = NoFile
                          /\ req[r].known = {}
  BY DEF Init, Unsent
<1>3. CachesTrue
  BY <1>1 DEF CachesTrue
<1>4. \A r \in Requests : BaseCurrent(r)
  BY <1>2 DEF BaseCurrent
<1>5. Landing
  BY <1>1, <1>2 DEF Landing
<1>6. Reading /\ AcknowledgedStays /\ RefusedNeverLands /\ ReadsTrue /\ CaptureAnswered
  BY <1>2 DEF Reading, AcknowledgedStays, Acknowledged, RefusedNeverLands, ReadsTrue, CaptureAnswered, Captures
<1>7. PatchSawAll
  BY <1>1 DEF PatchSawAll
<1>8. OneCapture /\ AudioKept
  BY <1>1 DEF OneCapture, AudioKept
<1> QED BY <1>3, <1>4, <1>5, <1>6, <1>7, <1>8 DEF Data

(* A step that changes nothing keeps the cap. *)
LEMMA UnchangedAdmitted == Admitted /\ UNCHANGED vars => Admitted'
BY DEF Admitted, vars, AnyToken, Namespaces, Exists, Settled, Guarded, key

(* A step that changes nothing keeps the data. *)
LEMMA UnchangedData == Data /\ UNCHANGED vars => Data'
<1> SUFFICES ASSUME Data, UNCHANGED vars PROVE Data'
  OBVIOUS
<1>1. CachesTrue' /\ Landing' /\ Reading'
  BY DEF Data, vars, CachesTrue, Landing, Reading, key, Captures
<1>2. \A r \in Requests : BaseCurrent(r)'
  BY DEF Data, vars, BaseCurrent, key, Captures, Guarded
<1>3. AcknowledgedStays' /\ RefusedNeverLands' /\ PatchSawAll' /\ ReadsTrue'
  BY DEF Data, vars, AcknowledgedStays, Acknowledged, RefusedNeverLands, PatchSawAll, ReadsTrue, key
<1>4. OneCapture' /\ CaptureAnswered' /\ AudioKept'
  BY DEF Data, vars, OneCapture, CaptureAnswered, AudioKept, Captures, key
<1> QED BY <1>1, <1>2, <1>3, <1>4 DEF Data

-----------------------------------------------------------------------------
(* The theorems *)

(* The three parts of the inductive invariant together. *)
LEMMA DataAlways == ASSUME ReadsAlone PROVE Spec => [](Control /\ Admitted /\ Data)
<1> DEFINE I == Control /\ Admitted /\ Data
<1>1. Init => I
  BY InitControl, InitAdmitted, InitData
<1>2. I /\ [Next]_vars => I'
  <2> SUFFICES ASSUME I, [Next]_vars PROVE I'
    OBVIOUS
  <2>1. CASE Next
    <3>1. Control'
      BY <2>1, StepKeepsControl
    <3>2. Admitted'
      BY <2>1, <3>1, StepKeepsAdmitted
    <3>3. Data'
      BY <2>1, <3>1, StepKeepsData
    <3> QED BY <3>1, <3>2, <3>3
  <2>2. CASE UNCHANGED vars
    BY <2>2, UnchangedControl, UnchangedAdmitted, UnchangedData
  <2> QED BY <2>1, <2>2
<1> QED BY <1>1, <1>2, PTL DEF Spec

(* A queue whose links are in order moves on. *)
LEMMA QueuesMoveOn == Control => NobodyStranded
<1> SUFFICES ASSUME Control PROVE NobodyStranded
  OBVIOUS
<1>1. ASSUME NEW p \in Procs, NEW k \in LockKeys, chain[p][k] # <<>>
      PROVE  LET r == Head(chain[p][k])
             IN  proc(r) = p /\ LockKey(r) = k /\ req[r].pc \notin {"body", "done"}
  <2>1. chain[p][k] \in Seq(Requests) /\ 1 \in 1..Len(chain[p][k]) /\ Head(chain[p][k]) = chain[p][k][1]
    BY <1>1 DEF Control, TypeOK
  <2>2. IsLink(chain[p][k][1], p, k, 1)
    BY <2>1 DEF Control, Queues
  <2> QED BY <2>1, <2>2 DEF IsLink, Linked, Inside
<1>2. ASSUME NEW r \in Requests, req[r].pc = "queued"
      PROVE  \E i \in DOMAIN chain[proc(r)][LockKey(r)] : chain[proc(r)][LockKey(r)][i] = r
  <2>1. Linked(r)
    BY <1>2 DEF Control, Courses, Course, Linked
  <2>2. chain[proc(r)][LockKey(r)] \in Seq(Requests)
    BY <1>2, Places DEF Control, TypeOK
  <2> QED BY <2>1, <2>2 DEF Control, Queues
<1> QED BY <1>1, <1>2 DEF NobodyStranded

(* Whatever the processes share: each runs one callback and each lock has    *)
(* one holder, no request is stranded in a queue behind the lock, and tokens *)
(* nobody configured stay below the cap of namespaces.                       *)
THEOREM QueuesSafe == Spec => [](Exclusion /\ Queues /\ NobodyStranded /\ NamespaceCap)
<1>1. Init => Control /\ Admitted
  BY InitControl, InitAdmitted
<1>2. Control /\ Admitted /\ [Next]_vars => (Control /\ Admitted)'
  BY StepKeepsControl, StepKeepsAdmitted, UnchangedControl, UnchangedAdmitted
<1>3. Control /\ Admitted => Exclusion /\ Queues /\ NobodyStranded /\ NamespaceCap
  BY QueuesMoveOn DEF Control, Admitted, NamespaceCap
<1> QED BY <1>1, <1>2, <1>3, PTL DEF Spec

(* What the server owes its clients, over any number of processes, crashes   *)
(* and failing writes: acknowledged changes stay, refused ones never land,   *)
(* PATCHes see one another, readers see what is stored, tokens nobody        *)
(* configured stay below the cap and every queue moves on.                   *)
THEOREM ServerSafe == ASSUME ReadsAlone PROVE Spec => []ServerInv
<1>1. Control /\ Admitted /\ Data => ServerInv
  BY QueuesMoveOn DEF Control, Courses, Admitted, NamespaceCap, Data, ServerInv
<1> QED BY <1>1, DataAlways, PTL

(* A capture sent again, to any process and after any failure, makes one     *)
(* task, and the recording it refers to is on disk.                          *)
THEOREM CapturesSafe == ASSUME ReadsAlone PROVE Spec => []CapturesOnce
<1>1. Control /\ Data => CapturesOnce
  <2> SUFFICES ASSUME Control, Data, NEW k \in Keys
               PROVE  /\ Cardinality(Captures \cap file[k].doc.changes) <= 1
                      /\ (\E r \in Captures : key(r) = k /\ req[r].answer = "ok")
                            => Captures \cap file[k].doc.changes # {}
    BY DEF CapturesOnce, CaptureOnce, Data
  <2> DEFINE stored == Captures \cap file[k].doc.changes
  <2>1. Cardinality(stored) <= 1
    <3>1. CASE stored = {}
      BY <3>1, FS_EmptySet
    <3>2. CASE stored # {}
      <4>1. PICK a \in stored : TRUE
        BY <3>2
      <4>2. stored = {a}
        BY <4>1 DEF Data, OneCapture
      <4>3. Cardinality({a}) = 1
        BY FS_Singleton
      <4> QED BY <4>2, <4>3
    <3> QED BY <3>1, <3>2
  <2>2. (\E r \in Captures : key(r) = k /\ req[r].answer = "ok") => stored # {}
    BY DEF Data, CaptureAnswered
  <2> QED BY <2>1, <2>2
<1> QED BY <1>1, DataAlways, PTL
=============================================================================
