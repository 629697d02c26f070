--------------------------- MODULE SaveQueueProofs ---------------------------
(***************************************************************************)
(* The save queue and the reload beside it, for any sets of tasks and of   *)
(* callers, any cap and any number of attempts.                            *)
(***************************************************************************)
EXTENDS StoreReload, SequenceTheorems, WellFoundedInduction, TLAPS

(* The cap keeps a tail of the queue, with its newest snapshot.              *)
LEMMA CappedProperties ==
    ASSUME NEW queue \in Seq(PendingSave), queue # <<>>
    PROVE  /\ Capped(queue) \in Seq(PendingSave)
           /\ Capped(queue) # <<>>
           /\ Newest(Capped(queue)) = Newest(queue)
           /\ \E dropped \in Nat :
                 /\ Len(Capped(queue)) + dropped = Len(queue)
                 /\ \A i \in 1..Len(Capped(queue)) : Capped(queue)[i] = queue[i + dropped]
<1> DEFINE n == Len(queue)
           from == n - MaxPending + 1
<1>1. n \in Nat \ {0} /\ MaxPending \in Nat \ {0}
  BY BoundsAssumption, EmptySeq, LenProperties
<1>2. CASE n <= MaxPending
  <2>1. Capped(queue) = queue
    BY <1>2 DEF Capped
  <2>2. /\ Len(queue) + 0 = Len(queue) /\ \A i \in 1..Len(queue) : queue[i] = queue[i + 0]
    BY <1>1
  <2> QED BY <2>1, <2>2
<1>3. CASE n > MaxPending
  <2>1. Capped(queue) = SubSeq(queue, from, n)
    BY <1>1, <1>3 DEF Capped
  <2>2. \A i \in from..n : queue[i] \in PendingSave
    BY <1>1, <1>3, ElementOfSeq
  <2>3. /\ SubSeq(queue, from, n) \in Seq(PendingSave)
        /\ Len(SubSeq(queue, from, n)) = MaxPending
        /\ \A i \in 1..MaxPending : SubSeq(queue, from, n)[i] = queue[from + i - 1]
    BY <1>1, <1>3, <2>2, SubSeqProperties
  <2>4. /\ Capped(queue) # <<>>
        /\ Newest(Capped(queue)) = Newest(queue)
    <3>1. Len(Capped(queue)) = MaxPending /\ Capped(queue)[MaxPending] = queue[n]
      BY <1>1, <1>3, <2>1, <2>3
    <3>2. Capped(queue) # <<>>
      BY <1>1, <3>1, EmptySeq
    <3> QED BY <3>1, <3>2 DEF Newest
  <2>5. /\ n - MaxPending \in Nat
        /\ Len(Capped(queue)) + (n - MaxPending) = n
        /\ \A i \in 1..Len(Capped(queue)) : Capped(queue)[i] = queue[i + (n - MaxPending)]
    BY <1>1, <1>3, <2>1, <2>3
  <2> QED BY <2>1, <2>3, <2>4, <2>5
<1> QED BY <1>1, <1>2, <1>3

(* The queue a snapshot has been put at the end of. *)
Pushed(save) == Append(pendingSaves, save)

(* A snapshot pushed on a full queue drops the oldest ones and is its newest. *)
LEMMA PushedProperties ==
    ASSUME TypeOK, NEW save \in PendingSave
    PROVE  /\ Capped(Pushed(save)) \in Seq(PendingSave)
           /\ Capped(Pushed(save)) # <<>>
           /\ Newest(Capped(Pushed(save))) = save
           /\ Len(Capped(Pushed(save))) \in Nat \ {0}
           /\ \E dropped \in Nat :
                 /\ Len(Capped(Pushed(save))) + dropped = Len(pendingSaves) + 1
                 /\ \A i \in 1..Len(Capped(Pushed(save))) :
                       Capped(Pushed(save))[i] = IF i + dropped <= Len(pendingSaves)
                                                 THEN pendingSaves[i + dropped] ELSE save
<1>1. /\ Pushed(save) \in Seq(PendingSave) /\ Pushed(save) # <<>>
      /\ Len(Pushed(save)) = Len(pendingSaves) + 1
      /\ \A i \in 1..Len(pendingSaves) : Pushed(save)[i] = pendingSaves[i]
      /\ Pushed(save)[Len(pendingSaves) + 1] = save
  BY AppendProperties DEF TypeOK, Pushed
<1>2. Len(pendingSaves) \in Nat
  BY LenProperties DEF TypeOK
<1>3. PICK dropped \in Nat :
          /\ Len(Capped(Pushed(save))) + dropped = Len(Pushed(save))
          /\ \A i \in 1..Len(Capped(Pushed(save))) : Capped(Pushed(save))[i] = Pushed(save)[i + dropped]
  BY <1>1, CappedProperties
<1>4. /\ Capped(Pushed(save)) \in Seq(PendingSave) /\ Capped(Pushed(save)) # <<>>
      /\ Newest(Capped(Pushed(save))) = Newest(Pushed(save))
  BY <1>1, CappedProperties
<1>5. Len(Capped(Pushed(save))) \in Nat \ {0}
  BY <1>4, EmptySeq
<1>6. Newest(Pushed(save)) = save
  BY <1>1 DEF Newest
<1>7. \A i \in 1..Len(Capped(Pushed(save))) :
          Capped(Pushed(save))[i] = IF i + dropped <= Len(pendingSaves)
                                    THEN pendingSaves[i + dropped] ELSE save
  BY <1>1, <1>2, <1>3, <1>5
<1> QED BY <1>1, <1>3, <1>4, <1>5, <1>6, <1>7

(* Every nonempty set of natural numbers has a least element. *)
LEMMA LeastNatural ==
    ASSUME NEW S \in SUBSET Nat, S # {}
    PROVE  \E least \in S : \A n \in S : least <= n
<1>1. \A x, y : <<x, y>> \in OpToRel(<, Nat) <=> x \in Nat /\ y \in Nat /\ x < y
  BY DEF OpToRel
<1>2. PICK least \in S : \A n \in S : ~(<<n, least>> \in OpToRel(<, Nat))
  BY NatLessThanWellFounded, WFMin
<1>3. \A n \in S : ~(n < least)
  BY <1>1, <1>2, Zenon
<1> QED BY <1>3

(* The attempts behind a snapshot stay below their limit. *)
LEMMA AttemptsBounded ==
    ASSUME NEW queue \in Seq(PendingSave), queue # <<>>
    PROVE  AttemptsBehind(queue) \in 0..(MaxAttempts - 1)
<1> DEFINE tried == {queue[i].attempts : i \in 1..Len(queue)}
           bounds == {b \in Nat : \A a \in tried : a <= b}
<1>1. MaxAttempts \in Nat \ {0} /\ Len(queue) \in Nat \ {0}
  BY BoundsAssumption, EmptySeq
<1>2. tried \subseteq 0..(MaxAttempts - 1)
  <2>1. ASSUME NEW i \in 1..Len(queue) PROVE queue[i].attempts \in 0..(MaxAttempts - 1)
    <3>1. queue[i] \in PendingSave
      BY ElementOfSeq
    <3> QED BY <3>1 DEF PendingSave
  <2> QED BY <2>1
<1>3. queue[1].attempts \in tried
  BY <1>1
<1> HIDE DEF tried
<1>4. MaxAttempts - 1 \in bounds
  BY <1>1, <1>2
<1>5. PICK least \in bounds : \A n \in bounds : least <= n
  BY <1>4, LeastNatural
<1>6. least \in tried
  <2>1. CASE least = 0
    <3>1. \A a \in tried : a <= 0 /\ a \in Nat
      BY <1>1, <1>2, <1>5, <2>1
    <3>2. \A a \in tried : a = 0
      BY <3>1
    <3> QED BY <1>3, <2>1, <3>2, Zenon
  <2>2. CASE least > 0
    <3>1. least - 1 \notin bounds /\ least - 1 \in Nat
      BY <1>5, <2>2
    <3>2. PICK a \in tried : ~(a <= least - 1)
      BY <3>1
    <3>3. a <= least /\ a \in Nat /\ least \in Nat
      BY <1>1, <1>2, <1>5
    <3> QED BY <3>2, <3>3
  <2> QED BY <1>5, <2>1, <2>2
<1>7. \E a \in tried : \A c \in tried : c <= a
  BY <1>5, <1>6
<1> QED
  BY <1>2, <1>7 DEF AttemptsBehind, tried

-----------------------------------------------------------------------------
(* Types.                                                                    *)

(* What the types say of the queue's elements and of the revisions. *)
LEMMA TypedElements ==
    ASSUME TypeOK
    PROVE  /\ Len(pendingSaves) \in Nat
           /\ pendingSaves # <<>> <=> Len(pendingSaves) > 0
           /\ \A i \in 1..Len(pendingSaves) : pendingSaves[i] \in PendingSave
           /\ pendingSaves # <<>> => Newest(pendingSaves) \in PendingSave
           /\ NoSave \in PendingSave
           /\ \A t \in Tasks : mem[t] \in Nat /\ disk[t] \in Nat
<1>1. Len(pendingSaves) \in Nat /\ (pendingSaves # <<>> <=> Len(pendingSaves) > 0)
  BY LenProperties, EmptySeq DEF TypeOK
<1>2. \A i \in 1..Len(pendingSaves) : pendingSaves[i] \in PendingSave
  BY ElementOfSeq DEF TypeOK
<1>3. pendingSaves # <<>> => Newest(pendingSaves) \in PendingSave
  BY <1>1, <1>2 DEF Newest
<1>4. NoSave \in PendingSave
  BY BoundsAssumption DEF NoSave, PendingSave, Revisions
<1> QED BY <1>1, <1>2, <1>3, <1>4 DEF TypeOK, Revisions

(* A step that draws an ordinal for a snapshot. *)
LEMMA DrawnTyped ==
    ASSUME TypeOK, NEW revisions \in Revisions, DrawVersion(revisions)
    PROVE  /\ mem' \in Revisions
           /\ pendingVersion' \in Nat
           /\ stateAt' \in Seq(Revisions)
           /\ Len(stateAt') = Len(stateAt) + 1
           /\ stateAt'[Len(stateAt) + 1] = revisions
           /\ \A v \in 1..Len(stateAt) : stateAt'[v] = stateAt[v]
BY AppendProperties DEF TypeOK, DrawVersion

(* An edit raises the revision of one task. *)
LEMMA RaisedTyped ==
    ASSUME TypeOK, NEW t \in Tasks
    PROVE  /\ Raised(t) \in Revisions
           /\ Raised(t)[t] = mem[t] + 1
           /\ \A u \in Tasks \ {t} : Raised(t)[u] = mem[u]
BY DEF TypeOK, Revisions, Raised

(* A step that queues a snapshot. *)
LEMMA EnqueuedTyped ==
    ASSUME TypeOK, NEW version \in Nat, NEW data \in Revisions, Enqueue(version, data)
    PROVE  LET save == [version |-> version, data |-> data, attempts |-> 0]
           IN  /\ save \in PendingSave
               /\ pendingSaves' = Capped(Pushed(save))
               /\ pendingSaves' \in Seq(PendingSave)
               /\ failure' \in BOOLEAN
               /\ failure => failure'
<1> DEFINE save == [version |-> version, data |-> data, attempts |-> 0]
<1>1. save \in PendingSave
  BY BoundsAssumption DEF PendingSave
<1>2. pendingSaves' = Capped(Pushed(save))
  BY DEF Enqueue, Pushed
<1>3. pendingSaves' \in Seq(PendingSave)
  BY <1>1, <1>2, PushedProperties
<1>4. failure' \in BOOLEAN /\ (failure => failure')
  BY DEF Enqueue, TypeOK
<1> QED BY <1>1, <1>2, <1>3, <1>4

(* A single-row edit keeps the types. *)
LEMMA EditRowTyped ==
    ASSUME TypeOK, NEW t \in Tasks, EditRow(t)
    PROVE  TypeOK'
<1>1. DrawVersion(Raised(t)) /\ Raised(t) \in Revisions
  BY RaisedTyped DEF EditRow
<1>2. /\ mem' \in Revisions /\ pendingVersion' \in Nat /\ stateAt' \in Seq(Revisions)
  BY <1>1, DrawnTyped
<1>3. immediates' \subseteq ImmediateSave
  BY <1>1 DEF TypeOK, EditRow, ImmediateSave
<1> QED BY <1>2, <1>3 DEF TypeOK, EditRow

(* An edit that queues a snapshot keeps the types. *)
LEMMA EditSnapshotTyped ==
    ASSUME TypeOK, NEW t \in Tasks, EditSnapshot(t)
    PROVE  TypeOK'
<1>1. DrawVersion(Raised(t)) /\ Raised(t) \in Revisions /\ pendingVersion + 1 \in Nat
  BY RaisedTyped DEF EditSnapshot, TypeOK
<1>2. /\ mem' \in Revisions /\ pendingVersion' \in Nat /\ stateAt' \in Seq(Revisions)
  BY <1>1, DrawnTyped
<1>3. pendingSaves' \in Seq(PendingSave) /\ failure' \in BOOLEAN
  BY <1>1, EnqueuedTyped DEF EditSnapshot
<1> QED BY <1>2, <1>3 DEF TypeOK, EditSnapshot

(* retryPersistence keeps the types. *)
LEMMA RetryPersistenceTyped ==
    ASSUME TypeOK, RetryPersistence
    PROVE  TypeOK'
<1>1. DrawVersion(mem) /\ mem \in Revisions /\ pendingVersion + 1 \in Nat
  BY DEF RetryPersistence, TypeOK
<1>2. /\ mem' \in Revisions /\ pendingVersion' \in Nat /\ stateAt' \in Seq(Revisions)
  BY <1>1, DrawnTyped
<1>3. pendingSaves' \in Seq(PendingSave) /\ failure' \in BOOLEAN
  BY <1>1, EnqueuedTyped DEF RetryPersistence
<1> QED BY <1>2, <1>3 DEF TypeOK, RetryPersistence, Callers

(* An immediate write that succeeds keeps the types. *)
LEMMA ImmediateSavedTyped ==
    ASSUME TypeOK, NEW m \in immediates, ImmediateSaved(m)
    PROVE  TypeOK'
<1>1. m \in ImmediateSave
  BY DEF TypeOK
<1>2. disk' \in Revisions
  BY <1>1 DEF TypeOK, ImmediateSaved, ImmediateSave, Revisions, KeepHigher
<1> QED BY <1>2 DEF TypeOK, ImmediateSaved

(* An immediate write that fails keeps the types. *)
LEMMA ImmediateFailedTyped ==
    ASSUME TypeOK, NEW m \in immediates, ImmediateFailed(m)
    PROVE  TypeOK'
<1> DEFINE save == [version |-> m.version, data |-> m.data, attempts |-> 0]
<1>1. m \in ImmediateSave
  BY DEF TypeOK
<1>2. save \in PendingSave
  BY <1>1, BoundsAssumption DEF ImmediateSave, PendingSave
<1>3. pendingSaves' \in Seq(PendingSave)
  BY <1>2, PushedProperties DEF ImmediateFailed, Pushed, TypeOK
<1>4. /\ pc' \in [Callers -> {"idle", "check", "await", "joined", "saving", "sleep"}]
      /\ awaited' \in [Callers -> SUBSET Nat]
  BY DEF TypeOK, ImmediateFailed, RejectAwaiting
<1> QED BY <1>3, <1>4 DEF TypeOK, ImmediateFailed

(* The steps of a flush that only wait or return. *)
Waits(c) == AwaitImmediates(c) \/ JoinSave(c) \/ ReturnEmpty(c) \/ Wake(c)

(* Starting a flush and its waiting keep the types. *)
LEMMA WaitsTyped ==
    ASSUME TypeOK, NEW c \in Callers, Flush(c) \/ Waits(c)
    PROVE  TypeOK'
<1>1. CASE AwaitImmediates(c)
  <2>1. {m.version : m \in immediates} \subseteq Nat
    BY DEF TypeOK, ImmediateSave
  <2> QED BY <1>1, <2>1 DEF TypeOK, AwaitImmediates
<1>2. CASE Flush(c)
  BY <1>2 DEF TypeOK, Flush
<1>3. CASE JoinSave(c) \/ ReturnEmpty(c) \/ Wake(c)
  BY <1>3 DEF TypeOK, JoinSave, ReturnEmpty, Wake
<1> QED BY <1>1, <1>2, <1>3 DEF Waits

(* A flush that takes the queue empties it and writes its newest snapshot. *)
LEMMA TakeQueueTyped ==
    ASSUME TypeOK, NEW c \in Callers, TakeQueue(c)
    PROVE  /\ TypeOK'
           /\ pendingSaves' = <<>>
           /\ Newest(pendingSaves).version > savedVersion =>
                 /\ saveInFlight'.version = Newest(pendingSaves).version
                 /\ saveInFlight'.data = Newest(pendingSaves).data
                 /\ pc' = [pc EXCEPT ![c] = "saving"]
<1>1. pendingSaves # <<>> /\ pendingSaves \in Seq(PendingSave)
  BY DEF TakeQueue, MayTake, TypeOK
<1>2. AttemptsBehind(pendingSaves) \in 0..(MaxAttempts - 1)
  BY <1>1, AttemptsBounded
<1>3. Newest(pendingSaves) \in PendingSave
  BY <1>1, TypedElements
<1>4. [Newest(pendingSaves) EXCEPT !.attempts = AttemptsBehind(pendingSaves)] \in PendingSave
  BY <1>2, <1>3 DEF PendingSave
<1>5. saveInFlight' \in PendingSave
  BY <1>4 DEF TakeQueue, TypeOK
<1>6. pendingSaves' = <<>> /\ pendingSaves' \in Seq(PendingSave)
  BY EmptySeq DEF TakeQueue
<1>7. pc' \in [Callers -> {"idle", "check", "await", "joined", "saving", "sleep"}]
  BY DEF TakeQueue, TypeOK
<1>8. TypeOK'
  BY <1>5, <1>6, <1>7 DEF TypeOK, TakeQueue
<1>9. ASSUME Newest(pendingSaves).version > savedVersion
      PROVE  /\ saveInFlight'.version = Newest(pendingSaves).version
             /\ saveInFlight'.data = Newest(pendingSaves).data
             /\ pc' = [pc EXCEPT ![c] = "saving"]
  <2>1. ~(Newest(pendingSaves).version <= savedVersion)
    BY <1>3, <1>9 DEF TypeOK, PendingSave
  <2>2. /\ saveInFlight' = [Newest(pendingSaves) EXCEPT !.attempts = AttemptsBehind(pendingSaves)]
        /\ pc' = [pc EXCEPT ![c] = "saving"]
    BY <2>1 DEF TakeQueue
  <2> QED BY <1>3, <2>2 DEF PendingSave
<1> QED BY <1>6, <1>8, <1>9

-----------------------------------------------------------------------------
(* Edits and the retry of a failed save.                                     *)

(* What is saved stays saved: storage only rises and history only grows.     *)
LEMMA SavedStaysSaved ==
    ASSUME TypeOK, TypeOK', SnapshotsOfHistory, SavedGenerationDurable,
           \A t \in Tasks : disk[t] <= disk'[t],
           savedVersion' = savedVersion,
           \A v \in 1..Len(stateAt) : stateAt'[v] = stateAt[v]
    PROVE  SavedGenerationDurable'
<1> SUFFICES ASSUME savedVersion > 0, NEW t \in Tasks
             PROVE  disk'[t] >= stateAt'[savedVersion][t]
  BY DEF SavedGenerationDurable
<1>1. savedVersion \in 1..Len(stateAt)
  BY DEF SnapshotsOfHistory, TypeOK
<1>2. stateAt[savedVersion] \in Revisions
  BY <1>1, ElementOfSeq DEF TypeOK
<1>3. disk[t] >= stateAt[savedVersion][t] /\ stateAt'[savedVersion] = stateAt[savedVersion]
  BY <1>1 DEF SavedGenerationDurable
<1>4. disk[t] \in Nat /\ disk'[t] \in Nat /\ stateAt[savedVersion][t] \in Nat
  BY <1>2 DEF TypeOK, Revisions
<1> QED BY <1>3, <1>4

(* The newest snapshot of an ordered queue. *)
LEMMA NewestIsLast ==
    ASSUME TypeOK, QueueInOrder, SnapshotsOfHistory, pendingSaves # <<>>
    PROVE  /\ Newest(pendingSaves).version \in 1..pendingVersion
           /\ Newest(pendingSaves).version > savedVersion
           /\ Newest(pendingSaves).version > saveInFlight.version
           /\ Newest(pendingSaves).data = stateAt[Newest(pendingSaves).version]
           /\ \A m \in immediates : m.version # Newest(pendingSaves).version
           /\ \A i \in 1..Len(pendingSaves) :
                 pendingSaves[i].version <= Newest(pendingSaves).version
<1>1. Len(pendingSaves) \in 1..Len(pendingSaves) /\ Len(pendingSaves) \in Nat
  BY TypedElements
<1>2. \A i \in 1..Len(pendingSaves) : pendingSaves[i].version \in Nat
  BY TypedElements DEF PendingSave
<1>3. \A i \in 1..Len(pendingSaves) :
          i = Len(pendingSaves) \/ pendingSaves[i].version < pendingSaves[Len(pendingSaves)].version
  BY <1>1 DEF QueueInOrder
<1> QED BY <1>1, <1>2, <1>3 DEF Newest, QueueInOrder, SnapshotsOfHistory

(* A single-row edit keeps the queue's invariant. *)
LEMMA EditRowKeeps ==
    ASSUME SaveQueueInv, NEW t \in Tasks, EditRow(t)
    PROVE  SaveQueueInv'
<1> DEFINE row == [version |-> pendingVersion + 1, task |-> t, data |-> Raised(t)]
<1> USE DEF SaveQueueInv, Bookkeeping
<1>1. TypeOK'
  BY EditRowTyped
<1>2. /\ Raised(t) \in Revisions /\ DrawVersion(Raised(t))
      /\ Raised(t)[t] = mem[t] + 1 /\ \A u \in Tasks \ {t} : Raised(t)[u] = mem[u]
  BY RaisedTyped DEF EditRow
<1>3. /\ pendingVersion \in Nat /\ pendingVersion = Len(stateAt)
      /\ pendingVersion' = pendingVersion + 1 /\ mem' = Raised(t)
      /\ stateAt'[pendingVersion + 1] = Raised(t)
      /\ Len(stateAt') = pendingVersion + 1
      /\ \A v \in 1..pendingVersion : stateAt'[v] = stateAt[v]
  BY <1>2, DrawnTyped DEF TypeOK, SnapshotsOfHistory, DrawVersion
<1>4. /\ pendingSaves = <<>> /\ pendingSaves' = <<>> /\ Len(pendingSaves) = 0
      /\ immediates' = immediates \cup {row}
      /\ saveInFlight' = saveInFlight /\ disk' = disk /\ savedVersion' = savedVersion
      /\ pc' = pc /\ awaited' = awaited /\ failure' = failure
  BY DEF EditRow
<1>5. /\ \A m \in immediates : m.version \in 1..pendingVersion
      /\ saveInFlight.version \in 0..pendingVersion
  BY <1>3 DEF SnapshotsOfHistory, NoSave
<1>6. SnapshotsOfHistory'
  BY <1>3, <1>4, <1>5 DEF SnapshotsOfHistory, NoSave
<1>7. QueueInOrder'
  BY <1>3, <1>4, <1>5 DEF QueueInOrder, SnapshotsOfHistory, NoSave
<1>8. CallersInStep'
  BY <1>4 DEF CallersInStep, NoSave
<1>9. ASSUME NEW v \in 0..pendingVersion, NEW u \in Tasks
      PROVE  /\ CarriedAfter(v, u) => CarriedAfter(v, u)'
             /\ mem'[u] = mem[u] \/ CarriedAfter(v, u)'
  <2>1. CASE u = t
    <3>1. /\ row \in immediates' /\ row.version > v /\ row.task = u /\ row.data[u] = mem'[u]
      BY <1>3, <1>4, <2>1
    <3> QED BY <3>1 DEF CarriedAfter
  <2>2. CASE u # t
    <3>1. mem'[u] = mem[u]
      BY <1>2, <1>3, <2>2
    <3> QED BY <1>4, <1>9, <3>1 DEF CarriedAfter
  <2> QED BY <2>1, <2>2
<1>10. LaterEditsCarried'
  <2>1. saveInFlight' # NoSave' => NewerIsCarried(saveInFlight)'
    BY <1>4, <1>5, <1>9 DEF LaterEditsCarried, NewerIsCarried, NoSave, SnapshotsOfHistory
  <2>2. ASSUME NEW m \in immediates' PROVE NewerIsCarried(m)'
    <3>1. CASE m \in immediates
      BY <1>5, <1>9, <3>1 DEF LaterEditsCarried, NewerIsCarried
    <3>2. CASE m = row
      BY <1>3, <3>2 DEF NewerIsCarried
    <3> QED BY <1>4, <3>1, <3>2
  <2> QED BY <1>4, <2>1, <2>2 DEF LaterEditsCarried
<1>11. NothingUnaccounted'
  <2>1. ASSUME NEW u \in Tasks, ~failure
        PROVE  Carried(u)' \/ (saveInFlight' # NoSave' /\ saveInFlight'.data[u] = mem'[u])
    <3>1. Carried(u) \/ (saveInFlight # NoSave /\ saveInFlight.data[u] = mem[u])
      BY <2>1 DEF NothingUnaccounted
    <3>2. CASE Carried(u)
      BY <1>3, <1>9, <3>2 DEF Carried
    <3>3. CASE saveInFlight # NoSave /\ saveInFlight.data[u] = mem[u]
      BY <1>3, <1>4, <1>9, <3>3 DEF Carried, NoSave
    <3> QED BY <3>1, <3>2, <3>3
  <2> QED BY <1>4, <2>1 DEF NothingUnaccounted
<1>12. NothingStranded'
  BY <1>4 DEF NothingStranded
<1>13. SavedGenerationDurable'
  <2>1. \A u \in Tasks : disk[u] <= disk'[u]
    BY <1>4, TypedElements
  <2> QED BY <1>1, <1>3, <1>4, <2>1, SavedStaysSaved
<1> QED BY <1>1, <1>6, <1>7, <1>8, <1>10, <1>11, <1>12, <1>13

(* A step that queues a snapshot of all the store has. *)
LEMMA SnapshotQueuedKeeps ==
    ASSUME SaveQueueInv, TypeOK',
           NEW revisions \in Revisions, DrawVersion(revisions),
           Enqueue(pendingVersion + 1, revisions),
           UNCHANGED <<disk, savedVersion, immediates, saveInFlight>>
    PROVE  /\ SnapshotsOfHistory' /\ QueueInOrder' /\ LaterEditsCarried'
           /\ NothingUnaccounted' /\ SavedGenerationDurable'
<1> DEFINE save == [version |-> pendingVersion + 1, data |-> revisions, attempts |-> 0]
<1> USE DEF SaveQueueInv, Bookkeeping
<1>1. /\ pendingVersion \in Nat /\ pendingVersion = Len(stateAt)
      /\ pendingVersion' = pendingVersion + 1 /\ mem' = revisions
      /\ stateAt'[pendingVersion + 1] = revisions
      /\ Len(stateAt') = pendingVersion + 1
      /\ \A v \in 1..pendingVersion : stateAt'[v] = stateAt[v]
  BY DrawnTyped DEF TypeOK, SnapshotsOfHistory, DrawVersion
<1>2. save \in PendingSave /\ pendingSaves' = Capped(Pushed(save))
  BY <1>1, EnqueuedTyped
<1>3. /\ pendingSaves' # <<>> /\ Newest(pendingSaves') = save
      /\ Len(pendingSaves') \in Nat /\ Len(pendingSaves) \in Nat
      /\ \E dropped \in Nat :
            /\ Len(pendingSaves') + dropped = Len(pendingSaves) + 1
            /\ \A i \in 1..Len(pendingSaves') :
                  pendingSaves'[i] = IF i + dropped <= Len(pendingSaves)
                                     THEN pendingSaves[i + dropped] ELSE save
  BY <1>2, PushedProperties, TypedElements
<1>4. PICK dropped \in Nat :
          /\ Len(pendingSaves') + dropped = Len(pendingSaves) + 1
          /\ \A i \in 1..Len(pendingSaves') :
                pendingSaves'[i] = IF i + dropped <= Len(pendingSaves)
                                   THEN pendingSaves[i + dropped] ELSE save
  BY <1>3
<1>5. /\ \A m \in immediates : m.version \in 1..pendingVersion
      /\ saveInFlight.version \in 0..pendingVersion
      /\ savedVersion \in 0..pendingVersion
      /\ \A i \in 1..Len(pendingSaves) : pendingSaves[i].version \in 1..pendingVersion
  BY <1>1 DEF SnapshotsOfHistory, NoSave
<1>6. SnapshotsOfHistory'
  <2>1. ASSUME NEW i \in 1..Len(pendingSaves')
        PROVE  /\ pendingSaves'[i].version \in 1..pendingVersion'
               /\ pendingSaves'[i].data = stateAt'[pendingSaves'[i].version]
    <3>1. CASE i + dropped <= Len(pendingSaves)
      <4>1. i + dropped \in 1..Len(pendingSaves) /\ pendingSaves'[i] = pendingSaves[i + dropped]
        BY <1>3, <1>4, <3>1
      <4> QED BY <1>1, <4>1 DEF SnapshotsOfHistory
    <3>2. CASE ~(i + dropped <= Len(pendingSaves))
      <4>1. pendingSaves'[i] = save
        BY <1>4, <3>2
      <4> QED BY <1>1, <4>1
    <3> QED BY <3>1, <3>2
  <2> QED BY <1>1, <1>5, <2>1 DEF SnapshotsOfHistory, NoSave
<1>7. QueueInOrder'
  <2>1. ASSUME NEW i \in 1..Len(pendingSaves'), NEW j \in 1..Len(pendingSaves'), i < j
        PROVE  pendingSaves'[i].version < pendingSaves'[j].version
    <3>1. i + dropped \in 1..Len(pendingSaves) /\ pendingSaves'[i] = pendingSaves[i + dropped]
      BY <1>3, <1>4, <2>1
    <3>2. CASE j + dropped <= Len(pendingSaves)
      <4>1. j + dropped \in 1..Len(pendingSaves) /\ pendingSaves'[j] = pendingSaves[j + dropped]
        BY <1>3, <1>4, <3>2
      <4> QED BY <2>1, <3>1, <4>1 DEF QueueInOrder
    <3>3. CASE ~(j + dropped <= Len(pendingSaves))
      <4>1. pendingSaves'[j] = save
        BY <1>4, <3>3
      <4> QED BY <1>1, <1>5, <3>1, <4>1
    <3> QED BY <3>2, <3>3
  <2>2. ASSUME NEW i \in 1..Len(pendingSaves')
        PROVE  /\ pendingSaves'[i].version > savedVersion
               /\ pendingSaves'[i].version > saveInFlight.version
               /\ \A m \in immediates : m.version # pendingSaves'[i].version
    <3>1. CASE i + dropped <= Len(pendingSaves)
      <4>1. i + dropped \in 1..Len(pendingSaves) /\ pendingSaves'[i] = pendingSaves[i + dropped]
        BY <1>3, <1>4, <3>1
      <4> QED BY <4>1 DEF QueueInOrder
    <3>2. CASE ~(i + dropped <= Len(pendingSaves))
      <4>1. pendingSaves'[i] = save
        BY <1>4, <3>2
      <4> QED BY <1>1, <1>5, <4>1
    <3> QED BY <3>1, <3>2
  <2> QED BY <2>1, <2>2 DEF QueueInOrder, NoSave
<1>8. ASSUME NEW v \in 0..pendingVersion, NEW t \in Tasks
      PROVE  CarriedAfter(v, t)'
  BY <1>1, <1>2, <1>3 DEF CarriedAfter
<1>9. LaterEditsCarried'
  <2>1. NewerIsCarried(Newest(pendingSaves))'
    BY <1>1, <1>3 DEF NewerIsCarried
  <2> QED BY <1>5, <1>8, <2>1 DEF LaterEditsCarried, NewerIsCarried, NoSave
<1>10. NothingUnaccounted'
  BY <1>1, <1>8 DEF NothingUnaccounted, Carried
<1>11. SavedGenerationDurable'
  <2>1. \A t \in Tasks : disk[t] <= disk'[t]
    BY TypedElements
  <2> QED BY <1>1, <2>1, SavedStaysSaved
<1> QED BY <1>6, <1>7, <1>9, <1>10, <1>11

(* An edit that queues a snapshot keeps the queue's invariant. *)
LEMMA EditSnapshotKeeps ==
    ASSUME SaveQueueInv, NEW t \in Tasks, EditSnapshot(t)
    PROVE  SaveQueueInv'
<1> USE DEF SaveQueueInv, Bookkeeping
<1>1. TypeOK' /\ Raised(t) \in Revisions
  BY EditSnapshotTyped, RaisedTyped
<1>2. CallersInStep' /\ NothingStranded'
  BY DEF EditSnapshot, CallersInStep, NothingStranded, NoSave
<1> QED BY <1>1, <1>2, SnapshotQueuedKeeps DEF EditSnapshot

(* retryPersistence keeps the queue's invariant. *)
LEMMA RetryPersistenceKeeps ==
    ASSUME SaveQueueInv, RetryPersistence
    PROVE  SaveQueueInv'
<1> USE DEF SaveQueueInv, Bookkeeping
<1>1. TypeOK' /\ mem \in Revisions
  BY RetryPersistenceTyped DEF TypeOK
<1>2. CallersInStep' /\ NothingStranded'
  BY DEF RetryPersistence, CallersInStep, NothingStranded, NoSave, Callers, TypeOK
<1> QED BY <1>1, <1>2, SnapshotQueuedKeeps DEF RetryPersistence

-----------------------------------------------------------------------------
(* Single rows.                                                              *)

(* An immediate write that succeeds keeps the queue's invariant. *)
LEMMA ImmediateSavedKeeps ==
    ASSUME SaveQueueInv, NEW m \in immediates, ImmediateSaved(m)
    PROVE  SaveQueueInv'
<1> USE DEF SaveQueueInv, Bookkeeping
<1>1. TypeOK'
  BY ImmediateSavedTyped
<1>2. /\ mem' = mem /\ pendingVersion' = pendingVersion /\ savedVersion' = savedVersion
      /\ pendingSaves' = pendingSaves /\ saveInFlight' = saveInFlight
      /\ failure' = failure /\ stateAt' = stateAt /\ timer' = timer
      /\ immediates' = immediates \ {m}
  BY DEF ImmediateSaved
<1>3. /\ \A t \in Tasks : disk[t] <= disk'[t]
      /\ m.task \in Tasks /\ disk'[m.task] >= m.data[m.task]
  BY <1>1 DEF TypeOK, ImmediateSaved, ImmediateSave, Revisions, KeepHigher
<1>4. SnapshotsOfHistory' /\ QueueInOrder'
  BY <1>2 DEF SnapshotsOfHistory, QueueInOrder, NoSave
<1>5. CallersInStep'
  <2>1. \A c \in Callers : pc'[c] = "saving" <=> pc[c] = "saving"
    BY DEF ImmediateSaved, CallersInStep, TypeOK
  <2>2. \A c \in Callers : awaited'[c] # {} <=> pc'[c] = "await"
    BY DEF ImmediateSaved, CallersInStep, TypeOK
  <2> QED BY <1>2, <2>1, <2>2 DEF CallersInStep, NoSave
<1>6. ASSUME NEW v \in Nat, NEW t \in Tasks, CarriedAfter(v, t)
      PROVE  CarriedAfter(v, t)'
  <2>1. mem[t] \in Nat /\ disk[t] \in Nat /\ disk'[t] \in Nat
    BY <1>1 DEF TypeOK, Revisions
  <2>2. CASE disk[t] >= mem[t]
    BY <1>2, <1>3, <2>1, <2>2 DEF CarriedAfter
  <2>3. CASE m.task = t /\ m.data[t] = mem[t]
    BY <1>2, <1>3, <2>3 DEF CarriedAfter
  <2>4. CASE \E n \in immediates \ {m} : n.version > v /\ n.task = t /\ n.data[t] = mem[t]
    BY <1>2, <2>4 DEF CarriedAfter
  <2>5. CASE /\ pendingSaves # <<>>
             /\ Newest(pendingSaves).version > v
             /\ Newest(pendingSaves).data[t] = mem[t]
    BY <1>2, <2>5 DEF CarriedAfter
  <2> QED BY <1>6, <2>2, <2>3, <2>4, <2>5 DEF CarriedAfter
<1>7. ASSUME NEW save, save.version \in Nat, NewerIsCarried(save)
      PROVE  NewerIsCarried(save)'
  BY <1>2, <1>6, <1>7 DEF NewerIsCarried
<1>8. /\ saveInFlight.version \in Nat
      /\ \A n \in immediates : n.version \in Nat
      /\ pendingSaves # <<>> => Newest(pendingSaves).version \in Nat
  BY TypedElements DEF TypeOK, PendingSave, ImmediateSave
<1>9. LaterEditsCarried'
  BY <1>2, <1>6, <1>8 DEF LaterEditsCarried, NewerIsCarried, NoSave
<1>10. NothingUnaccounted'
  BY <1>2, <1>6 DEF NothingUnaccounted, Carried, NoSave
<1>11. NothingStranded'
  BY <1>2 DEF NothingStranded, ImmediateSaved, TypeOK
<1>12. SavedGenerationDurable'
  BY <1>1, <1>2, <1>3, SavedStaysSaved
<1> QED BY <1>1, <1>4, <1>5, <1>9, <1>10, <1>11, <1>12

(* A flush that awaited the failed row is rejected; nobody else moves. *)
LEMMA RejectedCallers ==
    ASSUME SaveQueueInv, NEW m \in immediates, RejectAwaiting(m),
           saveInFlight' = saveInFlight
    PROVE  CallersInStep'
<1> USE DEF SaveQueueInv, Bookkeeping
<1>1. \A c \in Callers : pc'[c] = "saving" <=> pc[c] = "saving"
  BY DEF RejectAwaiting, CallersInStep, TypeOK
<1>2. \A c \in Callers : awaited'[c] # {} <=> pc'[c] = "await"
  BY DEF RejectAwaiting, CallersInStep, TypeOK
<1> QED BY <1>1, <1>2 DEF CallersInStep, NoSave

(* The snapshot of the failed row is superseded by a newer one. *)
LEMMA ImmediateSuperseded ==
    ASSUME SaveQueueInv, NEW m \in immediates, ImmediateFailed(m), HasNewer(m.version)
    PROVE  SaveQueueInv'
<1> USE DEF SaveQueueInv, Bookkeeping
<1>1. TypeOK' /\ CallersInStep'
  BY ImmediateFailedTyped, RejectedCallers DEF ImmediateFailed
<1>2. /\ mem' = mem /\ disk' = disk /\ pendingVersion' = pendingVersion
      /\ savedVersion' = savedVersion /\ pendingSaves' = pendingSaves
      /\ saveInFlight' = saveInFlight /\ stateAt' = stateAt
      /\ immediates' = immediates \ {m} /\ failure' = TRUE
  BY DEF ImmediateFailed
<1>3. SnapshotsOfHistory' /\ QueueInOrder' /\ NothingUnaccounted' /\ NothingStranded'
  BY <1>2 DEF SnapshotsOfHistory, QueueInOrder, NoSave, NothingUnaccounted, NothingStranded
<1>4. SavedGenerationDurable'
  BY <1>2 DEF SavedGenerationDurable
<1>5. /\ pendingSaves # <<>> /\ NewerIsCarried(Newest(pendingSaves))
      /\ m.version \in Nat /\ Newest(pendingSaves).version \in Nat
      /\ Newest(pendingSaves).version > m.version
  <2>1. PICK i \in 1..Len(pendingSaves) : pendingSaves[i].version > m.version
    BY DEF HasNewer
  <2>2. pendingSaves # <<>>
    BY <2>1, TypedElements
  <2>3. pendingSaves[i].version <= Newest(pendingSaves).version
    BY <2>1, <2>2, NewestIsLast
  <2>4. /\ m.version \in Nat /\ pendingSaves[i].version \in Nat
        /\ Newest(pendingSaves).version \in Nat
    BY <2>1, <2>2, TypedElements DEF TypeOK, ImmediateSave, PendingSave
  <2> QED BY <2>1, <2>2, <2>3, <2>4 DEF LaterEditsCarried
<1>6. ASSUME NEW v \in Nat, NEW t \in Tasks, CarriedAfter(v, t)
      PROVE  CarriedAfter(v, t)'
  <2>1. CASE disk[t] >= mem[t]
    BY <1>2, <2>1 DEF CarriedAfter
  <2>2. CASE m.version > v /\ m.task = t /\ m.data[t] = mem[t]
    <3>1. CASE mem[t] = Newest(pendingSaves).data[t]
      BY <1>2, <1>5, <2>2, <3>1 DEF CarriedAfter
    <3>2. CASE disk[t] >= mem[t]
      BY <1>2, <3>2 DEF CarriedAfter
    <3>3. CASE \E n \in immediates : /\ n.version > Newest(pendingSaves).version
                                     /\ n.task = t /\ n.data[t] = mem[t]
      <4>1. PICK n \in immediates : /\ n.version > Newest(pendingSaves).version
                                    /\ n.task = t /\ n.data[t] = mem[t]
        BY <3>3
      <4>2. n.version \in Nat
        BY DEF TypeOK, ImmediateSave
      <4>3. n # m /\ n.version > v
        BY <1>5, <2>2, <4>1, <4>2
      <4> QED BY <1>2, <4>1, <4>3 DEF CarriedAfter
    <3> QED BY <1>5, <3>1, <3>2, <3>3 DEF NewerIsCarried, CarriedAfter
  <2>3. CASE \E n \in immediates \ {m} : n.version > v /\ n.task = t /\ n.data[t] = mem[t]
    BY <1>2, <2>3 DEF CarriedAfter
  <2>4. CASE Newest(pendingSaves).version > v /\ Newest(pendingSaves).data[t] = mem[t]
    BY <1>2, <1>5, <2>4 DEF CarriedAfter
  <2> QED BY <1>6, <2>1, <2>2, <2>3, <2>4 DEF CarriedAfter
<1>7. /\ saveInFlight.version \in Nat
      /\ \A n \in immediates : n.version \in Nat
  BY DEF TypeOK, PendingSave, ImmediateSave
<1>8. LaterEditsCarried'
  BY <1>2, <1>5, <1>6, <1>7 DEF LaterEditsCarried, NewerIsCarried, NoSave
<1> QED BY <1>1, <1>3, <1>4, <1>8

(* The snapshot of the failed row becomes the newest one queued. *)
LEMMA ImmediateQueued ==
    ASSUME SaveQueueInv, NEW m \in immediates, ImmediateFailed(m), ~HasNewer(m.version)
    PROVE  SaveQueueInv'
<1> DEFINE save == [version |-> m.version, data |-> m.data, attempts |-> 0]
<1> USE DEF SaveQueueInv, Bookkeeping
<1>1. TypeOK' /\ CallersInStep'
  BY ImmediateFailedTyped, RejectedCallers DEF ImmediateFailed
<1>2. /\ mem' = mem /\ disk' = disk /\ pendingVersion' = pendingVersion
      /\ savedVersion' = savedVersion /\ pendingSaves' = Capped(Pushed(save))
      /\ saveInFlight' = saveInFlight /\ stateAt' = stateAt
      /\ immediates' = immediates \ {m} /\ failure' = TRUE
  BY DEF ImmediateFailed, Pushed
<1>3. /\ m \in ImmediateSave /\ m.version \in Nat /\ m.version \in 1..pendingVersion
      /\ m.data = stateAt[m.version] /\ m.version > savedVersion
      /\ m.version > saveInFlight.version
      /\ \A n \in immediates : n.version \in Nat /\ (n.version = m.version => n = m)
  BY DEF TypeOK, ImmediateSave, SnapshotsOfHistory, QueueInOrder
<1>4. save \in PendingSave
  BY <1>3, BoundsAssumption DEF PendingSave, ImmediateSave
<1>5. /\ pendingSaves' # <<>> /\ Newest(pendingSaves') = save
      /\ Len(pendingSaves') \in Nat /\ Len(pendingSaves) \in Nat
  BY <1>2, <1>4, PushedProperties, TypedElements
<1>6. PICK dropped \in Nat :
          /\ Len(pendingSaves') + dropped = Len(pendingSaves) + 1
          /\ \A i \in 1..Len(pendingSaves') :
                pendingSaves'[i] = IF i + dropped <= Len(pendingSaves)
                                   THEN pendingSaves[i + dropped] ELSE save
  BY <1>2, <1>4, PushedProperties
<1>7. \A i \in 1..Len(pendingSaves) : /\ pendingSaves[i].version \in Nat
                                      /\ pendingSaves[i].version < m.version
  <2> SUFFICES ASSUME NEW i \in 1..Len(pendingSaves)
               PROVE  pendingSaves[i].version \in Nat /\ pendingSaves[i].version < m.version
    OBVIOUS
  <2>1. pendingSaves[i].version \in Nat
    BY TypedElements DEF PendingSave
  <2>2. ~(pendingSaves[i].version > m.version) /\ m.version # pendingSaves[i].version
    BY DEF HasNewer, QueueInOrder
  <2> QED BY <1>3, <2>1, <2>2
<1>8. ASSUME NEW i \in 1..Len(pendingSaves')
      PROVE  \/ /\ i + dropped \in 1..Len(pendingSaves)
                /\ pendingSaves'[i] = pendingSaves[i + dropped]
             \/ pendingSaves'[i] = save
  <2>1. i \in Nat /\ i > 0 /\ dropped \in Nat
    BY <1>5
  <2>2. CASE i + dropped <= Len(pendingSaves)
    BY <1>5, <1>6, <2>1, <2>2
  <2>3. CASE ~(i + dropped <= Len(pendingSaves))
    BY <1>6, <2>3
  <2> QED BY <2>2, <2>3
<1>9. SnapshotsOfHistory'
  <2>1. ASSUME NEW i \in 1..Len(pendingSaves')
        PROVE  /\ pendingSaves'[i].version \in 1..pendingVersion
               /\ pendingSaves'[i].data = stateAt[pendingSaves'[i].version]
    <3>1. CASE i + dropped \in 1..Len(pendingSaves) /\ pendingSaves'[i] = pendingSaves[i + dropped]
      BY <3>1 DEF SnapshotsOfHistory
    <3>2. CASE pendingSaves'[i] = save
      BY <1>3, <3>2
    <3> QED BY <1>8, <3>1, <3>2
  <2> QED BY <1>2, <2>1 DEF SnapshotsOfHistory, NoSave
<1>10. QueueInOrder'
  <2>1. ASSUME NEW i \in 1..Len(pendingSaves'), NEW j \in 1..Len(pendingSaves'), i < j
        PROVE  pendingSaves'[i].version < pendingSaves'[j].version
    <3>1. i + dropped \in 1..Len(pendingSaves) /\ pendingSaves'[i] = pendingSaves[i + dropped]
      BY <1>5, <1>6, <2>1
    <3>2. CASE j + dropped \in 1..Len(pendingSaves) /\ pendingSaves'[j] = pendingSaves[j + dropped]
      <4>1. i + dropped < j + dropped
        BY <2>1, <1>5, <1>6
      <4> QED BY <3>1, <3>2, <4>1 DEF QueueInOrder
    <3>3. CASE pendingSaves'[j] = save
      BY <1>7, <3>1, <3>3
    <3> QED BY <1>8, <3>2, <3>3
  <2>2. ASSUME NEW i \in 1..Len(pendingSaves')
        PROVE  /\ pendingSaves'[i].version > savedVersion
               /\ pendingSaves'[i].version > saveInFlight.version
               /\ \A n \in immediates \ {m} : n.version # pendingSaves'[i].version
    BY <1>3, <1>8 DEF QueueInOrder
  <2> QED BY <1>2, <2>1, <2>2 DEF QueueInOrder, NoSave
<1>11. ASSUME NEW v \in Nat, NEW t \in Tasks, CarriedAfter(v, t)
       PROVE  CarriedAfter(v, t)'
  <2>1. CASE disk[t] >= mem[t]
    BY <1>2, <2>1 DEF CarriedAfter
  <2>2. CASE m.version > v /\ m.data[t] = mem[t]
    BY <1>2, <1>5, <2>2 DEF CarriedAfter
  <2>3. CASE \E n \in immediates \ {m} : n.version > v /\ n.task = t /\ n.data[t] = mem[t]
    BY <1>2, <2>3 DEF CarriedAfter
  <2>4. CASE /\ pendingSaves # <<>>
             /\ Newest(pendingSaves).version > v
             /\ Newest(pendingSaves).data[t] = mem[t]
    <3>1. Newest(pendingSaves).version \in Nat /\ Newest(pendingSaves).version < m.version
      BY <1>5, <1>7, <2>4, TypedElements DEF Newest
    <3>2. m.data[t] = mem[t] \/ CarriedAfter(m.version, t)
      BY DEF LaterEditsCarried, NewerIsCarried
    <3>3. CASE m.data[t] = mem[t]
      BY <1>3, <2>2, <2>4, <3>1, <3>3
    <3>4. CASE disk[t] >= mem[t]
      BY <2>1, <3>4
    <3>5. CASE \E n \in immediates : n.version > m.version /\ n.task = t /\ n.data[t] = mem[t]
      <4>1. PICK n \in immediates : n.version > m.version /\ n.task = t /\ n.data[t] = mem[t]
        BY <3>5
      <4>2. n # m /\ n.version > v
        BY <1>3, <2>4, <3>1, <4>1
      <4> QED BY <2>3, <4>1, <4>2
    <3>6. ~(Newest(pendingSaves).version > m.version)
      BY <1>3, <3>1
    <3> QED BY <3>2, <3>3, <3>4, <3>5, <3>6 DEF CarriedAfter
  <2> QED BY <1>11, <2>1, <2>2, <2>3, <2>4 DEF CarriedAfter
<1>12. saveInFlight.version \in Nat
  BY DEF TypeOK, PendingSave
<1>13. LaterEditsCarried'
  <2>1. NewerIsCarried(m)'
    BY <1>2, <1>3, <1>11 DEF LaterEditsCarried, NewerIsCarried
  <2>2. NewerIsCarried(Newest(pendingSaves))'
    BY <1>5, <2>1 DEF NewerIsCarried
  <2> QED BY <1>2, <1>3, <1>11, <1>12, <2>2 DEF LaterEditsCarried, NewerIsCarried, NoSave
<1>14. NothingUnaccounted' /\ NothingStranded'
  BY <1>2 DEF NothingUnaccounted, NothingStranded
<1>15. SavedGenerationDurable'
  BY <1>2 DEF SavedGenerationDurable
<1> QED BY <1>1, <1>9, <1>10, <1>13, <1>14, <1>15

-----------------------------------------------------------------------------
(* Flushes.                                                                  *)

(* The steps of a flush that move nothing but the flush itself. *)
LEMMA WaitsKeep ==
    ASSUME SaveQueueInv, NEW c \in Callers, Flush(c) \/ Waits(c)
    PROVE  SaveQueueInv'
<1> USE DEF SaveQueueInv, Bookkeeping
<1>1. TypeOK'
  BY WaitsTyped
<1>2. /\ mem' = mem /\ disk' = disk /\ pendingVersion' = pendingVersion
      /\ savedVersion' = savedVersion /\ pendingSaves' = pendingSaves
      /\ immediates' = immediates /\ saveInFlight' = saveInFlight
      /\ failure' = failure /\ stateAt' = stateAt
  BY DEF Waits, Flush, AwaitImmediates, JoinSave, ReturnEmpty, Wake
<1>3. /\ SnapshotsOfHistory' /\ QueueInOrder' /\ NothingUnaccounted' /\ SavedGenerationDurable'
  BY <1>2 DEF SnapshotsOfHistory, QueueInOrder, NoSave, NothingUnaccounted, Carried,
              CarriedAfter, SavedGenerationDurable
<1>4. LaterEditsCarried'
  BY <1>2 DEF LaterEditsCarried, NewerIsCarried, CarriedAfter, NoSave
<1>5. \A d \in Callers : pc'[d] = "saving" <=> pc[d] = "saving"
  BY DEF Waits, Flush, AwaitImmediates, JoinSave, ReturnEmpty, Wake, TypeOK
<1>6. \A d \in Callers : awaited'[d] # {} <=> pc'[d] = "await"
  <2>1. CASE AwaitImmediates(c)
    <3>1. {m.version : m \in immediates} # {}
      BY <2>1 DEF AwaitImmediates
    <3> QED BY <2>1, <3>1 DEF AwaitImmediates, CallersInStep, TypeOK
  <2>2. CASE Flush(c) \/ JoinSave(c) \/ ReturnEmpty(c) \/ Wake(c)
    BY <2>2 DEF Flush, JoinSave, ReturnEmpty, Wake, CallersInStep, TypeOK
  <2> QED BY <2>1, <2>2 DEF Waits
<1>7. CallersInStep'
  BY <1>2, <1>5, <1>6 DEF CallersInStep, NoSave
<1>8. NothingStranded'
  BY DEF Waits, Flush, AwaitImmediates, JoinSave, ReturnEmpty, Wake, NothingStranded, TypeOK
<1> QED BY <1>1, <1>3, <1>4, <1>7, <1>8

(* Taking the queue keeps its invariant. *)
LEMMA TakeQueueKeeps ==
    ASSUME SaveQueueInv, NEW c \in Callers, TakeQueue(c)
    PROVE  SaveQueueInv'
<1> USE DEF SaveQueueInv, Bookkeeping
<1>1. /\ mem' = mem /\ disk' = disk /\ pendingVersion' = pendingVersion
      /\ savedVersion' = savedVersion /\ immediates' = immediates /\ awaited' = awaited
      /\ failure' = failure /\ stateAt' = stateAt
      /\ immediates = {} /\ saveInFlight = NoSave /\ pendingSaves # <<>>
      /\ pc[c] = "check"
  BY DEF TakeQueue, MayTake
<1>2. /\ Newest(pendingSaves).version \in 1..pendingVersion
      /\ Newest(pendingSaves).version > savedVersion
      /\ Newest(pendingSaves).data = stateAt[Newest(pendingSaves).version]
  BY <1>1, NewestIsLast
<1>3. /\ TypeOK' /\ pendingSaves' = <<>>
      /\ saveInFlight'.version = Newest(pendingSaves).version
      /\ saveInFlight'.data = Newest(pendingSaves).data
      /\ pc' = [pc EXCEPT ![c] = "saving"]
  BY <1>2, TakeQueueTyped
<1>4. Len(pendingSaves') = 0
  BY <1>3, EmptySeq
<1>5. saveInFlight' # NoSave'
  BY <1>2, <1>3 DEF NoSave, TypeOK
<1>6. SnapshotsOfHistory' /\ QueueInOrder'
  BY <1>1, <1>2, <1>3, <1>4 DEF SnapshotsOfHistory, QueueInOrder
<1>7. CallersInStep'
  BY <1>1, <1>3, <1>5 DEF CallersInStep, TypeOK
<1>8. \A t \in Tasks : mem[t] = Newest(pendingSaves).data[t] \/ disk[t] >= mem[t]
  <2>1. Newest(pendingSaves).version \in Nat
    BY <1>2 DEF TypeOK
  <2> QED BY <1>1, <2>1 DEF LaterEditsCarried, NewerIsCarried, CarriedAfter
<1>9. LaterEditsCarried' /\ NothingUnaccounted'
  BY <1>1, <1>3, <1>5, <1>8 DEF LaterEditsCarried, NewerIsCarried, NothingUnaccounted, Carried,
                                CarriedAfter
<1>10. NothingStranded' /\ SavedGenerationDurable'
  BY <1>1, <1>3 DEF NothingStranded, SavedGenerationDurable
<1> QED BY <1>3, <1>6, <1>7, <1>9, <1>10

-----------------------------------------------------------------------------
(* The outcomes of writing a snapshot.                                       *)

(* The save being written belongs to one flush, and to none afterwards. *)
LEMMA SaveDoneInStep ==
    ASSUME SaveQueueInv, NEW c \in Callers, pc[c] = "saving",
           NEW outcome \in {"idle", "check", "sleep"}, SaveDone(c, outcome),
           saveInFlight' = NoSave, awaited' = awaited
    PROVE  /\ saveInFlight # NoSave
           /\ pc' \in [Callers -> {"idle", "check", "await", "joined", "saving", "sleep"}]
           /\ pc'[c] = outcome
           /\ CallersInStep'
<1> USE DEF SaveQueueInv, Bookkeeping
<1>1. saveInFlight # NoSave
  BY DEF CallersInStep
<1>2. pc' \in [Callers -> {"idle", "check", "await", "joined", "saving", "sleep"}] /\ pc'[c] = outcome
  BY DEF SaveDone, TypeOK
<1>3. \A d \in Callers : pc'[d] # "saving"
  BY DEF SaveDone, CallersInStep
<1>4. \A d \in Callers : awaited'[d] # {} <=> pc'[d] = "await"
  BY DEF SaveDone, CallersInStep
<1>5. CallersInStep'
  BY <1>3, <1>4 DEF CallersInStep, NoSave
<1> QED BY <1>1, <1>2, <1>5

(* A saved snapshot keeps the queue's invariant. *)
LEMMA SnapshotSavedKeeps ==
    ASSUME SaveQueueInv, NEW c \in Callers, SnapshotSaved(c)
    PROVE  SaveQueueInv'
<1> USE DEF SaveQueueInv, Bookkeeping
<1>1. /\ mem' = mem /\ pendingVersion' = pendingVersion /\ stateAt' = stateAt
      /\ pendingSaves' = pendingSaves /\ immediates' = immediates /\ awaited' = awaited
      /\ timer' = timer /\ failure' = FALSE /\ saveInFlight' = NoSave
      /\ savedVersion' = saveInFlight.version /\ pc[c] = "saving"
      /\ disk' = [t \in Tasks |-> KeepHigher(disk[t], saveInFlight.data[t])]
  BY DEF SnapshotSaved
<1>2. /\ saveInFlight # NoSave /\ CallersInStep' /\ pc'[c] = "check"
      /\ pc' \in [Callers -> {"idle", "check", "await", "joined", "saving", "sleep"}]
  BY <1>1, SaveDoneInStep DEF SnapshotSaved
<1>3. /\ saveInFlight \in PendingSave /\ saveInFlight.version \in 1..pendingVersion
      /\ saveInFlight.data = stateAt[saveInFlight.version]
      /\ saveInFlight.data \in Revisions /\ saveInFlight.version \in Nat
  BY <1>2 DEF TypeOK, SnapshotsOfHistory, PendingSave
<1>4. /\ disk' \in Revisions
      /\ \A t \in Tasks : disk'[t] >= disk[t] /\ disk'[t] >= saveInFlight.data[t]
  BY <1>1, <1>3 DEF TypeOK, Revisions, KeepHigher
<1>5. TypeOK'
  BY <1>1, <1>2, <1>3, <1>4, TypedElements DEF TypeOK
<1>6. SnapshotsOfHistory'
  BY <1>1, <1>3 DEF SnapshotsOfHistory, NoSave
<1>7. QueueInOrder'
  <2>1. NoSave.version = 0
    BY DEF NoSave
  <2>2. \A i \in 1..Len(pendingSaves) : pendingSaves[i].version \in Nat
    BY TypedElements DEF PendingSave
  <2>3. \A m \in immediates : m.version \in Nat
    BY DEF TypeOK, ImmediateSave
  <2> QED BY <1>1, <1>3, <2>1, <2>2, <2>3 DEF QueueInOrder, NoSave
<1>8. ASSUME NEW v \in Nat, NEW t \in Tasks, CarriedAfter(v, t)
      PROVE  CarriedAfter(v, t)'
  <2>1. mem[t] \in Nat /\ disk[t] \in Nat /\ disk'[t] \in Nat
    BY <1>5 DEF TypeOK, Revisions
  <2>2. CASE disk[t] >= mem[t]
    BY <1>1, <1>4, <2>1, <2>2 DEF CarriedAfter
  <2>3. CASE ~(disk[t] >= mem[t])
    BY <1>1, <1>8, <2>3 DEF CarriedAfter
  <2> QED BY <2>2, <2>3
<1>9. /\ \A n \in immediates : n.version \in Nat
      /\ pendingSaves # <<>> => Newest(pendingSaves).version \in Nat
  BY TypedElements DEF TypeOK, PendingSave, ImmediateSave
<1>10. LaterEditsCarried'
  BY <1>1, <1>8, <1>9 DEF LaterEditsCarried, NewerIsCarried, NoSave
<1>11. NothingUnaccounted'
  <2> SUFFICES ASSUME NEW t \in Tasks PROVE Carried(t)'
    BY DEF NothingUnaccounted
  <2>1. CASE mem[t] = saveInFlight.data[t]
    BY <1>1, <1>4, <2>1 DEF Carried, CarriedAfter
  <2>2. CASE CarriedAfter(saveInFlight.version, t)
    <3>1. CarriedAfter(0, t)
      BY <1>3, <1>9, <2>2 DEF CarriedAfter
    <3> QED BY <1>8, <3>1 DEF Carried
  <2> QED BY <1>2, <2>1, <2>2 DEF LaterEditsCarried, NewerIsCarried
<1>12. NothingStranded'
  BY <1>2 DEF NothingStranded
<1>13. SavedGenerationDurable'
  BY <1>1, <1>3, <1>4 DEF SavedGenerationDurable
<1> QED BY <1>2, <1>5, <1>6, <1>7, <1>10, <1>11, <1>12, <1>13

(* A failed snapshot that a newer one replaces, or that is given up. *)
LEMMA SnapshotDropped ==
    ASSUME SaveQueueInv, NEW c \in Callers, SnapshotSuperseded(c) \/ SnapshotGivenUp(c)
    PROVE  SaveQueueInv'
<1> USE DEF SaveQueueInv, Bookkeeping
<1>1. /\ mem' = mem /\ disk' = disk /\ pendingVersion' = pendingVersion
      /\ stateAt' = stateAt /\ savedVersion' = savedVersion
      /\ pendingSaves' = pendingSaves /\ immediates' = immediates /\ awaited' = awaited
      /\ timer' = timer /\ saveInFlight' = NoSave /\ pc[c] = "saving"
  BY DEF SnapshotSuperseded, SnapshotGivenUp
<1>2. PICK outcome \in {"idle", "check"} :
          SaveDone(c, outcome) /\ (outcome = "idle" => failure')
  BY DEF SnapshotSuperseded, SnapshotGivenUp
<1>3. /\ saveInFlight # NoSave /\ CallersInStep' /\ pc'[c] = outcome
      /\ pc' \in [Callers -> {"idle", "check", "await", "joined", "saving", "sleep"}]
  BY <1>1, <1>2, SaveDoneInStep
<1>4. failure' \in BOOLEAN /\ (failure => failure')
  BY DEF SnapshotSuperseded, SnapshotGivenUp, TypeOK
<1>5. TypeOK'
  BY <1>1, <1>3, <1>4, TypedElements DEF TypeOK
<1>6. SnapshotsOfHistory' /\ LaterEditsCarried' /\ SavedGenerationDurable'
  BY <1>1 DEF SnapshotsOfHistory, LaterEditsCarried, NewerIsCarried, CarriedAfter,
              SavedGenerationDurable, NoSave
<1>7. /\ \A i \in 1..Len(pendingSaves) : pendingSaves[i].version \in Nat
      /\ \A m \in immediates : m.version \in Nat
      /\ savedVersion \in Nat
  BY TypedElements DEF TypeOK, PendingSave, ImmediateSave
<1>8. QueueInOrder'
  <2>1. /\ \A i \in 1..Len(pendingSaves) : pendingSaves[i].version > 0
        /\ \A m \in immediates : m.version > 0
    BY <1>7 DEF QueueInOrder
  <2> QED BY <1>1, <2>1 DEF QueueInOrder, NoSave
<1>9. NothingUnaccounted'
  <2>1. CASE SnapshotGivenUp(c)
    BY <2>1 DEF SnapshotGivenUp, NothingUnaccounted
  <2>2. CASE SnapshotSuperseded(c)
    <3>1. PICK i \in 1..Len(pendingSaves) : pendingSaves[i].version > saveInFlight.version
      BY <2>2 DEF SnapshotSuperseded, HasNewer
    <3>2. pendingSaves # <<>>
      BY <3>1, TypedElements
    <3>3. /\ Newest(pendingSaves).version > 0 /\ Newest(pendingSaves).version \in Nat
          /\ NewerIsCarried(Newest(pendingSaves))
      BY <3>2, NewestIsLast DEF LaterEditsCarried, TypeOK
    <3>4. ASSUME NEW t \in Tasks PROVE Carried(t)
      <4>1. CASE mem[t] = Newest(pendingSaves).data[t]
        BY <3>2, <3>3, <4>1 DEF Carried, CarriedAfter
      <4>2. CASE CarriedAfter(Newest(pendingSaves).version, t)
        BY <1>7, <3>3, <4>2 DEF Carried, CarriedAfter
      <4> QED BY <3>3, <4>1, <4>2 DEF NewerIsCarried
    <3> QED BY <1>1, <3>4 DEF NothingUnaccounted, Carried, CarriedAfter
  <2> QED BY <2>1, <2>2
<1>10. NothingStranded'
  BY <1>2, <1>3 DEF NothingStranded
<1> QED BY <1>3, <1>5, <1>6, <1>8, <1>9, <1>10

(* A snapshot that is put back finds the queue empty: everything queued is   *)
(* newer than the save under way.                                            *)
LEMMA SnapshotRequeuedKeeps ==
    ASSUME SaveQueueInv, NEW c \in Callers, SnapshotRequeued(c)
    PROVE  /\ SaveQueueInv'
           /\ \A i \in 1..Len(pendingSaves') : pendingSaves'[i].data = saveInFlight.data
<1> USE DEF SaveQueueInv, Bookkeeping
<1>1. /\ mem' = mem /\ disk' = disk /\ pendingVersion' = pendingVersion
      /\ stateAt' = stateAt /\ savedVersion' = savedVersion
      /\ immediates' = immediates /\ awaited' = awaited
      /\ timer' = timer /\ saveInFlight' = NoSave /\ pc[c] = "saving"
      /\ pendingSaves' = Capped(<<[saveInFlight EXCEPT !.attempts = @ + 1]>> \o pendingSaves)
      /\ SaveDone(c, "sleep") /\ ~HasNewer(saveInFlight.version)
      /\ saveInFlight.attempts + 1 < MaxAttempts
  BY DEF SnapshotRequeued
<1>2. /\ saveInFlight # NoSave /\ CallersInStep' /\ pc'[c] = "sleep"
      /\ pc' \in [Callers -> {"idle", "check", "await", "joined", "saving", "sleep"}]
  BY <1>1, SaveDoneInStep
<1>3. pendingSaves = <<>>
  <2>1. ASSUME pendingSaves # <<>> PROVE FALSE
    <3>1. 1 \in 1..Len(pendingSaves)
      BY <2>1, TypedElements
    <3> QED BY <1>1, <3>1 DEF QueueInOrder, HasNewer
  <2> QED BY <2>1
<1>4. PICK again \in PendingSave :
          /\ again = [saveInFlight EXCEPT !.attempts = @ + 1]
          /\ again.version = saveInFlight.version
          /\ again.data = saveInFlight.data
  <2>1. /\ saveInFlight \in PendingSave /\ MaxAttempts \in Nat /\ saveInFlight.attempts \in Nat
        /\ saveInFlight.attempts + 1 \in 0..(MaxAttempts - 1)
    BY <1>1, BoundsAssumption DEF TypeOK, PendingSave
  <2>2. [saveInFlight EXCEPT !.attempts = @ + 1] =
            [version |-> saveInFlight.version, data |-> saveInFlight.data,
             attempts |-> saveInFlight.attempts + 1]
    BY <2>1 DEF PendingSave
  <2>3. [saveInFlight EXCEPT !.attempts = @ + 1] \in PendingSave
    BY <2>1, <2>2 DEF PendingSave
  <2> QED BY <2>2, <2>3
<1>5. /\ <<again>> \o pendingSaves = <<again>>
      /\ <<again>> \in Seq(PendingSave) /\ Len(<<again>>) = 1 /\ <<again>>[1] = again
  BY <1>3, <1>4, ConcatEmptySeq
<1>6. pendingSaves' = <<again>>
  <2>1. Len(<<again>>) <= MaxPending
    BY <1>5, BoundsAssumption
  <2> QED BY <1>1, <1>4, <1>5, <2>1 DEF Capped
<1>7. TypeOK'
  <2>1. failure' \in BOOLEAN
    BY DEF SnapshotRequeued, TypeOK
  <2> QED BY <1>1, <1>2, <1>5, <1>6, <2>1, TypedElements DEF TypeOK
<1>8. /\ pendingSaves' # <<>> /\ Newest(pendingSaves') = again /\ Len(pendingSaves') = 1
      /\ \A i \in 1..Len(pendingSaves') : i = 1 /\ pendingSaves'[i] = again
  BY <1>5, <1>6, EmptySeq DEF Newest
<1>9. /\ saveInFlight.version \in 1..pendingVersion /\ pendingVersion \in Nat
      /\ saveInFlight.data = stateAt[saveInFlight.version]
      /\ saveInFlight.version > savedVersion
      /\ \A m \in immediates : m.version \in Nat /\ m.version > saveInFlight.version
  BY <1>2 DEF TypeOK, SnapshotsOfHistory, QueueInOrder, ImmediateSave
<1>10. SnapshotsOfHistory'
  BY <1>1, <1>4, <1>8, <1>9 DEF SnapshotsOfHistory
<1>11. QueueInOrder'
  <2>1. saveInFlight'.version = 0 /\ saveInFlight' = NoSave'
    BY <1>1 DEF NoSave
  <2>2. \A m, n \in immediates : m.version = n.version => m = n
    BY DEF QueueInOrder
  <2>3. \A m \in immediates : m.version > savedVersion /\ m.version > 0
    BY <1>9 DEF QueueInOrder
  <2>4. \A i, j \in 1..Len(pendingSaves') : ~(i < j)
    BY <1>8
  <2>5. \A i \in 1..Len(pendingSaves') :
            /\ pendingSaves'[i].version > savedVersion /\ pendingSaves'[i].version > 0
            /\ \A m \in immediates : m.version # pendingSaves'[i].version
    <3>1. again.version > savedVersion /\ again.version > 0
      BY <1>4, <1>9
    <3>2. \A m \in immediates : m.version # again.version
      BY <1>4, <1>9
    <3> QED BY <1>8, <3>1, <3>2
  <2> QED BY <1>1, <2>1, <2>2, <2>3, <2>4, <2>5 DEF QueueInOrder
<1>12. ASSUME NEW v \in Nat, NEW t \in Tasks, CarriedAfter(v, t)
       PROVE  CarriedAfter(v, t)'
  BY <1>1, <1>3, <1>12 DEF CarriedAfter
<1>13. LaterEditsCarried'
  <2>1. NewerIsCarried(saveInFlight)
    BY <1>2 DEF LaterEditsCarried
  <2>2. ASSUME NEW t \in Tasks
        PROVE  mem[t] = again.data[t] \/ CarriedAfter(again.version, t)'
    <3>1. mem[t] = saveInFlight.data[t] \/ CarriedAfter(saveInFlight.version, t)
      BY <2>1 DEF NewerIsCarried
    <3>2. again.version \in Nat
      BY DEF PendingSave
    <3>3. CarriedAfter(again.version, t) => CarriedAfter(again.version, t)'
      BY <1>12, <3>2
    <3> QED BY <1>4, <3>1, <3>3
  <2>3. NewerIsCarried(Newest(pendingSaves))'
    BY <1>1, <1>8, <2>2 DEF NewerIsCarried, CarriedAfter
  <2>4. \A m \in immediates : NewerIsCarried(m)'
    BY <1>1, <1>9, <1>12 DEF LaterEditsCarried, NewerIsCarried
  <2> QED BY <1>1, <2>3, <2>4 DEF LaterEditsCarried, NoSave
<1>14. NothingUnaccounted'
  <2>1. ASSUME NEW t \in Tasks, ~failure PROVE Carried(t)'
    <3>1. CASE Carried(t)
      BY <1>12, <3>1 DEF Carried
    <3>2. CASE saveInFlight.data[t] = mem[t]
      <4>1. Newest(pendingSaves)'.version > 0
        BY <1>4, <1>8, <1>9
      <4>2. Newest(pendingSaves)'.data[t] = mem'[t]
        BY <1>1, <1>4, <1>8, <3>2
      <4> QED BY <1>8, <4>1, <4>2 DEF Carried, CarriedAfter
    <3> QED BY <2>1, <3>1, <3>2 DEF NothingUnaccounted
  <2>2. failure => failure'
    BY DEF SnapshotRequeued
  <2> QED BY <2>1, <2>2 DEF NothingUnaccounted
<1>15. NothingStranded' /\ SavedGenerationDurable'
  BY <1>1, <1>2 DEF NothingStranded, SavedGenerationDurable
<1> QED BY <1>2, <1>4, <1>7, <1>8, <1>10, <1>11, <1>13, <1>14, <1>15

-----------------------------------------------------------------------------
(* The queue as a whole.                                                     *)

(* The invariant holds of an empty queue. *)
LEMMA InitHolds ==
    ASSUME Init
    PROVE  SaveQueueInv
<1>1. Len(stateAt) = 0 /\ stateAt \in Seq(Revisions) /\ pendingSaves \in Seq(PendingSave)
  BY EmptySeq DEF Init
<1>2. TypeOK
  <2>1. [t \in Tasks |-> 0] \in Revisions
    BY DEF Revisions
  <2>2. NoSave \in PendingSave
    BY <2>1, BoundsAssumption DEF NoSave, PendingSave
  <2> QED BY <1>1, <2>1, <2>2 DEF Init, TypeOK
<1>3. SnapshotsOfHistory /\ QueueInOrder /\ CallersInStep /\ LaterEditsCarried
  BY <1>1, EmptySeq DEF Init, SnapshotsOfHistory, QueueInOrder, CallersInStep, LaterEditsCarried
<1>4. NothingUnaccounted
  BY DEF Init, NothingUnaccounted, Carried, CarriedAfter
<1>5. NothingStranded /\ SavedGenerationDurable
  BY DEF Init, NothingStranded, SavedGenerationDurable
<1> QED BY <1>2, <1>3, <1>4, <1>5 DEF SaveQueueInv, Bookkeeping

(* An immediate save that fails leaves its snapshot to a newer one, or       *)
(* queues it.                                                                *)
LEMMA ImmediateFailedKeeps ==
    ASSUME SaveQueueInv, NEW m \in immediates, ImmediateFailed(m)
    PROVE  SaveQueueInv'
<1> QED BY ImmediateSuperseded, ImmediateQueued

(* The write of a snapshot to storage keeps the queue's invariant. *)
LEMMA SnapshotWrittenKeeps ==
    ASSUME SaveQueueInv, NEW c \in Callers, SnapshotWritten(c)
    PROVE  SaveQueueInv'
<1> QED BY SnapshotSavedKeeps, SnapshotDropped, SnapshotRequeuedKeeps DEF SnapshotWritten

(* Every step of a flush keeps the queue's invariant. *)
LEMMA FlushStepKeeps ==
    ASSUME SaveQueueInv, NEW c \in Callers, FlushStep(c)
    PROVE  SaveQueueInv'
<1> QED BY WaitsKeep, TakeQueueKeeps DEF FlushStep, Waits

(* So does a step that changes nothing. *)
LEMMA UnchangedKeeps ==
    ASSUME SaveQueueInv, UNCHANGED vars
    PROVE  SaveQueueInv'
<1>1. Bookkeeping'
  BY DEF vars, SaveQueueInv, Bookkeeping, TypeOK, SnapshotsOfHistory, QueueInOrder, CallersInStep,
         LaterEditsCarried, NewerIsCarried, CarriedAfter, NoSave
<1>2. NothingUnaccounted' /\ NothingStranded' /\ SavedGenerationDurable'
  BY DEF vars, SaveQueueInv, NothingUnaccounted, Carried, CarriedAfter, NothingStranded,
         SavedGenerationDurable, NoSave
<1> QED BY <1>1, <1>2 DEF SaveQueueInv

(* Every step of the store and its queue keeps the invariant. *)
LEMMA NextKeeps ==
    ASSUME SaveQueueInv, Next
    PROVE  SaveQueueInv'
<1>1. ASSUME NEW t \in Tasks, EditRow(t) \/ EditSnapshot(t)
      PROVE  SaveQueueInv'
  BY <1>1, EditRowKeeps, EditSnapshotKeeps
<1>2. CASE ImmediateWritten
  BY <1>2, ImmediateSavedKeeps, ImmediateFailedKeeps DEF ImmediateWritten
<1>3. CASE RetryPersistence
  BY <1>3, RetryPersistenceKeeps
<1>4. ASSUME NEW c \in FlushCallers, Flush(c) \/ TimerFires(c)
      PROVE  SaveQueueInv'
  BY <1>4, WaitsKeep DEF TimerFires, Callers
<1>5. ASSUME NEW c \in Callers, FlushStep(c) \/ SnapshotWritten(c)
      PROVE  SaveQueueInv'
  BY <1>5, FlushStepKeeps, SnapshotWrittenKeeps
<1> QED BY <1>1, <1>2, <1>3, <1>4, <1>5 DEF Next

(* The save queue by itself keeps every edit accounted for and every         *)
(* generation reported as saved durable, whatever its writes do.             *)
THEOREM SaveQueueSafe == Spec => []SaveQueueInv
<1>1. Init => SaveQueueInv
  BY InitHolds
<1>2. SaveQueueInv /\ [Next]_vars => SaveQueueInv'
  BY NextKeeps, UnchangedKeeps
<1> QED BY <1>1, <1>2, PTL DEF Spec

(* Storage only rises: an old snapshot written late takes no row back.       *)
LEMMA StorageRises ==
    ASSUME TypeOK, Next \/ UNCHANGED vars
    PROVE  \A t \in Tasks : disk[t] <= disk'[t]
<1>1. \A t \in Tasks : disk[t] \in Nat
  BY DEF TypeOK, Revisions
<1>2. CASE disk' = disk
  BY <1>1, <1>2
<1>3. ASSUME NEW m \in immediates, ImmediateSaved(m)
      PROVE  \A t \in Tasks : disk[t] <= disk'[t]
  <2>1. m.task \in Tasks /\ m.data[m.task] \in Nat
    BY DEF TypeOK, ImmediateSave, Revisions
  <2> QED BY <1>1, <1>3, <2>1 DEF ImmediateSaved, KeepHigher, TypeOK, Revisions
<1>4. ASSUME NEW c \in Callers, SnapshotSaved(c)
      PROVE  \A t \in Tasks : disk[t] <= disk'[t]
  <2>1. \A t \in Tasks : saveInFlight.data[t] \in Nat
    BY DEF TypeOK, PendingSave, Revisions
  <2> QED BY <1>1, <1>4, <2>1 DEF SnapshotSaved, KeepHigher
<1>5. \/ disk' = disk
      \/ \E m \in immediates : ImmediateSaved(m)
      \/ \E c \in Callers : SnapshotSaved(c)
  BY DEF Next, vars, EditRow, EditSnapshot, ImmediateWritten, ImmediateFailed, RetryPersistence,
         Flush, TimerFires, FlushStep, AwaitImmediates, JoinSave, ReturnEmpty, TakeQueue, Wake,
         SnapshotWritten, SnapshotSuperseded, SnapshotRequeued, SnapshotGivenUp
<1> QED BY <1>2, <1>3, <1>4, <1>5

-----------------------------------------------------------------------------
(* A reload beside the queue.                                                *)

(* With nothing loaded the store's reload finds the invariant. *)
LEMMA ReloadInitHolds ==
    ASSUME ReloadInit
    PROVE  QueueInv
<1>1. SaveQueueInv
  BY InitHolds DEF ReloadInit
<1>2. ReloadTypeOK
  BY DEF ReloadInit, ReloadTypeOK, Revisions
<1>3. LoadedIsStored /\ ReadingIsQuiet
  BY DEF ReloadInit, Init, LoadedIsStored, ReadingIsQuiet
<1> QED BY <1>1, <1>2, <1>3 DEF QueueInv

(* A queue without work holds no edit that storage lacks, unless reported. *)
LEMMA NoWorkIsQuiet ==
    ASSUME SaveQueueInv, ~HasPendingSaveWork
    PROVE  /\ immediates = {} /\ saveInFlight = NoSave /\ pendingSaves = <<>>
           /\ Len(pendingSaves) = 0
           /\ failure \/ \A t \in Tasks : mem[t] <= disk[t]
<1>1. immediates = {} /\ saveInFlight = NoSave /\ pendingSaves = <<>>
  BY DEF HasPendingSaveWork
<1>2. failure \/ \A t \in Tasks : disk[t] >= mem[t]
  BY <1>1 DEF SaveQueueInv, NothingUnaccounted, Carried, CarriedAfter
<1>3. \A t \in Tasks : mem[t] \in Nat /\ disk[t] \in Nat
  BY TypedElements DEF SaveQueueInv, Bookkeeping
<1> QED BY <1>1, <1>2, <1>3, EmptySeq

(* Starting fetchData keeps the invariant. *)
LEMMA FetchDataKeeps ==
    ASSUME QueueInv, FetchData
    PROVE  QueueInv'
<1> USE DEF QueueInv
<1>1. SaveQueueInv'
  <2>1. FetchCaller \in Callers
    BY FetchCallerAssumption DEF Callers
  <2> QED BY <2>1, WaitsKeep, UnchangedKeeps DEF FetchData
<1>2. disk' = disk /\ loaded' = loaded /\ edited' = FALSE /\ fetch' \in {"flushing", "reading"}
  BY DEF FetchData, Flush, vars
<1>3. ReloadTypeOK' /\ LoadedIsStored'
  BY <1>2 DEF ReloadTypeOK, LoadedIsStored
<1>4. ReadingIsQuiet'
  <2> SUFFICES ASSUME fetch' = "reading" PROVE ReadingIsQuiet'
    BY <1>2 DEF ReadingIsQuiet
  <2>1. UNCHANGED vars /\ ~HasPendingSaveWork
    BY DEF FetchData
  <2> QED BY <2>1, NoWorkIsQuiet DEF ReadingIsQuiet, vars, NoSave
<1> QED BY <1>1, <1>3, <1>4

(* Reading storage, and giving the load up, keep the invariant. *)
LEMMA ReadingKeeps ==
    ASSUME QueueInv, ReadStorage \/ FetchGivesUp
    PROVE  QueueInv'
<1> USE DEF QueueInv
<1>1. UNCHANGED vars /\ edited' = edited
  BY DEF ReadStorage, FetchGivesUp
<1>2. SaveQueueInv'
  BY <1>1, UnchangedKeeps
<1>3. ReloadTypeOK'
  BY <1>1 DEF ReadStorage, FetchGivesUp, ReloadTypeOK, SaveQueueInv, Bookkeeping, TypeOK
<1>4. LoadedIsStored'
  <2>1. \A t \in Tasks : disk[t] \in Nat
    BY TypedElements DEF SaveQueueInv, Bookkeeping
  <2> QED BY <1>1, <2>1 DEF ReadStorage, FetchGivesUp, LoadedIsStored, vars
<1>5. ReadingIsQuiet'
  <2> SUFFICES ASSUME fetch' \in {"reading", "read"} PROVE ReadingIsQuiet'
    BY DEF ReadingIsQuiet
  <2>1. fetch = "reading"
    BY DEF ReadStorage, FetchGivesUp
  <2> QED BY <1>1, <2>1 DEF ReadingIsQuiet, vars, NoSave
<1> QED BY <1>2, <1>3, <1>4, <1>5

(* What was read is stored, so that after it has replaced the store's rows   *)
(* no save is needed for any of them.                                        *)
LEMMA ApplyLoadKeeps ==
    ASSUME QueueInv, ApplyLoad
    PROVE  QueueInv'
<1> USE DEF QueueInv
<1>1. /\ disk' = disk /\ pendingVersion' = pendingVersion /\ savedVersion' = savedVersion
      /\ pendingSaves' = pendingSaves /\ immediates' = immediates
      /\ saveInFlight' = saveInFlight /\ timer' = timer /\ pc' = pc /\ awaited' = awaited
      /\ failure' = failure /\ stateAt' = stateAt /\ loaded' = loaded /\ edited' = edited
      /\ fetch' = "idle" /\ mem' = IF edited THEN mem ELSE loaded
  BY DEF ApplyLoad
<1>2. ReloadTypeOK' /\ LoadedIsStored' /\ ReadingIsQuiet'
  BY <1>1 DEF ReloadTypeOK, LoadedIsStored, ReadingIsQuiet
<1>3. CASE edited
  <2>1. UNCHANGED vars
    BY <1>1, <1>3 DEF vars
  <2> QED BY <1>2, <2>1, UnchangedKeeps
<1>4. CASE ~edited
  <2>1. mem' = loaded /\ loaded \in Revisions /\ disk \in Revisions
    BY <1>1, <1>4 DEF ReloadTypeOK, SaveQueueInv, Bookkeeping, TypeOK
  <2>2. \A t \in Tasks : disk'[t] >= mem'[t]
    BY <1>1, <2>1 DEF LoadedIsStored, Revisions
  <2>3. TypeOK'
    BY <1>1, <2>1 DEF SaveQueueInv, Bookkeeping, TypeOK
  <2>4. SnapshotsOfHistory' /\ QueueInOrder' /\ CallersInStep'
    BY <1>1 DEF SaveQueueInv, Bookkeeping, SnapshotsOfHistory, QueueInOrder, CallersInStep, NoSave
  <2>5. LaterEditsCarried' /\ NothingUnaccounted'
    BY <2>2 DEF LaterEditsCarried, NewerIsCarried, NothingUnaccounted, Carried, CarriedAfter
  <2>6. NothingStranded' /\ SavedGenerationDurable'
    BY <1>1 DEF SaveQueueInv, NothingStranded, SavedGenerationDurable
  <2> QED BY <1>2, <2>3, <2>4, <2>5, <2>6 DEF SaveQueueInv, Bookkeeping
<1> QED BY <1>3, <1>4

(* An edit beside a load keeps the invariant. *)
LEMMA EditStepKeeps ==
    ASSUME QueueInv, EditStep
    PROVE  QueueInv'
<1> USE DEF QueueInv
<1>1. Next
  BY DEF EditStep, Next
<1>2. SaveQueueInv'
  BY <1>1, NextKeeps
<1>3. disk' = disk /\ fetch' = fetch /\ edited' = TRUE /\ loaded' = loaded
  BY DEF EditStep, EditRow, EditSnapshot
<1>4. ReloadTypeOK' /\ LoadedIsStored' /\ ReadingIsQuiet'
  BY <1>3 DEF ReloadTypeOK, LoadedIsStored, ReadingIsQuiet
<1> QED BY <1>2, <1>4

(* A step of the queue is a step of the store without loads. *)
LEMMA QueueStepIsNext ==
    ASSUME QueueStep
    PROVE  Next
<1> QED BY DEF QueueStep, Next

(* A flush that returns from the top of its loop has found no work left. *)
LEMMA FlushReturnsEmpty ==
    ASSUME SaveQueueInv, QueueStep, pc[FetchCaller] = "check", pc'[FetchCaller] = "idle"
    PROVE  ReturnEmpty(FetchCaller)
<1> USE DEF SaveQueueInv, Bookkeeping
<1>1. FetchCaller \in Callers /\ awaited[FetchCaller] = {}
  BY FetchCallerAssumption DEF Callers, CallersInStep
<1>2. pc \in [Callers -> {"idle", "check", "await", "joined", "saving", "sleep"}]
  BY DEF TypeOK
<1>3. ~ImmediateWritten
  BY <1>1 DEF ImmediateWritten, ImmediateSaved, ImmediateFailed, RejectAwaiting
<1>4. ~RetryPersistence
  BY <1>1, <1>2 DEF RetryPersistence
<1>5. \A c \in FlushCallers : ~Flush(c) /\ ~TimerFires(c)
  BY <1>1, <1>2 DEF Flush, TimerFires
<1>6. \A c \in Callers : ~SnapshotWritten(c)
  BY <1>1 DEF SnapshotWritten, SnapshotSaved, SnapshotSuperseded, SnapshotRequeued,
              SnapshotGivenUp, SaveDone
<1>7. PICK c \in Callers : FlushStep(c)
  BY <1>3, <1>4, <1>5, <1>6 DEF QueueStep
<1> QED BY <1>1, <1>2, <1>7 DEF FlushStep, AwaitImmediates, JoinSave, ReturnEmpty, TakeQueue, Wake

(* What ReadingIsQuiet says of the queue. *)
Quiet ==
    /\ immediates = {}
    /\ saveInFlight # NoSave => saveInFlight.data = mem
    /\ \A i \in 1..Len(pendingSaves) : pendingSaves[i].data = mem
    /\ failure \/ \A t \in Tasks : mem[t] <= disk[t]

(* A quiet queue can only retry what the store has. *)
LEMMA RetryIsQuiet ==
    ASSUME SaveQueueInv, Quiet, RetryPersistence
    PROVE  Quiet'
<1> DEFINE save == [version |-> pendingVersion + 1, data |-> mem, attempts |-> 0]
<1> USE DEF SaveQueueInv, Bookkeeping
<1>1. /\ mem' = mem /\ disk' = disk /\ immediates' = immediates /\ saveInFlight' = saveInFlight
      /\ failure' /\ pendingSaves' = Capped(Pushed(save))
  BY DEF RetryPersistence, DrawVersion, Enqueue, Pushed
<1>2. save \in PendingSave
  BY BoundsAssumption DEF TypeOK, PendingSave
<1>3. Len(pendingSaves) \in Nat
  BY TypedElements
<1> HIDE DEF save
<1>4. PICK dropped \in Nat :
          \A i \in 1..Len(pendingSaves') :
             pendingSaves'[i] = IF i + dropped <= Len(pendingSaves) THEN pendingSaves[i + dropped] ELSE save
  BY <1>1, <1>2, PushedProperties
<1>5. save.data = mem
  BY DEF save
<1>6. ASSUME NEW i \in 1..Len(pendingSaves')
      PROVE  pendingSaves'[i].data = mem
  <2>1. CASE i + dropped <= Len(pendingSaves)
    <3>1. i + dropped \in 1..Len(pendingSaves)
      BY <1>3, <2>1
    <3> QED BY <1>4, <2>1, <3>1 DEF Quiet
  <2>2. CASE ~(i + dropped <= Len(pendingSaves))
    BY <1>4, <1>5, <2>2
  <2> QED BY <2>1, <2>2
<1> QED BY <1>1, <1>6 DEF Quiet, NoSave

(* While nothing is edited a flush leaves a quiet queue quiet. *)
LEMMA FlushIsQuiet ==
    ASSUME SaveQueueInv, Quiet, NEW c \in Callers, Flush(c) \/ FlushStep(c)
    PROVE  Quiet'
<1> USE DEF SaveQueueInv, Bookkeeping
<1>1. CASE Flush(c) \/ Waits(c)
  BY <1>1 DEF Waits, Flush, AwaitImmediates, JoinSave, ReturnEmpty, Wake, Quiet, NoSave
<1>2. CASE TakeQueue(c)
  <2>1. pendingSaves # <<>>
    BY <1>2 DEF TakeQueue, MayTake
  <2>2. pendingSaves' = <<>> /\ saveInFlight'.data = Newest(pendingSaves).data
    BY <1>2, <2>1, TakeQueueTyped, NewestIsLast
  <2>3. Newest(pendingSaves).data = mem
    BY <2>1, TypedElements DEF Quiet, Newest
  <2>4. Len(pendingSaves') = 0
    BY <2>2, EmptySeq
  <2> QED BY <1>2, <2>2, <2>3, <2>4 DEF TakeQueue, Quiet
<1> QED BY <1>1, <1>2 DEF FlushStep, Waits

(* So does the write of its snapshot. *)
LEMMA WriteIsQuiet ==
    ASSUME SaveQueueInv, Quiet, NEW c \in Callers, SnapshotWritten(c)
    PROVE  Quiet'
<1> USE DEF SaveQueueInv, Bookkeeping
<1>1. saveInFlight # NoSave
  BY DEF SnapshotWritten, SnapshotSaved, SnapshotSuperseded, SnapshotRequeued, SnapshotGivenUp,
         CallersInStep
<1>2. mem' = mem /\ immediates' = immediates /\ saveInFlight' = NoSave'
  BY DEF SnapshotWritten, SnapshotSaved, SnapshotSuperseded, SnapshotRequeued, SnapshotGivenUp, NoSave
<1>3. CASE SnapshotSaved(c)
  <2>1. \A t \in Tasks : mem[t] \in Nat /\ disk[t] \in Nat
    BY TypedElements
  <2>2. \A t \in Tasks : disk'[t] = KeepHigher(disk[t], mem[t])
    BY <1>1, <1>3 DEF SnapshotSaved, Quiet
  <2>3. \A t \in Tasks : mem[t] <= disk'[t]
    BY <2>1, <2>2 DEF KeepHigher
  <2> QED BY <1>2, <1>3, <2>3 DEF SnapshotSaved, Quiet
<1>4. CASE SnapshotSuperseded(c) \/ SnapshotGivenUp(c)
  BY <1>2, <1>4 DEF SnapshotSuperseded, SnapshotGivenUp, Quiet
<1>5. CASE SnapshotRequeued(c)
  BY <1>1, <1>2, <1>5, SnapshotRequeuedKeeps DEF SnapshotRequeued, Quiet
<1> QED BY <1>3, <1>4, <1>5 DEF SnapshotWritten

(* A step of the queue beside a load keeps the invariant. *)
LEMMA QueueStepKeeps ==
    ASSUME QueueInv, QueueStep
    PROVE  QueueInv'
<1> USE DEF QueueInv
<1>1. Next /\ TypeOK
  BY QueueStepIsNext DEF SaveQueueInv, Bookkeeping
<1>2. SaveQueueInv' /\ \A t \in Tasks : disk[t] <= disk'[t]
  BY <1>1, NextKeeps, StorageRises
<1>3. loaded' = loaded /\ AfterFlush
  BY DEF QueueStep
<1>4. ReloadTypeOK'
  BY <1>3 DEF AfterFlush, ReloadTypeOK
<1>5. LoadedIsStored'
  <2>1. \A t \in Tasks : loaded[t] \in Nat /\ disk[t] \in Nat /\ disk'[t] \in Nat
    BY <1>2 DEF ReloadTypeOK, SaveQueueInv, Bookkeeping, TypeOK, Revisions
  <2> QED BY <1>2, <1>3, <2>1 DEF LoadedIsStored
<1>6. ReadingIsQuiet'
  <2> SUFFICES ASSUME fetch' \in {"reading", "read"}, ~edited'
               PROVE  Quiet'
    BY DEF ReadingIsQuiet, Quiet
  <2>1. CASE fetch = "flushing"
    <3>1. pc[FetchCaller] = "check" /\ pc'[FetchCaller] = "idle"
      BY <1>3, <2>1 DEF AfterFlush
    <3>2. ReturnEmpty(FetchCaller)
      BY <3>1, FlushReturnsEmpty
    <3>3. ~HasPendingSaveWork
      BY <3>2 DEF ReturnEmpty, HasPendingSaveWork
    <3> QED BY <3>2, <3>3, NoWorkIsQuiet DEF ReturnEmpty, Quiet, NoSave
  <2>2. CASE fetch # "flushing"
    <3>1. fetch' = fetch /\ edited' = edited
      BY <1>3, <2>2 DEF AfterFlush, ReloadTypeOK
    <3>2. Quiet
      BY <3>1 DEF ReadingIsQuiet, Quiet
    <3>3. ~ImmediateWritten
      BY <3>2 DEF ImmediateWritten, Quiet
    <3>4. FlushCallers \subseteq Callers
      BY DEF Callers
    <3> QED BY <3>2, <3>3, <3>4, RetryIsQuiet, FlushIsQuiet, WriteIsQuiet DEF QueueStep, TimerFires
  <2> QED BY <2>1, <2>2
<1> QED BY <1>2, <1>4, <1>5, <1>6

(* Every step of the store with its loads keeps the invariant. *)
LEMMA QueueInvInductive ==
    ASSUME QueueInv, [ReloadNext]_reloadVars
    PROVE  QueueInv'
<1>1. CASE UNCHANGED reloadVars
  <2>1. UNCHANGED vars /\ fetch' = fetch /\ edited' = edited /\ loaded' = loaded
    BY <1>1 DEF reloadVars
  <2>2. SaveQueueInv'
    BY <2>1, UnchangedKeeps DEF QueueInv
  <2>3. ReloadTypeOK' /\ LoadedIsStored' /\ ReadingIsQuiet'
    BY <2>1 DEF QueueInv, ReloadTypeOK, LoadedIsStored, ReadingIsQuiet, vars, NoSave
  <2> QED BY <2>2, <2>3 DEF QueueInv
<1> QED BY <1>1, FetchDataKeeps, ReadingKeeps, ApplyLoadKeeps, EditStepKeeps, QueueStepKeeps
        DEF ReloadNext

(* Beside reloads too: every unsaved edit is on its way to storage or its    *)
(* failure is on display, nothing queued is stranded, a generation reported  *)
(* as saved is stored, and what a reload reads and is about to put into the  *)
(* store is stored.                                                          *)
THEOREM QueueSafe == ReloadSpec => []QueueInv
<1>1. ReloadInit => QueueInv
  BY ReloadInitHolds
<1>2. QueueInv /\ [ReloadNext]_reloadVars => QueueInv'
  BY QueueInvInductive
<1> QED BY <1>1, <1>2, PTL DEF ReloadSpec

(* The store with loads moves as the store without, or applies a load. *)
LEMMA ReloadStepIsQueueStep ==
    ASSUME [ReloadNext]_reloadVars
    PROVE  \/ Next
           \/ UNCHANGED vars
           \/ ApplyLoad
<1>1. FetchCaller \in FlushCallers
  BY FetchCallerAssumption
<1> QED BY <1>1, QueueStepIsNext
        DEF ReloadNext, reloadVars, FetchData, EditStep, Next, ReadStorage, FetchGivesUp

(* Only a reload takes a change out of the store. *)
LEMMA StoreRises ==
    ASSUME TypeOK, Next \/ UNCHANGED vars
    PROVE  \A t \in Tasks : mem[t] <= mem'[t]
<1>1. \A t \in Tasks : mem[t] \in Nat
  BY DEF TypeOK, Revisions
<1>2. CASE mem' = mem
  BY <1>1, <1>2
<1>3. ASSUME NEW u \in Tasks, mem' = Raised(u)
      PROVE  \A t \in Tasks : mem[t] <= mem'[t]
  BY <1>1, <1>3 DEF Raised, TypeOK, Revisions
<1>4. mem' = mem \/ \E u \in Tasks : mem' = Raised(u)
  BY DEF Next, vars, EditRow, EditSnapshot, DrawVersion, ImmediateWritten, ImmediateSaved,
         ImmediateFailed, RetryPersistence, Flush, TimerFires, FlushStep, AwaitImmediates, JoinSave,
         ReturnEmpty, TakeQueue, Wake, SnapshotWritten, SnapshotSaved, SnapshotSuperseded,
         SnapshotRequeued, SnapshotGivenUp
<1> QED BY <1>2, <1>3, <1>4

(* No write of the queue takes a row of storage back, and a reload takes a   *)
(* change that is not stored out of the store only while the failure of its  *)
(* save is on display.                                                       *)
THEOREM NothingTakenBack == ReloadSpec => NothingGoesBack
<1>1. QueueInv /\ [ReloadNext]_reloadVars => [\A t \in Tasks : disk'[t] >= disk[t]]_vars
  <2> SUFFICES ASSUME QueueInv, [ReloadNext]_reloadVars
               PROVE  \A t \in Tasks : disk'[t] >= disk[t]
    OBVIOUS
  <2>1. TypeOK /\ QueueInv'
    BY QueueInvInductive DEF QueueInv, SaveQueueInv, Bookkeeping
  <2>2. \A t \in Tasks : disk[t] \in Nat /\ disk'[t] \in Nat
    BY <2>1 DEF QueueInv, SaveQueueInv, Bookkeeping, TypeOK, Revisions
  <2>3. CASE ApplyLoad
    BY <2>2, <2>3 DEF ApplyLoad
  <2>4. CASE Next \/ UNCHANGED vars
    BY <2>1, <2>2, <2>4, StorageRises
  <2> QED BY <2>3, <2>4, ReloadStepIsQueueStep
<1>2. QueueInv /\ [ReloadNext]_reloadVars =>
          [\A t \in Tasks : mem'[t] < mem[t] => mem[t] <= disk[t] \/ failure]_reloadVars
  <2> SUFFICES ASSUME QueueInv, [ReloadNext]_reloadVars, NEW t \in Tasks, mem'[t] < mem[t]
               PROVE  mem[t] <= disk[t] \/ failure
    OBVIOUS
  <2>1. TypeOK /\ QueueInv'
    BY QueueInvInductive DEF QueueInv, SaveQueueInv, Bookkeeping
  <2>2. mem[t] \in Nat /\ mem'[t] \in Nat
    BY <2>1 DEF QueueInv, SaveQueueInv, Bookkeeping, TypeOK, Revisions
  <2>3. CASE ApplyLoad
    BY <2>2, <2>3 DEF ApplyLoad, QueueInv, ReadingIsQuiet
  <2>4. CASE Next \/ UNCHANGED vars
    BY <2>1, <2>2, <2>4, StoreRises
  <2> QED BY <2>3, <2>4, ReloadStepIsQueueStep
<1> QED BY <1>1, <1>2, QueueSafe, PTL
        DEF NothingGoesBack, DiskNeverGoesBack, ReloadDropsOnlyReported, ReloadSpec
=============================================================================
