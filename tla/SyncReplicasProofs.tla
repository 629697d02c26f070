------------------------- MODULE SyncReplicasProofs --------------------------
(***************************************************************************)
(* What holds of the merge for every pair and triple of versions, and of   *)
(* SyncReplicas for every set of devices.                                  *)
(***************************************************************************)
EXTENDS SyncReplicas, TLAPS

(* Times compare the other way round when the sides are exchanged. *)
LEMMA ComparisonAntisymmetric ==
    ASSUME NEW a \in Versions, NEW b \in Versions, NEW now \in Int
    PROVE  /\ TimeComparison(a, b, now) \in Int
           /\ TimeComparison(b, a, now) = 0 - TimeComparison(a, b, now)
<1>1. /\ a.updatedAt \in Int /\ b.updatedAt \in Int
  BY DEF Versions, Unparsable
<1> QED
  BY <1>1, MergeConstants DEF TimeComparison, SafeTime, WasClamped

(* The tie-breaker by signatures does not depend on the order of its sides:  *)
(* two versions it cannot tell apart are one.                                *)
LEMMA DeterministicSymmetric ==
    ASSUME NEW a \in Versions, NEW b \in Versions
    PROVE  DeterministicWinner(a, b) = DeterministicWinner(b, a)
<1>1. /\ a.updatedAt \in Int /\ b.updatedAt \in Int /\ a.deletedAt \in Int /\ b.deletedAt \in Int
      /\ a.rev \in Int /\ b.rev \in Int /\ a.revBy \in Int /\ b.revBy \in Int
      /\ a.content \in Int /\ b.content \in Int
  BY DEF Versions, Unparsable, NotDeleted
<1>2. CASE /\ a.updatedAt = b.updatedAt /\ a.deletedAt = b.deletedAt /\ a.rev = b.rev
           /\ a.revBy = b.revBy /\ a.content = b.content
  <2>1. a = b
    BY <1>2 DEF Versions
  <2> QED BY <2>1
<1>3. CASE ~(/\ a.updatedAt = b.updatedAt /\ a.deletedAt = b.deletedAt /\ a.rev = b.rev
             /\ a.revBy = b.revBy /\ a.content = b.content)
  BY <1>1, <1>3 DEF DeterministicWinner, SignatureAfter, FullSignatureAfter
<1> QED BY <1>2, <1>3

(* A deletion against a live version: both devices choose the same. *)
LEMMA DeleteVsLiveSymmetric ==
    ASSUME NEW a \in Versions, NEW b \in Versions, NEW now \in Int, Deleted(a) # Deleted(b)
    PROVE  DeleteVsLiveWinner(a, b, now) = DeleteVsLiveWinner(b, a, now)
<1> DEFINE s == OperationTime(a, now)
           t == OperationTime(b, now)
<1>1. s \in Int /\ t \in Int
  BY MergeConstants DEF OperationTime, SafeTime, WasClamped, Versions, Unparsable, NotDeleted
<1>2. a.rev \in Int /\ b.rev \in Int
  BY DEF Versions
<1>3. ~(IsRestore(a) /\ IsRestore(b))
  BY Zenon DEF IsRestore, Deleted
<1>4. Preferred(a, b, ~HasRevision(a, b)) = Preferred(b, a, ~HasRevision(b, a))
  BY DEF Preferred, HasRevision, Deleted
<1> HIDE DEF s, t
<1>5. AmbiguousWindow \in Nat
  BY MergeConstants
<1> QED
  BY <1>1, <1>2, <1>3, <1>4, <1>5 DEF DeleteVsLiveWinner, s, t

(* Two versions with revisions: both devices choose the same. *)
LEMMA RevisionSymmetric ==
    ASSUME NEW a \in Versions, NEW b \in Versions, NEW now \in Int
    PROVE  RevisionWinner(a, b, now) = RevisionWinner(b, a, now)
<1>1. a.rev \in Int /\ b.rev \in Int /\ a.revBy \in Int /\ b.revBy \in Int
  BY DEF Versions
<1>2. DeterministicWinner(a, b) = DeterministicWinner(b, a)
  BY DeterministicSymmetric
<1>3. /\ TimeComparison(a, b, now) \in Int
      /\ TimeComparison(b, a, now) = 0 - TimeComparison(a, b, now)
  BY ComparisonAntisymmetric
<1>4. CASE a.rev # b.rev
  BY <1>1, <1>4 DEF RevisionWinner
<1>5. CASE a.rev = b.rev /\ TimeComparison(a, b, now) # 0
  BY <1>3, <1>5 DEF RevisionWinner, LaterWinner
<1>6. CASE a.rev = b.rev /\ TimeComparison(a, b, now) = 0
  <2>1. TimeComparison(b, a, now) = 0
    BY <1>3, <1>6
  <2> QED
    BY <1>1, <1>2, <1>6, <2>1 DEF RevisionWinner
<1> QED
  BY <1>4, <1>5, <1>6

(* Two versions without revisions: both devices choose the same. *)
LEMMA UnversionedSymmetric ==
    ASSUME NEW a \in Versions, NEW b \in Versions, NEW now \in Int
    PROVE  UnversionedWinner(a, b, now) = UnversionedWinner(b, a, now)
<1>1. SafeTime(a.updatedAt, now) \in Int /\ SafeTime(b.updatedAt, now) \in Int
  BY MergeConstants DEF SafeTime, WasClamped, Versions, Unparsable
<1>2. DeterministicWinner(a, b) = DeterministicWinner(b, a)
  BY DeterministicSymmetric
<1>3. ClockSkewThreshold \in Int
  BY MergeConstants
<1> DEFINE u(x, y) == \E v \in {x, y} : v.updatedAt = Unparsable \/ WasClamped(v.updatedAt, now)
<1>4. u(a, b) <=> u(b, a)
  OBVIOUS
<1>5. /\ TimeComparison(a, b, now) \in Int
      /\ TimeComparison(b, a, now) = 0 - TimeComparison(a, b, now)
  BY ComparisonAntisymmetric
<1>6. CASE TimeComparison(a, b, now) = 0
  <2>1. TimeComparison(b, a, now) = 0
    BY <1>5, <1>6
  <2> QED
    BY <1>2, <1>6, <2>1 DEF UnversionedWinner
<1>7. CASE TimeComparison(a, b, now) # 0
  BY <1>1, <1>2, <1>3, <1>4, <1>5, <1>7 DEF UnversionedWinner, LaterWinner
<1> QED
  BY <1>6, <1>7

(* Whichever side runs it, a merge of two versions keeps the same one, for   *)
(* all versions and clocks: with and without revisions, deleted, restored,   *)
(* stamped in the future or not at all (mergeEntitiesWithStats).             *)
THEOREM MergeIsSymmetric ==
    ASSUME NEW a \in Versions, NEW b \in Versions, NEW now \in Int
    PROVE  MergeWinner(a, b, now) = MergeWinner(b, a, now)
<1>1. CASE Deleted(a) # Deleted(b)
  BY <1>1, DeleteVsLiveSymmetric DEF MergeWinner
<1>2. CASE Deleted(a) = Deleted(b)
  <2>1. HasRevision(a, b) <=> HasRevision(b, a)
    BY DEF HasRevision
  <2> QED
    BY <1>2, <2>1, RevisionSymmetric, UnversionedSymmetric DEF MergeWinner
<1> QED BY <1>1, <1>2

-----------------------------------------------------------------------------
(* Every winner is one of the two versions. *)
LEMMA WinnerIsASide ==
    ASSUME NEW a, NEW b, NEW now
    PROVE  MergeWinner(a, b, now) \in {a, b}
  BY DEF MergeWinner, DeleteVsLiveWinner, Preferred, RevisionWinner, UnversionedWinner,
         LaterWinner, DeterministicWinner

(* A device's clock is a natural number. *)
LEMMA ClocksAreTimes ==
    ASSUME TypeOK, NEW d \in Devices
    PROVE  Clock(d) \in Nat
  BY ReplicaConstants DEF TypeOK, Clock

(* The type invariant of SyncReplicas. *)
LEMMA TypeCorrect == Spec => []TypeOK
<1>1. Init => TypeOK
  <2> SUFFICES ASSUME Init PROVE TypeOK
    OBVIOUS
  <2>1. PICK d \in Devices : /\ local = [e \in Devices |-> Created(d)]
                             /\ remote = Created(d)
                             /\ base = [e \in Devices |-> Created(d)]
    BY DEF Init
  <2>2. Created(d) \in Versions
    BY ReplicaConstants DEF Created, Versions
  <2>3. time = 0 /\ changes = 0 /\ buried = 0
    BY DEF Init
  <2> QED
    BY <2>1, <2>2, <2>3, ReplicaConstants DEF TypeOK
<1>2. TypeOK /\ [Next]_vars => TypeOK'
  <2> SUFFICES ASSUME TypeOK, [Next]_vars PROVE TypeOK'
    OBVIOUS
  <2>1. ASSUME NEW d \in Devices, NEW del \in {NotDeleted, Clock(d)}, Change(d, del)
        PROVE  TypeOK'
    <3>1. Clock(d) \in Nat
      BY ClocksAreTimes
    <3>2. local[d] \in Versions
      BY DEF TypeOK
    <3>3. [updatedAt |-> Clock(d), deletedAt |-> del, rev |-> local[d].rev + 1, revBy |-> d,
           content |-> d] \in Versions
      BY <3>1, <3>2, ReplicaConstants DEF Versions
    <3> QED
      BY <2>1, <3>3, ReplicaConstants DEF Change, TypeOK
  <2>2. ASSUME NEW d \in Devices, Sync(d) PROVE TypeOK'
    <3> DEFINE w == MergeWinner(local[d], remote, Clock(d))
    <3>1. w \in Versions
      BY WinnerIsASide DEF TypeOK
    <3>2. OperationTime(w, Clock(d)) \in Int
      BY <3>1, ClocksAreTimes, MergeConstants
      DEF OperationTime, SafeTime, WasClamped, Versions, Unparsable, NotDeleted
    <3> HIDE DEF w
    <3>3. buried' \in Nat
      BY <2>2, <3>2 DEF Sync, Buried, TypeOK, w
    <3> QED
      BY <2>2, <3>1, <3>3 DEF Sync, TypeOK, w
  <2>3. CASE Tick
    BY <2>3, ReplicaConstants DEF Tick, TypeOK
  <2>4. CASE UNCHANGED vars
    BY <2>4 DEF vars, TypeOK
  <2> QED
    BY <2>1, <2>2, <2>3, <2>4 DEF Next, Edit, Delete, Restore
<1> QED
  BY <1>1, <1>2, PTL DEF Spec

(* The merge of any two versions that devices and the remote document hold   *)
(* at any moment does not depend on who runs it, for every set of devices    *)
(* and every clock drift (mergeEntitiesWithStats on either side of a sync).  *)
THEOREM ReplicasMergeSymmetrically == Spec => []MergeSymmetric
<1>1. TypeOK => MergeSymmetric
  <2> SUFFICES ASSUME TypeOK, NEW v \in Held, NEW w \in Held, NEW d \in Devices
               PROVE  MergeWinner(v, w, Clock(d)) = MergeWinner(w, v, Clock(d))
    BY DEF MergeSymmetric
  <2>1. v \in Versions /\ w \in Versions
    BY DEF Held, TypeOK
  <2>2. Clock(d) \in Int
    BY ClocksAreTimes
  <2> QED
    BY <2>1, <2>2, MergeIsSymmetric
<1> QED
  BY <1>1, TypeCorrect, PTL

-----------------------------------------------------------------------------
(* Live versions, written by current clients whose clocks are not too far    *)
(* ahead: the ones of replicas on which nothing is ever deleted.             *)
Sound(now) ==
    {v \in Versions : /\ ~Deleted(v) /\ v.rev > 0 /\ v.revBy > 0
                      /\ v.updatedAt # Unparsable /\ ~WasClamped(v.updatedAt, now)}

(* Revision, time, device and content, in this order. *)
Outranks(a, b) ==
    \/ a.rev > b.rev
    \/ a.rev = b.rev /\ a.updatedAt > b.updatedAt
    \/ a.rev = b.rev /\ a.updatedAt = b.updatedAt /\ a.revBy > b.revBy
    \/ a.rev = b.rev /\ a.updatedAt = b.updatedAt /\ a.revBy = b.revBy /\ a.content > b.content

(* Among sound versions the merge keeps the one that outranks the other. *)
LEMMA LiveMergeIsMaximum ==
    ASSUME NEW now \in Int, NEW a \in Sound(now), NEW b \in Sound(now)
    PROVE  MergeWinner(a, b, now) = IF Outranks(b, a) THEN b ELSE a
<1>1. /\ a \in Versions /\ b \in Versions /\ ~Deleted(a) /\ ~Deleted(b)
      /\ a.rev > 0 /\ b.rev > 0 /\ a.revBy # 0 /\ b.revBy # 0
      /\ ~WasClamped(a.updatedAt, now) /\ ~WasClamped(b.updatedAt, now)
  BY DEF Sound, Versions
<1>2. /\ a.rev \in Int /\ b.rev \in Int /\ a.revBy \in Int /\ b.revBy \in Int
      /\ a.updatedAt \in Int /\ b.updatedAt \in Int /\ a.content \in Int /\ b.content \in Int
  BY <1>1 DEF Versions, Unparsable
<1>3. a.deletedAt = b.deletedAt /\ a.deletedAt \in Int
  BY <1>1 DEF Deleted, NotDeleted
<1>4. MergeWinner(a, b, now) = RevisionWinner(a, b, now)
  <2>1. HasRevision(a, b)
    BY <1>1 DEF HasRevision
  <2>2. Deleted(a) = Deleted(b)
    BY Zenon, <1>1 DEF Deleted
  <2> QED
    BY <2>1, <2>2 DEF MergeWinner
<1>5. TimeComparison(a, b, now) = b.updatedAt - a.updatedAt
  BY <1>1, <1>2 DEF TimeComparison, SafeTime
<1>6. CASE a.rev # b.rev
  BY <1>2, <1>4, <1>6 DEF RevisionWinner, Outranks
<1>7. CASE a.rev = b.rev /\ a.updatedAt # b.updatedAt
  BY <1>2, <1>4, <1>5, <1>7 DEF RevisionWinner, LaterWinner, Outranks
<1>8. CASE a.rev = b.rev /\ a.updatedAt = b.updatedAt
  <2>1. TimeComparison(a, b, now) = 0
    BY <1>2, <1>5, <1>8
  <2>2. CASE a.revBy # b.revBy
    BY <1>1, <1>2, <1>4, <1>8, <2>1, <2>2 DEF RevisionWinner, Outranks
  <2>3. CASE a.revBy = b.revBy /\ a.content # b.content
    BY <1>2, <1>3, <1>4, <1>8, <2>1, <2>3
    DEF RevisionWinner, DeterministicWinner, SignatureAfter, Outranks
  <2>4. CASE a.revBy = b.revBy /\ a.content = b.content
    <3>1. a = b
      BY <1>1, <1>3, <1>8, <2>4 DEF Versions
    <3> QED
      BY <1>2, <3>1, WinnerIsASide
  <2> QED BY <2>2, <2>3, <2>4
<1> QED BY <1>6, <1>7, <1>8

(* Merging such versions is associative: the version that survives does not  *)
(* depend on the order in which devices sync.  With deletions it does, which *)
(* is why three devices need not converge.                                   *)
THEOREM LiveMergeAssociative ==
    ASSUME NEW now \in Int, NEW a \in Sound(now), NEW b \in Sound(now), NEW c \in Sound(now)
    PROVE  MergeWinner(a, MergeWinner(b, c, now), now) = MergeWinner(MergeWinner(a, b, now), c, now)
<1> DEFINE m(x, y) == IF Outranks(y, x) THEN y ELSE x
<1>1. \A x, y \in Sound(now) : MergeWinner(x, y, now) = m(x, y) /\ m(x, y) \in Sound(now)
  BY LiveMergeIsMaximum
<1>2. \A x \in {a, b, c} : /\ x.rev \in Int /\ x.revBy \in Int /\ x.updatedAt \in Int
                           /\ x.content \in Int
  BY DEF Sound, Versions, Unparsable
<1>3. m(a, m(b, c)) = m(m(a, b), c)
  BY <1>2 DEF Outranks
<1> HIDE DEF m
<1> QED
  BY <1>1, <1>3

-----------------------------------------------------------------------------
(* No clock is ahead of another by more than the window in which a deletion  *)
(* and a live version are taken to be concurrent.                            *)
ClocksAgree == \A d, e \in Devices : Ahead[d] - Ahead[e] <= AmbiguousWindow

(* A version written by one of these devices, at a time its clock has shown. *)
Stamped(v) ==
    /\ v.rev > 0 /\ v.revBy \in Devices
    /\ v.updatedAt \in Nat /\ v.updatedAt <= Clock(v.revBy)
    /\ v.deletedAt \in {NotDeleted, v.updatedAt}

(* What a user has changed since the last sync, made on top of what that     *)
(* sync left: a higher revision, and no older but for the clocks.            *)
OnTop(d) ==
    \/ local[d] = base[d]
    \/ /\ local[d].rev > base[d].rev /\ local[d].revBy = d
       /\ base[d].updatedAt <= local[d].updatedAt + AmbiguousWindow

CausalInv ==
    /\ TypeOK
    /\ Stamped(remote)
    /\ \A d \in Devices : Stamped(local[d]) /\ Stamped(base[d]) /\ OnTop(d)

(* The inductive invariant is what the property needs. *)
LEMMA CausalInvImplies == CausalInv => CausalChangeWins
<1> SUFFICES ASSUME CausalInv, NEW d \in Devices, base[d] = remote
             PROVE  MergeWinner(local[d], remote, Clock(d)) = local[d]
  BY DEF CausalChangeWins
<1> DEFINE l == local[d]
           r == remote
           now == Clock(d)
<1>1. now \in Nat /\ AmbiguousWindow \in Nat /\ ClockSkewThreshold \in Nat
  BY ClocksAreTimes, MergeConstants DEF CausalInv
<1>2. l \in Versions /\ r \in Versions /\ Stamped(l) /\ Stamped(r)
  BY DEF CausalInv, TypeOK
<1>3. CASE l = r
  BY <1>3, WinnerIsASide
<1>4. CASE l # r
  <2>1. /\ l.rev > r.rev /\ l.revBy = d /\ r.updatedAt <= l.updatedAt + AmbiguousWindow
    BY <1>4 DEF CausalInv, OnTop
  <2>2. l.rev \in Nat /\ r.rev \in Nat
    BY <1>2 DEF Versions
  <2>3. l.updatedAt \in Nat /\ r.updatedAt \in Nat /\ l.updatedAt <= now
    BY <1>2, <2>1 DEF Stamped
  <2>4. CASE Deleted(l) = Deleted(r)
    <3>1. HasRevision(l, r)
      BY <2>1, <2>2 DEF HasRevision
    <3>2. RevisionWinner(l, r, now) = l
      BY <2>1, <2>2 DEF RevisionWinner
    <3> QED
      BY <2>4, <3>1, <3>2, Zenon DEF MergeWinner
  <2>5. CASE Deleted(l) # Deleted(r)
    <3>1. ~IsRestore(l) /\ ~IsRestore(r)
      BY <1>2, ReplicaConstants DEF Stamped, IsRestore
    <3>2. OperationTime(l, now) = l.updatedAt
      BY <1>1, <1>2, <2>3 DEF OperationTime, SafeTime, WasClamped, Stamped, Deleted
    <3>3. OperationTime(r, now) \in Nat /\ OperationTime(r, now) <= r.updatedAt
      BY <1>1, <1>2, <2>3 DEF OperationTime, SafeTime, WasClamped, Stamped, Deleted
    <3> DEFINE t == OperationTime(r, now)
               u == OperationTime(l, now)
    <3>4. t \in Nat /\ u \in Nat /\ t - u <= AmbiguousWindow
      BY <1>1, <2>1, <2>3, <3>2, <3>3
    <3>5. DeleteVsLiveWinner(l, r, now) =
            IF t - u > AmbiguousWindow THEN r
            ELSE IF t - u < -AmbiguousWindow THEN l
            ELSE IF l.rev > r.rev THEN l
            ELSE IF l.rev < r.rev THEN r
            ELSE Preferred(l, r, ~HasRevision(l, r))
      BY <3>1, Zenon DEF DeleteVsLiveWinner
    <3> HIDE DEF t, u
    <3>6. DeleteVsLiveWinner(l, r, now) = l
      BY <1>1, <2>1, <2>2, <3>4, <3>5
    <3> QED
      BY <2>5, <3>6, Zenon DEF MergeWinner
  <2> QED BY <2>4, <2>5
<1> QED BY <1>3, <1>4

(* It holds when no device has changed anything. *)
LEMMA CausalInvInit == Init => CausalInv
<1> SUFFICES ASSUME Init PROVE CausalInv
  OBVIOUS
<1>1. PICK d \in Devices : /\ local = [e \in Devices |-> Created(d)]
                           /\ remote = Created(d)
                           /\ base = [e \in Devices |-> Created(d)]
  BY DEF Init
<1>2. time = 0
  BY DEF Init
<1>3. Created(d) \in Versions /\ Stamped(Created(d))
  BY <1>2, ReplicaConstants DEF Created, Versions, Stamped, Clock
<1>4. TypeOK
  BY <1>1, <1>3, ReplicaConstants DEF TypeOK, Init
<1> QED
  BY <1>1, <1>3, <1>4, Zenon DEF CausalInv, OnTop

(* A change is stamped with the clock of its device, which has passed every  *)
(* stamp that device has seen but for the window.                            *)
LEMMA ChangesAreOnTop ==
    ASSUME ClocksAgree, CausalInv, TypeOK', NEW d \in Devices, NEW del \in {NotDeleted, Clock(d)},
           Change(d, del)
    PROVE  CausalInv'
<1>0. PICK v : v = [updatedAt |-> Clock(d), deletedAt |-> del, rev |-> local[d].rev + 1,
                    revBy |-> d, content |-> d]
  OBVIOUS
<1>1. /\ local' = [local EXCEPT ![d] = v] /\ time' = time /\ remote' = remote /\ base' = base
  BY <1>0 DEF Change
<1>2. Clock(d) \in Nat /\ AmbiguousWindow \in Nat /\ Ahead \in [Devices -> Nat] /\ time \in Nat
  BY ClocksAreTimes, MergeConstants, ReplicaConstants DEF CausalInv, TypeOK
<1>3. local \in [Devices -> Versions] /\ local[d].rev \in Nat /\ base[d].rev \in Nat
  BY DEF CausalInv, TypeOK, Versions
<1>4. Stamped(v)'
  BY <1>0, <1>1, <1>2, <1>3 DEF Stamped, Clock
<1>5. \A e \in Devices : e # d => local'[e] = local[e]
  BY <1>1, <1>3
<1>6. local'[d] = v
  BY <1>1, <1>3
<1>7. \A w : Stamped(w) => Stamped(w)'
  BY <1>1 DEF Stamped, Clock
<1>8. OnTop(d)'
  <2>1. base[d].rev <= local[d].rev
    BY <1>3 DEF CausalInv, OnTop
  <2>2. v.rev > base[d].rev /\ v.revBy = d
    BY <1>0, <1>3, <2>1
  <2>3. base[d].updatedAt \in Nat /\ base[d].updatedAt <= Clock(base[d].revBy) /\ base[d].revBy \in Devices
    BY DEF CausalInv, Stamped
  <2>4. Clock(base[d].revBy) <= Clock(d) + AmbiguousWindow
    <3>1. Ahead[base[d].revBy] - Ahead[d] <= AmbiguousWindow
      BY <2>3 DEF ClocksAgree
    <3>2. Ahead[base[d].revBy] \in Nat /\ Ahead[d] \in Nat
      BY <1>2, <2>3
    <3> QED BY <1>2, <3>1, <3>2 DEF Clock
  <2>5. base[d].updatedAt <= v.updatedAt + AmbiguousWindow
    <3>1. Clock(base[d].revBy) \in Nat
      BY <2>3, ClocksAreTimes DEF CausalInv
    <3> QED BY <1>0, <1>2, <2>3, <2>4, <3>1
  <2> QED
    BY <1>1, <1>6, <2>2, <2>5 DEF OnTop
<1>9. \A e \in Devices : Stamped(local[e])' /\ Stamped(base[e])'
  <2> TAKE e \in Devices
  <2>1. Stamped(base[e])'
    BY <1>1, <1>7 DEF CausalInv
  <2>2. Stamped(local[e])'
    BY <1>4, <1>5, <1>6, <1>7 DEF CausalInv
  <2> QED BY <2>1, <2>2
<1>10. \A e \in Devices : OnTop(e)'
  BY <1>1, <1>5, <1>8 DEF CausalInv, OnTop
<1>11. Stamped(remote)'
  BY <1>1, <1>7 DEF CausalInv
<1> QED
  BY <1>9, <1>10, <1>11 DEF CausalInv

(* A device's sync keeps it. *)
LEMMA SyncKeepsCausalInv ==
    ASSUME CausalInv, TypeOK', NEW d \in Devices, Sync(d)
    PROVE  CausalInv'
<1>0. PICK w : w = MergeWinner(local[d], remote, Clock(d))
  OBVIOUS
<1>1. w \in {local[d], remote}
  BY <1>0, WinnerIsASide
<1>2. /\ local' = [local EXCEPT ![d] = w] /\ base' = [base EXCEPT ![d] = w]
      /\ remote' = w /\ time' = time
  BY <1>0 DEF Sync
<1>3. \A v : Stamped(v) => Stamped(v)'
  BY <1>2 DEF Stamped, Clock
<1>4. Stamped(w)'
  BY <1>1, <1>3 DEF CausalInv
<1>5. local \in [Devices -> Versions] /\ base \in [Devices -> Versions]
  BY DEF CausalInv, TypeOK
<1>6. \A e \in Devices : /\ e # d => local'[e] = local[e] /\ base'[e] = base[e]
                         /\ e = d => local'[e] = w /\ base'[e] = w
  BY <1>2, <1>5
<1>7. ASSUME NEW e \in Devices PROVE Stamped(local[e])' /\ Stamped(base[e])' /\ OnTop(e)'
  <2>1. CASE e = d
    BY <1>4, <1>6, <2>1 DEF OnTop
  <2>2. CASE e # d
    <3>1. local'[e] = local[e] /\ base'[e] = base[e]
      BY <1>6, <2>2
    <3> QED BY <1>3, <3>1 DEF CausalInv, OnTop
  <2> QED BY <2>1, <2>2
<1>8. Stamped(remote)'
  BY <1>2, <1>4
<1> QED
  BY <1>7, <1>8 DEF CausalInv

(* So does time. *)
LEMMA TickKeepsCausalInv ==
    ASSUME CausalInv, TypeOK', Tick
    PROVE  CausalInv'
<1>1. local' = local /\ remote' = remote /\ base' = base /\ time' = time + 1 /\ time \in Nat
  BY ReplicaConstants DEF Tick, CausalInv, TypeOK
<1>2. ASSUME NEW v, Stamped(v) PROVE Stamped(v)'
  <2>1. Ahead[v.revBy] \in Nat
    BY <1>2, ReplicaConstants DEF Stamped
  <2> QED BY <1>1, <1>2, <2>1 DEF Stamped, Clock
<1>3. \A e \in Devices : Stamped(local[e])' /\ Stamped(base[e])' /\ OnTop(e)'
  BY <1>1, <1>2 DEF CausalInv, OnTop
<1> QED BY <1>1, <1>2, <1>3 DEF CausalInv

(* No change a user makes on top of the version that is still in the remote  *)
(* document is lost to it, not the edit, not the deletion, not the restore:  *)
(* for any number of devices and any clocks that agree within the window.    *)
THEOREM CausalChangesWin ==
    ASSUME ClocksAgree
    PROVE  Spec => []CausalChangeWins
<1>1. CausalInv /\ TypeOK' /\ [Next]_vars => CausalInv'
  <2> SUFFICES ASSUME CausalInv, TypeOK', [Next]_vars PROVE CausalInv'
    OBVIOUS
  <2>1. ASSUME NEW d \in Devices, Edit(d) \/ Delete(d) \/ Restore(d)
        PROVE  CausalInv'
    <3>1. PICK del \in {NotDeleted, Clock(d)} : Change(d, del)
      BY <2>1 DEF Edit, Delete, Restore
    <3> QED BY <3>1, ChangesAreOnTop
  <2>2. ASSUME NEW d \in Devices, Sync(d) PROVE CausalInv'
    BY <2>2, SyncKeepsCausalInv
  <2>3. CASE Tick
    BY <2>3, TickKeepsCausalInv
  <2>4. CASE UNCHANGED vars
    BY <2>4 DEF vars, CausalInv, Stamped, OnTop, Clock
  <2> QED
    BY <2>1, <2>2, <2>3, <2>4 DEF Next
<1> QED
  BY <1>1, CausalInvInit, CausalInvImplies, TypeCorrect, PTL DEF Spec

-----------------------------------------------------------------------------
(* The window is far shorter than the skew from which a stamp counts as a    *)
(* mistake (30 seconds and 5 minutes), and there are two devices.  With more *)
(* of them a third one's version can lift an outdated one over a deletion.   *)
WindowWithinSkew == AmbiguousWindow <= ClockSkewThreshold
Pair == \A d, e, f \in Devices : d = e \/ e = f \/ d = f

(* A device stamps its own versions in order. *)
OwnStampsInOrder ==
    \A d \in Devices : base[d].revBy = d => base[d].updatedAt <= local[d].updatedAt

(* A device knows the remote version if it has written it, and if another    *)
(* one's sync has left it behind: that version is then a successor.          *)
WriterHasRead == \A d \in Devices : remote.revBy = d => base[d] = remote
Succeeds(v, w) == v.rev > w.rev /\ v.updatedAt >= w.updatedAt
OvertakenByWriter ==
    \A d, e \in Devices :
        e # d /\ base[e].revBy = d /\ base[e] # remote => remote.revBy = d /\ Succeeds(remote, base[e])

LatestDeletion ==
    /\ \A d \in Devices : buried <= Clock(d) + AmbiguousWindow
    /\ Deleted(remote) => remote.updatedAt <= buried

(* A live version from before the window of the latest deletion. *)
Outdated(v) == ~Deleted(v) /\ v.updatedAt + AmbiguousWindow < buried

(* Such a version meets that deletion in the remote document, which the      *)
(* other device has made and knows.                                          *)
DeletionAwaits(e) ==
    Deleted(remote) /\ remote.updatedAt = buried /\ remote.revBy = e /\ base[e] = remote
OutdatedMeetDeletion ==
    \A d, e \in Devices : d # e /\ Outdated(local[d]) => DeletionAwaits(e)

StandingInv ==
    /\ CausalInv
    /\ OwnStampsInOrder
    /\ WriterHasRead
    /\ OvertakenByWriter
    /\ LatestDeletion
    /\ ~Outdated(remote)
    /\ OutdatedMeetDeletion

(* A version counts from its stamp, whichever device merges it. *)
LEMMA StampIsOperationTime ==
    ASSUME ClocksAgree, WindowWithinSkew, TypeOK, NEW v, Stamped(v), NEW d \in Devices
    PROVE  OperationTime(v, Clock(d)) = v.updatedAt
<1>1. Clock(v.revBy) \in Nat /\ Clock(d) \in Nat /\ Clock(v.revBy) <= Clock(d) + AmbiguousWindow
  <2>1. Ahead[v.revBy] - Ahead[d] <= AmbiguousWindow /\ v.revBy \in Devices
    BY DEF ClocksAgree, Stamped
  <2>2. (\A e \in Devices : Ahead[e] \in Nat) /\ time \in Nat /\ AmbiguousWindow \in Nat
    BY MergeConstants, ReplicaConstants DEF TypeOK
  <2> QED
    BY <2>1, <2>2 DEF Clock
<1>2. v.updatedAt \in Nat /\ v.updatedAt <= Clock(d) + ClockSkewThreshold
  BY <1>1, MergeConstants DEF Stamped, WindowWithinSkew
<1> QED
  BY <1>1, <1>2, MergeConstants DEF OperationTime, SafeTime, WasClamped, Stamped, Deleted

(* Whatever it is, a version beyond the window beats one of the other kind. *)
LEMMA BeyondWindowWins ==
    ASSUME ClocksAgree, WindowWithinSkew, TypeOK, NEW d \in Devices,
           NEW v, Stamped(v), NEW w, Stamped(w),
           Deleted(v) # Deleted(w), v.updatedAt + AmbiguousWindow < w.updatedAt
    PROVE  MergeWinner(v, w, Clock(d)) = w
<1>1. /\ OperationTime(v, Clock(d)) = v.updatedAt /\ OperationTime(w, Clock(d)) = w.updatedAt
  BY StampIsOperationTime
<1>2. ~IsRestore(v) /\ ~IsRestore(w)
  BY ReplicaConstants DEF Stamped, IsRestore
<1>3. w.updatedAt - v.updatedAt > AmbiguousWindow
  BY MergeConstants DEF Stamped
<1>4. DeleteVsLiveWinner(v, w, Clock(d)) = w
  BY <1>1, <1>2, <1>3 DEF DeleteVsLiveWinner
<1> QED
  BY <1>4, Zenon DEF MergeWinner

(* A successor beats the version it succeeds. *)
LEMMA SuccessorWins ==
    ASSUME ClocksAgree, WindowWithinSkew, TypeOK, NEW d \in Devices,
           NEW v \in Versions, Stamped(v), NEW w \in Versions, Stamped(w), Succeeds(w, v)
    PROVE  MergeWinner(v, w, Clock(d)) = w
<1>1. v.rev \in Nat /\ w.rev \in Nat /\ v.updatedAt \in Nat /\ w.updatedAt \in Nat
  BY DEF Versions, Stamped
<1>2. CASE Deleted(v) = Deleted(w)
  <2>1. HasRevision(v, w) /\ RevisionWinner(v, w, Clock(d)) = w
    BY <1>1 DEF Succeeds, HasRevision, RevisionWinner
  <2> QED BY <1>2, <2>1, Zenon DEF MergeWinner
<1>3. CASE Deleted(v) # Deleted(w)
  <2>1. OperationTime(v, Clock(d)) = v.updatedAt /\ OperationTime(w, Clock(d)) = w.updatedAt
    BY StampIsOperationTime
  <2>2. ~IsRestore(v) /\ ~IsRestore(w)
    BY ReplicaConstants DEF Stamped, IsRestore
  <2> DEFINE t == v.updatedAt
             u == w.updatedAt
  <2>3. DeleteVsLiveWinner(v, w, Clock(d)) =
          IF u - t > AmbiguousWindow THEN w
          ELSE IF u - t < -AmbiguousWindow THEN v
          ELSE IF v.rev > w.rev THEN v
          ELSE IF v.rev < w.rev THEN w
          ELSE Preferred(v, w, ~HasRevision(v, w))
    BY <2>1, <2>2, Zenon DEF DeleteVsLiveWinner
  <2>4. DeleteVsLiveWinner(v, w, Clock(d)) = w
    BY <1>1, <2>3, MergeConstants DEF Succeeds
  <2> QED BY <1>3, <2>4, Zenon DEF MergeWinner
<1> QED BY <1>2, <1>3

LEMMA StandingInvInit ==
    ASSUME Init
    PROVE  StandingInv
<1>1. PICK d \in Devices : /\ local = [e \in Devices |-> Created(d)]
                           /\ remote = Created(d)
                           /\ base = [e \in Devices |-> Created(d)]
  BY DEF Init
<1>2. CausalInv
  BY CausalInvInit
<1>3. buried = 0 /\ time = 0 /\ ~Deleted(remote)
  BY <1>1 DEF Init, Created, Deleted, NotDeleted
<1>4. ~(Created(d).updatedAt + AmbiguousWindow < buried)
  BY <1>3, MergeConstants, ReplicaConstants DEF Created
<1>5. Created(d).updatedAt <= Created(d).updatedAt
  BY ReplicaConstants DEF Created
<1>6. \A e \in Devices : buried <= Clock(e) + AmbiguousWindow
  BY <1>3, MergeConstants, ReplicaConstants DEF Clock
<1> QED
  BY <1>1, <1>2, <1>3, <1>4, <1>5, <1>6
  DEF StandingInv, OwnStampsInOrder, WriterHasRead, OvertakenByWriter, LatestDeletion, Outdated,
      OutdatedMeetDeletion

(* A new version carries a stamp that has passed the latest deletion but for *)
(* the window, and leaves the remote document as it is.                      *)
LEMMA ChangeKeepsStandingInv ==
    ASSUME ClocksAgree, StandingInv, TypeOK', NEW d \in Devices, NEW del \in {NotDeleted, Clock(d)},
           Change(d, del)
    PROVE  StandingInv'
<1>0. PICK v : v = [updatedAt |-> Clock(d), deletedAt |-> del, rev |-> local[d].rev + 1,
                    revBy |-> d, content |-> d]
  OBVIOUS
<1>1. /\ local' = [local EXCEPT ![d] = v] /\ time' = time /\ remote' = remote /\ base' = base
      /\ buried' = buried
  BY <1>0 DEF Change
<1>2. CausalInv /\ TypeOK
  BY DEF StandingInv, CausalInv
<1>3. CausalInv'
  BY <1>2, ChangesAreOnTop
<1>4. \A e \in Devices : /\ e # d => local'[e] = local[e]
                         /\ e = d => local'[e] = v
  BY <1>1, <1>2 DEF TypeOK
<1>5. OwnStampsInOrder'
  <2> SUFFICES ASSUME NEW e \in Devices, base[e].revBy = e
               PROVE  base[e].updatedAt <= local'[e].updatedAt
    BY <1>1 DEF OwnStampsInOrder
  <2>1. CASE e = d
    <3>1. base[d].updatedAt <= Clock(d)
      BY <1>2, <2>1 DEF CausalInv, Stamped
    <3> QED BY <1>0, <1>4, <2>1, <3>1
  <2>2. CASE e # d
    BY <1>4, <2>2 DEF StandingInv, OwnStampsInOrder
  <2> QED BY <2>1, <2>2
<1>6. WriterHasRead' /\ OvertakenByWriter'
  BY <1>1 DEF StandingInv, WriterHasRead, OvertakenByWriter, Succeeds
<1>7. LatestDeletion'
  BY <1>1 DEF StandingInv, LatestDeletion, Clock
<1>8. ~Outdated(remote)'
  BY <1>1 DEF StandingInv, Outdated
<1>9. OutdatedMeetDeletion'
  <2> SUFFICES ASSUME NEW x \in Devices, NEW e \in Devices, x # e, Outdated(local[x])'
               PROVE  DeletionAwaits(e)
    BY <1>1 DEF OutdatedMeetDeletion, DeletionAwaits
  <2>1. x # d
    <3>1. ~(Clock(d) + AmbiguousWindow < buried)
      <4>1. Clock(d) \in Nat /\ AmbiguousWindow \in Nat /\ buried \in Nat
        BY <1>2, ClocksAreTimes, MergeConstants DEF TypeOK
      <4>2. buried <= Clock(d) + AmbiguousWindow
        BY DEF StandingInv, LatestDeletion
      <4> QED BY <4>1, <4>2
    <3> QED BY <1>0, <1>1, <1>4, <3>1 DEF Outdated
  <2>2. Outdated(local[x])
    BY <1>1, <1>4, <2>1 DEF Outdated
  <2> QED BY <2>2 DEF StandingInv, OutdatedMeetDeletion
<1> QED
  BY <1>3, <1>5, <1>6, <1>7, <1>8, <1>9 DEF StandingInv

(* What a sync of one device leaves behind for the other one. *)
LEMMA SyncWinner ==
    ASSUME ClocksAgree, WindowWithinSkew, StandingInv, NEW d \in Devices,
           NEW w, w = MergeWinner(local[d], remote, Clock(d))
    PROVE  /\ w \in {local[d], remote}
           /\ w \in Versions /\ Stamped(w)
           /\ base[d] = remote => w = local[d]
           /\ w # remote => w.revBy = d
<1>1. CausalInv /\ TypeOK /\ CausalChangeWins
  BY CausalInvImplies DEF StandingInv, CausalInv
<1>2. w \in {local[d], remote}
  BY WinnerIsASide
<1>3. w \in Versions /\ Stamped(w)
  BY <1>1, <1>2 DEF CausalInv, TypeOK
<1>4. base[d] = remote => w = local[d]
  BY <1>1 DEF CausalChangeWins
<1>5. ASSUME w # remote PROVE w.revBy = d
  <2>1. w = local[d]
    BY <1>2, <1>5
  <2>2. CASE local[d] # base[d]
    BY <1>1, <2>1, <2>2 DEF CausalInv, OnTop
  <2>3. CASE local[d] = base[d] /\ w.revBy # d
    <3>1. w.revBy \in Devices
      BY <1>3 DEF Stamped
    <3>2. Succeeds(remote, w)
      BY <1>5, <2>1, <2>3, <3>1 DEF StandingInv, OvertakenByWriter
    <3>3. remote \in Versions /\ Stamped(remote)
      BY <1>1 DEF CausalInv, TypeOK
    <3>4. MergeWinner(w, remote, Clock(d)) = remote
      BY <1>1, <1>3, <3>2, <3>3, SuccessorWins
    <3> QED BY <1>5, <2>1, <3>4
  <2> QED BY <2>2, <2>3
<1> QED BY <1>2, <1>3, <1>4, <1>5

(* The writer and its peer after a sync: whoever wrote the winner has read   *)
(* it, and what the peer was left with is overtaken by its writer only.      *)
LEMMA SyncKeepsReaders ==
    ASSUME ClocksAgree, WindowWithinSkew, Pair, StandingInv, NEW d \in Devices, Sync(d)
    PROVE  OwnStampsInOrder' /\ WriterHasRead' /\ OvertakenByWriter'
<1>0. PICK w : w = MergeWinner(local[d], remote, Clock(d))
  OBVIOUS
<1>1. /\ w \in {local[d], remote} /\ w \in Versions /\ Stamped(w)
      /\ base[d] = remote => w = local[d]
      /\ w # remote => w.revBy = d
  BY <1>0, SyncWinner
<1>2. CausalInv /\ TypeOK
  BY DEF StandingInv, CausalInv
<1>3. remote' = w /\ \A e \in Devices : /\ e # d => local'[e] = local[e] /\ base'[e] = base[e]
                                        /\ e = d => local'[e] = w /\ base'[e] = w
  BY <1>0, <1>2 DEF Sync, TypeOK
<1>4. OwnStampsInOrder'
  <2>1. w.updatedAt <= w.updatedAt
    BY <1>1 DEF Stamped
  <2> QED BY <1>3, <2>1 DEF StandingInv, OwnStampsInOrder
<1>5. WriterHasRead'
  <2> SUFFICES ASSUME NEW e \in Devices, w.revBy = e PROVE base'[e] = w
    BY <1>3 DEF WriterHasRead
  <2> QED BY <1>1, <1>3 DEF StandingInv, WriterHasRead
<1>6. OvertakenByWriter'
  <2> SUFFICES ASSUME NEW c \in Devices, NEW e \in Devices,
                      e # c, base'[e].revBy = c, base'[e] # w
               PROVE  w.revBy = c /\ Succeeds(w, base[e])
    BY <1>3 DEF OvertakenByWriter, Succeeds
  <2>1. e # d /\ base'[e] = base[e] /\ c = d
    BY <1>3 DEF Pair
  <2>2. remote.revBy = d /\ (base[e] = remote \/ Succeeds(remote, base[e]))
    BY <2>1 DEF StandingInv, OvertakenByWriter
  <2>3. CASE w = remote
    BY <1>3, <2>1, <2>2, <2>3
  <2>4. CASE w # remote
    <3>1. base[d] = remote
      BY <2>2 DEF StandingInv, WriterHasRead
    <3>2. w = local[d] /\ local[d] # base[d]
      BY <1>1, <2>4, <3>1
    <3>3. w.rev > remote.rev /\ remote.updatedAt <= w.updatedAt
      BY <1>2, <2>2, <3>1, <3>2 DEF CausalInv, OnTop, StandingInv, OwnStampsInOrder
    <3>4. base[e] \in Versions /\ Stamped(base[e]) /\ remote \in Versions /\ Stamped(remote)
      BY <1>2 DEF CausalInv, TypeOK
    <3>5. Succeeds(w, base[e])
      BY <1>1, <2>2, <3>3, <3>4 DEF Succeeds, Versions, Stamped
    <3> QED BY <1>1, <2>1, <2>4, <3>5
  <2> QED BY <2>3, <2>4
<1> QED BY <1>4, <1>5, <1>6

(* A winning deletion is the latest one, or the one that was; a winning live *)
(* version takes the deletion back or is not outdated.  The peer's version   *)
(* is outdated only by a deletion of this device, which has just read it.    *)
LEMMA SyncKeepsDeletion ==
    ASSUME ClocksAgree, WindowWithinSkew, Pair, StandingInv, NEW d \in Devices, Sync(d)
    PROVE  LatestDeletion' /\ ~Outdated(remote)' /\ OutdatedMeetDeletion'
<1>0. PICK w : w = MergeWinner(local[d], remote, Clock(d))
  OBVIOUS
<1>1. /\ w \in {local[d], remote} /\ w \in Versions /\ Stamped(w)
      /\ base[d] = remote => w = local[d]
      /\ w # remote => w.revBy = d
  BY <1>0, SyncWinner
<1>2. CausalInv /\ TypeOK /\ Stamped(local[d]) /\ Stamped(remote)
  BY DEF StandingInv, CausalInv
<1>3. remote' = w /\ time' = time
      /\ \A e \in Devices : /\ e # d => local'[e] = local[e] /\ base'[e] = base[e]
                            /\ e = d => local'[e] = w /\ base'[e] = w
  BY <1>0, <1>2 DEF Sync, TypeOK
<1>4. buried \in Nat /\ AmbiguousWindow \in Nat /\ w.updatedAt \in Nat /\ remote.updatedAt \in Nat
  BY <1>1, <1>2, MergeConstants DEF TypeOK, Stamped
<1>5. buried' = IF ~Deleted(w) /\ Deleted(remote) /\ base[d] = remote THEN 0
                ELSE IF Deleted(w) /\ w.updatedAt > buried THEN w.updatedAt ELSE buried
  <2>1. OperationTime(w, Clock(d)) = w.updatedAt
    BY <1>1, <1>2, StampIsOperationTime
  <2>2. buried' = Buried(d, w)
    BY <1>0 DEF Sync
  <2> QED BY <2>1, <2>2 DEF Buried
<1>6. ASSUME NEW e \in Devices PROVE w.updatedAt <= Clock(e) + AmbiguousWindow
  <2>1. w.revBy \in Devices /\ w.updatedAt <= Clock(w.revBy)
    BY <1>1 DEF Stamped
  <2>2. Ahead[w.revBy] - Ahead[e] <= AmbiguousWindow
    BY <2>1 DEF ClocksAgree
  <2>3. (\A c \in Devices : Ahead[c] \in Nat) /\ time \in Nat
    BY <1>2, ReplicaConstants DEF TypeOK
  <2> QED BY <1>4, <2>1, <2>2, <2>3 DEF Clock
<1>7. LatestDeletion'
  <2>1. \A e \in Devices : buried' <= Clock(e) + AmbiguousWindow
    <3>1. \A e \in Devices : Clock(e) \in Nat
      BY <1>2, ClocksAreTimes
    <3> QED BY <1>4, <1>5, <1>6, <3>1 DEF StandingInv, LatestDeletion
  <2>2. Deleted(w) => w.updatedAt <= buried'
    BY <1>4, <1>5
  <2> QED BY <1>3, <2>1, <2>2 DEF LatestDeletion, Clock
<1>8. CASE ~Deleted(w) /\ Deleted(remote) /\ base[d] = remote
  <2>1. buried' = 0
    BY <1>5, <1>8
  <2>2. \A v : Stamped(v) => ~(v.updatedAt + AmbiguousWindow < buried')
    BY <1>4, <2>1 DEF Stamped
  <2>3. \A e \in Devices : Stamped(local[e])
    BY <1>2 DEF CausalInv
  <2>4. \A e \in Devices : ~Outdated(local[e])' /\ ~Outdated(remote)'
    BY <1>1, <1>3, <2>2, <2>3 DEF Outdated
  <2> QED BY <1>7, <2>4 DEF OutdatedMeetDeletion
<1>9. CASE ~Deleted(w) /\ ~(Deleted(remote) /\ base[d] = remote)
  <2>1. buried' = buried
    BY <1>5, <1>9
  <2>2. ~Outdated(w)
    <3>1. CASE w = remote
      BY <3>1 DEF StandingInv
    <3>2. CASE w # remote /\ remote.revBy = d
      <4>1. base[d] = remote /\ w = local[d] /\ ~Deleted(remote)
        BY <1>1, <1>9, <3>2 DEF StandingInv, WriterHasRead
      <4>2. remote.updatedAt <= w.updatedAt
        BY <3>2, <4>1 DEF StandingInv, OwnStampsInOrder
      <4> QED BY <1>4, <4>1, <4>2 DEF StandingInv, Outdated
    <3>3. CASE w # remote /\ remote.revBy # d /\ Outdated(w)
      <4>1. w = local[d] /\ remote.revBy \in Devices
        BY <1>1, <1>2, <3>3 DEF Stamped
      <4>2. DeletionAwaits(remote.revBy)
        BY <3>3, <4>1 DEF StandingInv, OutdatedMeetDeletion
      <4>3. Deleted(w) # Deleted(remote)
        BY <1>9, <4>2, Zenon DEF DeletionAwaits
      <4>4. w.updatedAt + AmbiguousWindow < remote.updatedAt
        BY <3>3, <4>2 DEF DeletionAwaits, Outdated
      <4>5. MergeWinner(w, remote, Clock(d)) = remote
        BY <1>1, <1>2, <4>3, <4>4, BeyondWindowWins
      <4> QED BY <1>0, <3>3, <4>1, <4>5
    <3> QED BY <3>1, <3>2, <3>3
  <2>3. ~Outdated(remote)'
    BY <1>3, <2>1, <2>2 DEF Outdated
  <2>4. ASSUME NEW x \in Devices, NEW y \in Devices, x # y, Outdated(local[x])'
        PROVE  FALSE
    <3>1. x # d
      BY <1>3, <2>1, <2>2, <2>4 DEF Outdated
    <3>2. Outdated(local[x])
      BY <1>3, <2>1, <2>4, <3>1 DEF Outdated
    <3>3. DeletionAwaits(d)
      BY <3>1, <3>2 DEF StandingInv, OutdatedMeetDeletion
    <3> QED BY <1>9, <3>3 DEF DeletionAwaits
  <2> QED BY <1>7, <2>3, <2>4 DEF OutdatedMeetDeletion
<1>10. CASE Deleted(w)
  <2>1. buried' = IF w.updatedAt > buried THEN w.updatedAt ELSE buried
    BY <1>5, <1>10
  <2>2. ~Outdated(remote)'
    BY <1>3, <1>10 DEF Outdated, Deleted
  <2>3. ASSUME NEW x \in Devices, NEW y \in Devices, x # y, Outdated(local[x])'
        PROVE  DeletionAwaits(y)'
    <3>1. x # d /\ y = d
      BY <1>3, <1>10, <2>3, Zenon DEF Outdated, Deleted, Pair
    <3>2. ~Deleted(local[x]) /\ local[x].updatedAt + AmbiguousWindow < buried'
      BY <1>3, <2>3, <3>1 DEF Outdated, Deleted
    <3>3. CASE Outdated(local[x])
      <4>1. DeletionAwaits(d)
        BY <3>1, <3>3 DEF StandingInv, OutdatedMeetDeletion
      <4>2. w = local[d] /\ w.revBy = d
        BY <1>1, <4>1 DEF DeletionAwaits
      <4>3. buried <= w.updatedAt
        BY <4>1, <4>2 DEF StandingInv, OwnStampsInOrder, DeletionAwaits
      <4>4. buried' = w.updatedAt
        BY <1>4, <2>1, <4>3
      <4> QED BY <1>3, <1>10, <3>1, <4>2, <4>4 DEF DeletionAwaits, Deleted
    <3>4. CASE ~Outdated(local[x])
      <4>1. w.updatedAt > buried /\ buried' = w.updatedAt
        BY <2>1, <3>2, <3>4 DEF Outdated
      <4>2. w # remote
        BY <1>4, <1>10, <4>1 DEF StandingInv, LatestDeletion
      <4> QED BY <1>1, <1>3, <1>10, <3>1, <4>1, <4>2 DEF DeletionAwaits, Deleted
    <3> QED BY <3>3, <3>4
  <2> QED BY <1>7, <2>2, <2>3 DEF OutdatedMeetDeletion
<1> QED BY <1>7, <1>8, <1>9, <1>10

(* Nothing a user changes is lost to a version that change has seen, and no  *)
(* version from before a deletion comes back over it, for two devices with   *)
(* any clocks that agree within the window (resolveDeleteVsLiveWinner,       *)
(* "deletes must not disappear during merges").                              *)
THEOREM ChangesOfTwoSurvive ==
    ASSUME ClocksAgree, WindowWithinSkew, Pair
    PROVE  Spec => []ChangesSurvive
<1>1. StandingInv /\ TypeOK' /\ [Next]_vars => StandingInv'
  <2> SUFFICES ASSUME StandingInv, TypeOK', [Next]_vars PROVE StandingInv'
    OBVIOUS
  <2>0. CausalInv /\ TypeOK
    BY DEF StandingInv, CausalInv
  <2>1. ASSUME NEW d \in Devices, Edit(d) \/ Delete(d) \/ Restore(d)
        PROVE  StandingInv'
    <3>1. PICK del \in {NotDeleted, Clock(d)} : Change(d, del)
      BY <2>1 DEF Edit, Delete, Restore
    <3> QED BY <3>1, ChangeKeepsStandingInv
  <2>2. ASSUME NEW d \in Devices, Sync(d) PROVE StandingInv'
    <3>1. CausalInv'
      BY <2>0, <2>2, SyncKeepsCausalInv
    <3> QED BY <2>2, <3>1, SyncKeepsReaders, SyncKeepsDeletion DEF StandingInv
  <2>3. CASE Tick
    <3>1. CausalInv'
      BY <2>0, <2>3, TickKeepsCausalInv
    <3>2. /\ local' = local /\ remote' = remote /\ base' = base /\ buried' = buried
          /\ time' = time + 1 /\ time \in Nat /\ buried \in Nat /\ AmbiguousWindow \in Nat
          /\ \A d \in Devices : Ahead[d] \in Nat
      BY <2>0, <2>3, MergeConstants, ReplicaConstants DEF Tick, TypeOK
    <3>3. LatestDeletion'
      BY <3>2 DEF StandingInv, LatestDeletion, Clock
    <3> QED
      BY <3>1, <3>2, <3>3
      DEF StandingInv, OwnStampsInOrder, WriterHasRead, OvertakenByWriter, Succeeds, Outdated,
          OutdatedMeetDeletion, DeletionAwaits
  <2>4. CASE UNCHANGED vars
    <3>1. CausalInv'
      BY <2>0, <2>4 DEF vars, CausalInv, TypeOK, Stamped, OnTop, Clock
    <3> QED
      BY <2>4, <3>1
      DEF vars, StandingInv, OwnStampsInOrder, WriterHasRead, OvertakenByWriter, Succeeds,
          LatestDeletion, Clock, Outdated, OutdatedMeetDeletion, DeletionAwaits
  <2> QED
    BY <2>1, <2>2, <2>3, <2>4 DEF Next
<1>2. StandingInv => ChangesSurvive
  <2> SUFFICES ASSUME StandingInv PROVE CausalChangeWins /\ BuriedStaysBuried
    BY DEF ChangesSurvive
  <2>1. CausalInv /\ TypeOK /\ Stamped(remote)
    BY DEF StandingInv, CausalInv
  <2>2. remote.updatedAt \in Nat /\ buried \in Nat /\ AmbiguousWindow \in Nat
    BY <2>1, MergeConstants DEF TypeOK, Stamped
  <2>3. BuriedStaysBuried
    BY <2>2 DEF StandingInv, Outdated, BuriedStaysBuried
  <2> QED BY <2>1, <2>3, CausalInvImplies
<1> QED
  BY <1>1, <1>2, StandingInvInit, TypeCorrect, PTL DEF Spec
=============================================================================
