---------------------------- MODULE SyncReplicas -----------------------------
(***************************************************************************)
(* Devices that keep their own copy of one entity, change it offline and   *)
(* exchange it through one remote document with the merge of sync.ts.      *)
(* A sync is one step here: read remote, merge, write both sides (what     *)
(* happens inside a sync is the subject of SyncRun).                       *)
(***************************************************************************)
EXTENDS EntityMerge, FiniteSets

CONSTANTS
    Devices,         \* device ids: positive numbers, as revBy orders them
    Ahead,           \* how far each device's clock is ahead of true time
    MaxTime,         \* bound: true time
    MaxRev,          \* bound: revisions of the entity
    MaxChanges,      \* bound: changes users make in all
    Deletes          \* may users delete and restore?

ASSUME ReplicaConstants ==
    /\ Devices \subseteq Nat \ {0} /\ BackupRestore \notin Devices
    /\ Ahead \in [Devices -> Nat]
    /\ MaxTime \in Nat /\ MaxRev \in Nat /\ MaxChanges \in Nat /\ Deletes \in BOOLEAN

VARIABLES
    time,            \* true time
    changes,         \* changes made so far
    local,           \* each device's version
    remote,          \* the version in the remote document
    base,            \* history: what each device's last sync left it with
    buried           \* history: latest deletion in the remote document that stands

vars == <<time, changes, local, remote, base, buried>>

Clock(d) == time + Ahead[d]

(* The entity exists everywhere, created and stamped by some device. *)
Created(d) ==
    [updatedAt |-> Ahead[d], deletedAt |-> NotDeleted, rev |-> 1, revBy |-> d, content |-> d]

Init ==
    /\ time = 0
    /\ changes = 0
    /\ \E d \in Devices :
          /\ local = [e \in Devices |-> Created(d)]
          /\ remote = Created(d)
          /\ base = [e \in Devices |-> Created(d)]
    /\ buried = 0

(* What every store mutation does: planTaskMutations stamps the row. *)
Change(d, deletedAt) ==
    /\ changes < MaxChanges /\ local[d].rev < MaxRev
    /\ changes' = changes + 1
    /\ local' = [local EXCEPT ![d] =
          [updatedAt |-> Clock(d), deletedAt |-> deletedAt, rev |-> @.rev + 1, revBy |-> d,
           content |-> d]]
    /\ UNCHANGED <<time, remote, base, buried>>

Edit(d) == ~Deleted(local[d]) /\ Change(d, NotDeleted)
Delete(d) == Deletes /\ ~Deleted(local[d]) /\ Change(d, Clock(d))
Restore(d) == Deleted(local[d]) /\ Change(d, NotDeleted)

(* The latest deletion, until a user who has seen it takes it back. *)
Buried(d, winner) ==
    LET at == OperationTime(winner, Clock(d))
        takenBack == ~Deleted(winner) /\ Deleted(remote) /\ base[d] = remote
    IN  IF takenBack THEN 0 ELSE IF Deleted(winner) /\ at > buried THEN at ELSE buried

Sync(d) ==
    LET winner == MergeWinner(local[d], remote, Clock(d))
    IN  /\ local' = [local EXCEPT ![d] = winner]
        /\ base' = [base EXCEPT ![d] = winner]
        /\ remote' = winner
        /\ buried' = Buried(d, winner)
        /\ UNCHANGED <<time, changes>>

Tick ==
    /\ time < MaxTime
    /\ time' = time + 1
    /\ UNCHANGED <<changes, local, remote, base, buried>>

Next ==
    \/ \E d \in Devices : Edit(d) \/ Delete(d) \/ Restore(d) \/ Sync(d)
    \/ Tick

(* Every device goes on syncing. *)
Fairness == \A d \in Devices : WF_vars(Sync(d))

Spec == Init /\ [][Next]_vars /\ Fairness

-----------------------------------------------------------------------------
TypeOK ==
    /\ local \in [Devices -> Versions] /\ base \in [Devices -> Versions] /\ remote \in Versions
    /\ time \in 0..MaxTime /\ changes \in 0..MaxChanges /\ buried \in Nat

Held == {local[d] : d \in Devices} \cup {remote}

(* Whichever side runs the merge, the same version survives: no two devices  *)
(* can keep rewriting the remote document against each other.                *)
MergeSymmetric ==
    \A v, w \in Held, d \in Devices :
        MergeWinner(v, w, Clock(d)) = MergeWinner(w, v, Clock(d))

(* A change a user makes to the version that is still in the remote document *)
(* is never lost to it, clocks that disagree by no more than the window      *)
(* included: not the edit, not the delete, not the restore.                  *)
CausalChangeWins ==
    \A d \in Devices : base[d] = remote => MergeWinner(local[d], remote, Clock(d)) = local[d]

(* "deletes must not disappear during merges": once a deletion has reached   *)
(* the remote document, no live version from before its window comes back,   *)
(* until a user who has seen the deletion restores the entity.               *)
BuriedStaysBuried == Deleted(remote) \/ remote.updatedAt + AmbiguousWindow >= buried

(* "every client converges on the same winner": when users stop making       *)
(* changes and devices go on syncing, all copies become and stay equal.      *)
Converges == <>[](\A d \in Devices : local[d] = remote)

(* No change is lost to a version it has already seen: a change made on top  *)
(* of the remote document wins, and a buried version stays buried.           *)
ChangesSurvive == CausalChangeWins /\ BuriedStaysBuried
=============================================================================
