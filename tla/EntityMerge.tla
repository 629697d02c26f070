----------------------------- MODULE EntityMerge -----------------------------
(***************************************************************************)
(* packages/core/src/sync.ts: which of two versions of one entity survives *)
(* a merge (the winner chosen by mergeEntitiesWithStats).                  *)
(*                                                                         *)
(* A version keeps what the choice looks at.  Times are clock units;       *)
(* Unparsable stands for a timestamp that does not parse.  A device id, a  *)
(* content signature are numbers: only their order matters.  rev 0 and     *)
(* revBy 0 are the absent metadata of older clients.                       *)
(***************************************************************************)
EXTENDS Integers

CONSTANTS
    ClockSkewThreshold,   \* CLOCK_SKEW_THRESHOLD_MS
    AmbiguousWindow,      \* DELETE_VS_LIVE_AMBIGUOUS_WINDOW_MS
    BackupRestore         \* SYNC_BACKUP_RESTORE_REV_BY, as a device id

ASSUME MergeConstants ==
    ClockSkewThreshold \in Nat /\ AmbiguousWindow \in Nat /\ BackupRestore \in Nat \ {0}

Unparsable == -1
NotDeleted == -2

Versions == [updatedAt : Nat \cup {Unparsable}, deletedAt : Nat \cup {Unparsable, NotDeleted},
             rev : Nat, revBy : Nat, content : Nat]

Deleted(v) == v.deletedAt # NotDeleted

(* parseMergeTimestamp: times too far in the future count as now. *)
WasClamped(t, now) == t > now + ClockSkewThreshold
SafeTime(t, now) == IF WasClamped(t, now) THEN now ELSE t

(* getMergeTimestampComparison: positive if the incoming version is later. *)
TimeComparison(local, incoming, now) ==
    LET l == local.updatedAt
        i == incoming.updatedAt
    IN  IF SafeTime(i, now) # SafeTime(l, now) THEN SafeTime(i, now) - SafeTime(l, now)
        ELSE IF WasClamped(l, now) /\ WasClamped(i, now) THEN i - l
        ELSE 0

(* resolveOperationTime: a tombstone counts from its latest stamp. *)
OperationTime(v, now) ==
    LET updated == SafeTime(v.updatedAt, now)
        deleted == SafeTime(v.deletedAt, now)
    IN  IF Deleted(v) /\ v.deletedAt # Unparsable /\ deleted > updated THEN deleted ELSE updated

(* Signatures: the comparable one leaves the revision metadata out, the full *)
(* one does not.  Any total order on versions would do.                      *)
SignatureAfter(a, b) ==
    \/ a.content > b.content
    \/ a.content = b.content /\ a.deletedAt > b.deletedAt
FullSignatureAfter(a, b) ==
    \/ a.rev > b.rev
    \/ a.rev = b.rev /\ a.revBy > b.revBy
    \/ a.rev = b.rev /\ a.revBy = b.revBy /\ a.updatedAt > b.updatedAt

DeterministicWinner(local, incoming) ==
    IF SignatureAfter(local, incoming) THEN local
    ELSE IF SignatureAfter(incoming, local) THEN incoming
    ELSE IF FullSignatureAfter(local, incoming) THEN local
    ELSE incoming

HasRevision(local, incoming) ==
    local.rev > 0 \/ incoming.rev > 0 \/ local.revBy > 0 \/ incoming.revBy > 0

Preferred(local, incoming, deleted) == IF Deleted(local) = deleted THEN local ELSE incoming

IsRestore(v) == ~Deleted(v) /\ v.revBy = BackupRestore

(* Mutation of DeleteVsLiveWinner: the later operation wins, however close. *)
LaterOperationWins(local, incoming, now) ==
    IF OperationTime(incoming, now) >= OperationTime(local, now) THEN incoming ELSE local
(* Mutation of DeleteVsLiveWinner: revisions decide, however far apart. *)
HigherRevisionWins(local, incoming, now) ==
    IF local.rev # incoming.rev
    THEN IF local.rev > incoming.rev THEN local ELSE incoming
    ELSE Preferred(local, incoming, FALSE)

(* resolveDeleteVsLiveWinner, for versions of which exactly one is deleted.  *)
(* Its last branch, for equal operation times, lies inside the window and so *)
(* is never reached.                                                         *)
DeleteVsLiveWinner(local, incoming, now) ==
    LET diff == OperationTime(incoming, now) - OperationTime(local, now)
    IN  IF IsRestore(local) /\ diff <= 0 THEN local
        ELSE IF IsRestore(incoming) /\ diff >= 0 THEN incoming
        ELSE IF diff > AmbiguousWindow THEN incoming
        ELSE IF diff < -AmbiguousWindow THEN local
        ELSE IF local.rev > incoming.rev THEN local
        ELSE IF local.rev < incoming.rev THEN incoming
        ELSE Preferred(local, incoming, ~HasRevision(local, incoming))

LaterWinner(local, incoming, now) ==
    IF TimeComparison(local, incoming, now) > 0 THEN incoming ELSE local

(* Mutation of RevisionWinner: an even revision and time keep what is local. *)
TieKeepsLocal(local, incoming, now) ==
    IF local.rev # incoming.rev
    THEN IF local.rev > incoming.rev THEN local ELSE incoming
    ELSE LaterWinner(local, incoming, now)

(* Both live or both deleted, at least one with revision metadata. *)
RevisionWinner(local, incoming, now) ==
    IF local.rev # incoming.rev
    THEN IF local.rev > incoming.rev THEN local ELSE incoming
    ELSE IF TimeComparison(local, incoming, now) # 0 THEN LaterWinner(local, incoming, now)
    ELSE IF local.revBy # incoming.revBy /\ local.revBy # 0 /\ incoming.revBy # 0
    THEN IF incoming.revBy > local.revBy THEN incoming ELSE local
    ELSE DeterministicWinner(local, incoming)

(* ... and neither. *)
UnversionedWinner(local, incoming, now) ==
    LET comparison == TimeComparison(local, incoming, now)
        skew == SafeTime(incoming.updatedAt, now) - SafeTime(local.updatedAt, now)
        unreliable == \E v \in {local, incoming} :
                          v.updatedAt = Unparsable \/ WasClamped(v.updatedAt, now)
        withinSkew == -ClockSkewThreshold <= skew /\ skew <= ClockSkewThreshold
    IN  IF comparison # 0 /\ (unreliable \/ ~withinSkew)
        THEN LaterWinner(local, incoming, now)
        ELSE DeterministicWinner(local, incoming)

MergeWinner(local, incoming, now) ==
    IF Deleted(local) # Deleted(incoming) THEN DeleteVsLiveWinner(local, incoming, now)
    ELSE IF HasRevision(local, incoming) THEN RevisionWinner(local, incoming, now)
    ELSE UnversionedWinner(local, incoming, now)
=============================================================================
