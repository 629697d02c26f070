-------------------------- MODULE DocumentReplicas ---------------------------
(***************************************************************************)
(* Devices that change their own copy of a project, its section and a task *)
(* and exchange them through one remote document (DocumentMerge).  Users   *)
(* delete, restore, purge, archive and reactivate; loading a document      *)
(* mends and purges it; time passes until tombstones expire.               *)
(*                                                                         *)
(* No device stays away for longer than MaxOffline: tombstones protect no  *)
(* longer than that.                                                       *)
(***************************************************************************)
EXTENDS DocumentMerge, FiniteSetsExt

CONSTANTS
    Devices,         \* device ids: positive numbers, as revBy orders them
    MaxOffline,      \* longest time between two syncs of a device
    Habits,          \* what groups of users do, and which of their devices run a client
                     \* up to 1.3.0
    MaxTime,         \* bound: time
    MaxChanges       \* bound: changes users make in all

AllOperations ==
    {"moveTask", "deleteTask", "restoreTask", "purgeTask", "deleteProject", "restoreProject",
     "purgeProject", "archiveProject", "reactivateProject", "deleteSection"}

DocumentConstants ==
    /\ Retention \in Nat \ {0} /\ SyncRepair \in Nat \ {0, BackupRestore}
    /\ Habits \subseteq [operations : SUBSET AllOperations, oldPeers : SUBSET Devices]
    /\ Devices \subseteq Nat \ {0, BackupRestore, SyncRepair}
    /\ MaxOffline \in Nat /\ MaxTime \in Nat /\ MaxChanges \in Nat

VARIABLES
    time,
    changes,         \* changes made so far
    local,           \* each device's document
    remote,          \* the remote document
    lastSync,        \* time of each device's last sync
    forgotten,       \* history: latest deletion of each row whose tombstone was purged
    users            \* the habits of these users, an element of Habits

vars == <<time, changes, local, remote, lastSync, forgotten, users>>

(* All rows were created by the same device. *)
Row(content) ==
    [updatedAt |-> 0, deletedAt |-> NotDeleted, purgedAt |-> Never, projectArchivedAt |-> Never,
     rev |-> 1, revBy |-> CHOOSE d \in Devices : TRUE, content |-> content]

(* Everything is in sync, the task in the project or its section, but that some *)
(* device may just have added the section. *)
Init ==
    /\ time = 0 /\ changes = 0
    /\ lastSync = [d \in Devices |-> 0]
    /\ forgotten = [k \in Rows |-> -1]
    /\ users \in Habits
    /\ \E in \in 1..2, holders \in {Devices} \cup {{e} : e \in Devices} :
          LET all == Document(Row(0), Row(1), Row(2 * in))
              old == [all EXCEPT !.section = Absent]
          IN  /\ in = 2 => holders = Devices
              /\ local = [e \in Devices |-> IF e \in holders THEN all ELSE old]
              /\ remote = IF holders = Devices THEN all ELSE old

------------------------------------------------------------------------------
(* What users do.  Every changed row is stamped with the time, its next      *)
(* revision and the device.                                                  *)
Stamp(row, d) == [row EXCEPT !.updatedAt = time, !.rev = @ + 1, !.revBy = d]

Change(operation, d, doc) ==
    /\ operation \in users.operations /\ changes < MaxChanges
    /\ changes' = changes + 1
    /\ local' = [local EXCEPT ![d] = doc]
    /\ UNCHANGED <<time, remote, lastSync, forgotten>>

(* Any direct edit of a task breaks its project-archive mark. *)
EditedTask(task, d) == [Stamp(task, d) EXCEPT !.projectArchivedAt = Never]

MoveTask(d, in) ==
    LET doc == local[d] IN
    /\ Live(doc, "task") /\ Container(doc.task) # in
    /\ in > 0 => Live(doc, "project")
    /\ in = 2 => Live(doc, "section")
    /\ Change("moveTask", d, [doc EXCEPT !.task = WithContainer(EditedTask(@, d), in)])

DeleteTask(d) ==
    /\ Live(local[d], "task")
    /\ Change("deleteTask", d, [local[d] EXCEPT !.task = [Stamp(@, d) EXCEPT !.deletedAt = time]])

(* sanitizeRestoredTaskContainerReferences: back to where it was, as far as  *)
(* that is still there.                                                      *)
RestoreTask(d) ==
    LET doc == local[d]
        in == Container(doc.task)
    IN  /\ Gone(doc, "task") /\ ~Purged(doc.task)
        /\ Change("restoreTask", d, [doc EXCEPT !.task =
              WithContainer([Stamp(@, d) EXCEPT !.deletedAt = NotDeleted],
                            IF ~Live(doc, "project") THEN 0
                            ELSE IF in = 2 /\ ~Live(doc, "section") THEN 1 ELSE in)])

(* A purged row is compacted to the metadata that merges need. *)
CompactPurged(row, d) ==
    [Stamp(row, d) EXCEPT !.content = 0, !.deletedAt = time, !.purgedAt = time,
                          !.projectArchivedAt = Never]

PurgeTask(d) ==
    /\ Gone(local[d], "task") /\ ~Purged(local[d].task)
    /\ Change("purgeTask", d, [local[d] EXCEPT !.task = CompactPurged(@, d)])

(* What deleting or purging a project does to the live task inside. *)
DetachedTask(task, d) ==
    IF Deleted(task) \/ Container(task) = 0 THEN task ELSE WithContainer(Stamp(task, d), 0)

DeleteProject(d) ==
    LET doc == local[d] IN
    /\ Live(doc, "project")
    /\ Change("deleteProject", d, Document(
          [Stamp(doc.project, d) EXCEPT !.deletedAt = time],
          IF Live(doc, "section") THEN [Stamp(doc.section, d) EXCEPT !.deletedAt = time]
                                  ELSE doc.section,
          DetachedTask(doc.task, d)))

(* What went with the project, by its deletion time, comes back with it. *)
RestoreProject(d) ==
    LET doc == local[d]
        at == doc.project.deletedAt
        sectionBack == Holds(doc, "section") /\ doc.section.deletedAt \in {NotDeleted, at}
        Restored(row) == [Stamp(row, d) EXCEPT !.deletedAt = NotDeleted]
    IN  /\ Gone(doc, "project") /\ ~Purged(doc.project)
        /\ Change("restoreProject", d, Document(
              Restored(doc.project),
              IF doc.section.deletedAt = at THEN Restored(doc.section) ELSE doc.section,
              IF Container(doc.task) > 0 /\ doc.task.deletedAt = at /\ ~Purged(doc.task)
              THEN WithContainer(Restored(doc.task),
                       IF Container(doc.task) = 2 /\ ~sectionBack THEN 1 ELSE Container(doc.task))
              ELSE doc.task))

PurgeProject(d) ==
    LET doc == local[d] IN
    /\ Gone(doc, "project") /\ ~Purged(doc.project)
    /\ Change("purgeProject", d, Document(
          CompactPurged(doc.project, d),
          IF Holds(doc, "section") THEN CompactSection(Stamp(doc.section, d), time) ELSE Absent,
          DetachedTask(doc.task, d)))

(* archiveSectionForProjectArchive, completeTaskForProjectArchive *)
ArchivedSection(section, d) ==
    [Stamp(section, d) EXCEPT !.deletedAt = time, !.projectArchivedAt = time]
CompletedTask(task, d) ==
    [Stamp(task, d) EXCEPT !.content = 2 * Container(task) + 1, !.projectArchivedAt = time]

(* The live children of a project that is or becomes archived. *)
ArchiveChildren(doc, d) ==
    [doc EXCEPT
        !.section = IF Live(doc, "section") THEN ArchivedSection(@, d) ELSE @,
        !.task = IF Live(doc, "task") /\ Container(@) > 0 /\ ~Closed(@)
                 THEN CompletedTask(@, d) ELSE @]

(* applyProjectLifecycleTransition, entering the archive *)
ArchiveProject(d) ==
    /\ Live(local[d], "project") /\ ~ArchivedProject(local[d])
    /\ Change("archiveProject", d,
          [ArchiveChildren(local[d], d) EXCEPT !.project = [Stamp(@, d) EXCEPT !.content = 1]])

(* ... and leaving it: what the archiving changed and nobody touched since. *)
ReactivateProject(d) ==
    LET doc == local[d]
        Untouched(row) == row.projectArchivedAt # Never /\ row.updatedAt = row.projectArchivedAt
    IN  /\ ArchivedProject(doc)
        /\ Change("reactivateProject", d, Document(
              [Stamp(doc.project, d) EXCEPT !.content = 0],
              IF RestorableArchiveSection(doc.section)
              THEN [Stamp(doc.section, d) EXCEPT !.deletedAt = NotDeleted,
                                                 !.projectArchivedAt = Never]
              ELSE doc.section,
              IF Live(doc, "task") /\ Container(doc.task) > 0 /\ Closed(doc.task)
                 /\ Untouched(doc.task)
              THEN [Stamp(doc.task, d) EXCEPT !.content = 2 * Container(doc.task),
                                              !.projectArchivedAt = Never]
              ELSE doc.task))

(* sectionDeleteEffect: every task of the section leaves it, tombstones too. *)
DeleteSection(d) ==
    LET doc == local[d] IN
    /\ Live(doc, "section")
    /\ Change("deleteSection", d, [doc EXCEPT
          !.section = [Stamp(@, d) EXCEPT !.deletedAt = time],
          !.task = IF Container(@) = 2 THEN WithContainer(Stamp(@, d), 1) ELSE @])

------------------------------------------------------------------------------
(* runLoadMigrations, the passes that deal with containers and tombstones:   *)
(* marks of deleted tasks are cleared, what an archived project still holds  *)
(* is archived, dangling references are mended, expired tombstones purged.   *)
ClearMarks(doc) ==
    [doc EXCEPT !.task = IF Deleted(@) THEN [@ EXCEPT !.projectArchivedAt = Never] ELSE @]

ArchiveDescendants(doc, d) == IF ArchivedProject(doc) THEN ArchiveChildren(doc, d) ELSE doc

MendReferences(doc, d) ==
    LET mended == IF Live(doc, "section") /\ ~Live(doc, "project")
                  THEN [doc EXCEPT !.section = [Stamp(@, d) EXCEPT !.deletedAt = time]]
                  ELSE doc
    IN  IF Live(mended, "task") /\ RepairedContainer(mended) # Container(mended.task)
        THEN [mended EXCEPT !.task = WithContainer(Stamp(@, d), RepairedContainer(mended))]
        ELSE mended

LoadedDocument(doc, d) ==
    Once(LAMBDA mended : PurgeExpired(mended, time, FALSE, d \in users.oldPeers),
         Once(LAMBDA archived : MendReferences(archived, d),
              ArchiveDescendants(ClearMarks(doc), d)))

(* The tombstones of `docs' that `next' no longer holds. *)
Forgotten(docs, next) ==
    [k \in Rows |->
        LET times == {doc[k].deletedAt : doc \in {e \in docs : Gone(e, k) /\ ~Holds(next, k)}}
        IN  Max(times \cup {forgotten[k]})]

Load(d) ==
    \E doc \in {LoadedDocument(local[d], d)} :
        /\ doc # local[d]
        /\ local' = [local EXCEPT ![d] = doc]
        /\ forgotten' = Forgotten({local[d]}, doc)
        /\ UNCHANGED <<time, changes, remote, lastSync>>

Synced(d) == SyncResult(local[d], remote, time, d \in users.oldPeers)

(* A document that is not whole is refused and the sync fails. *)
Sync(d) ==
    \E doc \in {Synced(d)} :
        /\ Valid(doc)
        /\ local' = [local EXCEPT ![d] = doc]
        /\ remote' = doc
        /\ lastSync' = [lastSync EXCEPT ![d] = time]
        /\ forgotten' = Forgotten({local[d], remote}, doc)
        /\ UNCHANGED <<time, changes>>

Tick ==
    /\ time < MaxTime
    /\ \A d \in Devices : time - lastSync[d] < MaxOffline
    /\ time' = time + 1
    /\ UNCHANGED <<changes, local, remote, lastSync, forgotten>>

Step ==
    \/ \E d \in Devices :
          \/ \E in \in 0..2 : MoveTask(d, in)
          \/ DeleteTask(d) \/ RestoreTask(d) \/ PurgeTask(d)
          \/ DeleteProject(d) \/ RestoreProject(d) \/ PurgeProject(d)
          \/ ArchiveProject(d) \/ ReactivateProject(d)
          \/ DeleteSection(d)
          \/ Load(d) \/ Sync(d)
    \/ Tick

Next == Step /\ UNCHANGED users

(* Every device goes on syncing. *)
Fairness == \A d \in Devices : WF_vars(Sync(d) /\ UNCHANGED users)

Spec == Init /\ [][Next]_vars /\ Fairness

------------------------------------------------------------------------------
RowType ==
    [updatedAt : Nat, deletedAt : Nat \cup {NotDeleted}, purgedAt : Nat \cup {Never},
     projectArchivedAt : Nat \cup {Never}, rev : Nat, revBy : Devices \cup {SyncRepair},
     content : 0..5]

(* Every document holds well-formed rows of the project, the section, the task. *)
TypeOK ==
    /\ time \in 0..MaxTime /\ changes \in 0..MaxChanges
    /\ \A doc \in {local[d] : d \in Devices} \cup {remote} :
          \A k \in Rows : doc[k] \in RowType \cup {Absent}
    /\ lastSync \in [Devices -> 0..MaxTime] /\ forgotten \in [Rows -> -1..MaxTime]

(* Whatever users did on every device, no sync ends in a document that       *)
(* validateMergedSyncData refuses: a refusal would come back on every cycle, *)
(* and nothing would sync any more.                                          *)
SyncNeverRefused == \A d \in Devices : Valid(Synced(d))

(* A purged tombstone leaves no older version behind to come back: whatever  *)
(* is live anywhere was changed after every deletion already forgotten.      *)
NoStaleRevival ==
    \A doc \in {local[d] : d \in Devices} \cup {remote}, k \in Rows :
        Live(doc, k) => doc[k].updatedAt >= forgotten[k]

(* While a project rests in the archive, here and in the remote document,    *)
(* with the section that its reactivation would bring back, no sync and no   *)
(* load of a present client takes that section away, however long ago it was *)
(* deleted.                                                                  *)
ArchiveSectionsStay ==
    [][\A d \in Devices \ users.oldPeers :
          /\ ArchivedProject(local'[d])
          /\ \A doc \in {local[d], remote} :
                ArchivedProject(doc) /\ RestorableArchiveSection(doc.section)
          => Holds(local'[d], "section")]_vars

(* A sync discards a restorable archive section only as one "the remote      *)
(* document dropped while still holding" its project (comment on             *)
(* peerPurgedSectionIds), never one that the remote document still holds.    *)
(* A claim the code does not keep (README, section 4); no run checks it.     *)
PeerPurgeFollowsPeer ==
    [][\A d \in Devices :
          /\ ArchivedProject(local[d]) /\ ArchivedProject(local'[d])
          /\ RestorableArchiveSection(local[d].section) /\ ~Holds(local'[d], "section")
          => ~Holds(remote, "section")]_vars

(* Repairs, compactions and purges of several devices do not answer each     *)
(* other for ever: in the end all hold the same document and no sync writes  *)
(* anything new.                                                             *)
RewritesEnd == <>[](\A d \in Devices : local[d] = remote)

(* What holds of every document a device has or is about to write: its rows  *)
(* are well formed, mergeAppData's result is never refused, and no purge     *)
(* lets an older version come back.                                          *)
DocumentsInv == TypeOK /\ SyncNeverRefused /\ NoStaleRevival
==============================================================================
