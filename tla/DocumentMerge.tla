---------------------------- MODULE DocumentMerge ----------------------------
(***************************************************************************)
(* The merge of whole documents: a project, one of its sections and a task *)
(* that may sit in either.  sync.ts mergeAppDataWithStats merges row by    *)
(* row (EntityMerge), repairMergedSyncReferences mends what then points at *)
(* nothing, purgeExpiredTombstones drops what was deleted long ago and     *)
(* validateMergedSyncData refuses a document that is not whole.            *)
(*                                                                         *)
(* A document gives each row its version or Absent.  `content' packs what  *)
(* merges compare: for a project its status (1 archived), for a section    *)
(* whether it still has its title, for a task 2 * container + closed, the  *)
(* container being 0 none, 1 the project, 2 the section (and the project). *)
(***************************************************************************)
EXTENDS EntityMerge

CONSTANTS
    Retention,       \* tombstone retention
    SyncRepair       \* SYNC_REPAIR_REV_BY, as a device id

Rows == {"project", "section", "task"}
Never == NotDeleted
Absent ==
    [updatedAt |-> 0, deletedAt |-> NotDeleted, purgedAt |-> Never, projectArchivedAt |-> Never,
     rev |-> 0, revBy |-> 0, content |-> 0]
Document(project, section, task) == [project |-> project, section |-> section, task |-> task]

(* Op(v), with v evaluated once. *)
Once(Op(_), v) == CHOOSE y \in {Op(x) : x \in {v}} : TRUE

Holds(doc, k) == doc[k] # Absent
Live(doc, k) == Holds(doc, k) /\ ~Deleted(doc[k])
Gone(doc, k) == Holds(doc, k) /\ Deleted(doc[k])
Purged(row) == row.purgedAt # Never

Container(task) == task.content \div 2
Closed(task) == task.content % 2 = 1
(* Mutation of WithContainer: the former container is not cleared. *)
WithContainerAdded(task, in) == [task EXCEPT !.content = 2 * in + @]
WithContainer(task, in) == [task EXCEPT !.content = 2 * in + (@ % 2)]

ArchivedProject(doc) == Live(doc, "project") /\ doc.project.content = 1

(* isRestorableProjectArchiveSection: deleted by the archiving of its project *)
(* and not touched since.                                                     *)
RestorableArchiveSection(section) ==
    /\ section.projectArchivedAt # Never
    /\ section.updatedAt = section.projectArchivedAt
    /\ section.deletedAt = section.projectArchivedAt

(* isTaskSectionProjectArchiveReference: a closed task of an archived project *)
(* may stay in a section that the archiving deleted.                          *)
ArchiveReference(doc) ==
    /\ ArchivedProject(doc) /\ Holds(doc, "section") /\ Closed(doc.task)
    /\ doc.section.projectArchivedAt # Never
    /\ doc.section.deletedAt = doc.section.projectArchivedAt

------------------------------------------------------------------------------
(* Purging *)

(* Mutation of Expired: off by one. *)
ExpiredSooner(doc, k, cutoff) == Gone(doc, k) /\ doc[k].deletedAt - 1 <= cutoff

(* isEntityTombstoneExpired *)
Expired(doc, k, cutoff) ==
    /\ Gone(doc, k)
    /\ IF k # "section" /\ Purged(doc[k]) THEN doc[k].purgedAt <= cutoff
                                           ELSE doc[k].deletedAt <= cutoff

(* A section that reactivating its project would bring back, the project    *)
(* being archived and, if it is in the trash, not expired.                  *)
ArchiveKeeps(doc, cutoff) ==
    /\ Holds(doc, "project") /\ doc.project.content = 1 /\ ~Purged(doc.project)
    /\ ~Expired(doc, "project", cutoff)
    /\ RestorableArchiveSection(doc.section)

(* A task that stays points at the section (2) or at least at the project (1). *)
TaskIn(doc, cutoff, in) ==
    Holds(doc, "task") /\ ~Expired(doc, "task", cutoff) /\ Container(doc.task) >= in

(* A client up to 1.3.0 knows no exception for the sections of an archive; it *)
(* is also a mutation of SectionKept.                                         *)
OldSectionKept(doc, cutoff, peerPurged) ==
    ~Expired(doc, "section", cutoff) \/ TaskIn(doc, cutoff, 2)
(* Mutation of SectionKept: a peer's purge is not taken over. *)
SectionKeptFromPeer(doc, cutoff, peerPurged) ==
    ~Expired(doc, "section", cutoff) \/ ArchiveKeeps(doc, cutoff) \/ TaskIn(doc, cutoff, 2)

SectionKept(doc, cutoff, peerPurged) ==
    \/ ~Expired(doc, "section", cutoff)
    \/ ArchiveKeeps(doc, cutoff) /\ ~peerPurged
    \/ TaskIn(doc, cutoff, 2)

(* purgeExpiredTombstones: children before parents, a parent stays while any *)
(* remaining row points at it.                                               *)
PurgeExpired(doc, now, peerPurged, old) ==
    LET cutoff == now - Retention
        section == IF IF old THEN OldSectionKept(doc, cutoff, peerPurged)
                             ELSE SectionKept(doc, cutoff, peerPurged)
                   THEN doc.section ELSE Absent
        projectGoes == /\ Expired(doc, "project", cutoff)
                       /\ section = Absent /\ ~TaskIn(doc, cutoff, 1)
    IN  Document(IF projectGoes THEN Absent ELSE doc.project, section,
                 IF Expired(doc, "task", cutoff) THEN Absent ELSE doc.task)

------------------------------------------------------------------------------
(* Merging *)

(* compactPurgedProjectSectionTombstone *)
CompactSection(section, purgedAt) ==
    [section EXCEPT !.content = 0, !.updatedAt = purgedAt, !.deletedAt = purgedAt,
                    !.projectArchivedAt = Never]

(* compactSectionsForPurgedProjects; a stamped compaction that changes        *)
(* anything is a new revision.                                                *)
CompactSections(doc, stamp) ==
    IF ~(Holds(doc, "section") /\ Holds(doc, "project") /\ Purged(doc.project)) THEN doc
    ELSE LET compact == CompactSection(doc.section, doc.project.purgedAt)
         IN  [doc EXCEPT !.section =
                 IF stamp /\ compact # doc.section
                 THEN [compact EXCEPT !.rev = @ + 1, !.revBy = SyncRepair] ELSE compact]

MergeRow(local, incoming, now) ==
    IF incoming = Absent THEN local
    ELSE IF local = Absent THEN incoming
    ELSE MergeWinner(local, incoming, now)

(* withRepairRevision: repairs of repairs share a revision. *)
WithRepairRevision(row, now) ==
    [row EXCEPT !.rev = IF row.revBy = SyncRepair THEN @ ELSE @ + 1, !.revBy = SyncRepair,
                !.updatedAt = now]

(* A section does not outlive its project. *)
RepairSection(doc, now) ==
    IF ~(Holds(doc, "section") /\ Gone(doc, "project")) THEN doc
    ELSE IF Live(doc, "section")
    THEN [doc EXCEPT !.section = [WithRepairRevision(@, now) EXCEPT !.deletedAt = now]]
    ELSE CompactSections(doc, TRUE)

(* Mutation of RepairedContainer: a deleted project still holds its tasks. *)
ContainerOfAnyProject(doc) ==
    LET in == Container(doc.task)
    IN  IF in > 0 /\ ~Holds(doc, "project") THEN 0
        ELSE IF in = 2 /\ ~(Live(doc, "section") \/ ArchiveReference(doc)) THEN 1
        ELSE in

(* Where a task belongs once its project or its section is gone. *)
RepairedContainer(doc) ==
    LET in == Container(doc.task)
    IN  IF in > 0 /\ ~Live(doc, "project") THEN 0
        ELSE IF in = 2 /\ ~(Live(doc, "section") \/ ArchiveReference(doc)) THEN 1
        ELSE in

(* Tombstones are repaired too. *)
RepairTask(doc, now) ==
    IF ~Holds(doc, "task") \/ RepairedContainer(doc) = Container(doc.task) THEN doc
    ELSE [doc EXCEPT !.task =
             WithContainer(WithRepairRevision(@, now), RepairedContainer(doc))]

RepairReferences(doc, now) ==
    Once(LAMBDA repaired : RepairTask(repaired, now), RepairSection(doc, now))

MergeDocuments(local, incoming, now) ==
    LET l == CompactSections(local, TRUE)
        i == CompactSections(incoming, TRUE)
        merged == Document(MergeRow(l.project, i.project, now), MergeRow(l.section, i.section, now),
                           MergeRow(l.task, i.task, now))
    IN  Once(LAMBDA repaired : CompactSections(repaired, FALSE),
             Once(LAMBDA doc : RepairReferences(doc, now), merged))

(* The section a peer's cycle has purged: the remote document lacks it but    *)
(* still holds its project, and no task needs it.                             *)
PeerPurged(merged, remote) ==
    /\ Holds(merged, "section") /\ ~Holds(remote, "section")
    /\ Holds(remote, "project")
    /\ ~(Holds(merged, "task") /\ Container(merged.task) = 2)

(* performSyncCycleUnlocked, as far as documents go: both sides are purged,   *)
(* merged, and purged again.                                                  *)
SyncResult(local, remote, now, old) ==
    LET Result(purgedRemote) ==
            Once(LAMBDA merged : PurgeExpired(merged, now, PeerPurged(merged, purgedRemote), old),
                 Once(LAMBDA purgedLocal : MergeDocuments(purgedLocal, purgedRemote, now),
                      PurgeExpired(local, now, FALSE, old)))
    IN  Once(Result, PurgeExpired(remote, now, FALSE, old))

------------------------------------------------------------------------------
(* validateMergedSyncData *)
Valid(doc) ==
    /\ Holds(doc, "section") => Holds(doc, "project")
    /\ Live(doc, "section") => ~Gone(doc, "project")
    /\ Holds(doc, "task") =>
          LET in == Container(doc.task)
          IN  /\ in > 0 => Holds(doc, "project")
              /\ in = 2 => Holds(doc, "section")
              /\ Live(doc, "task") => /\ in > 0 => Live(doc, "project")
                                      /\ in = 2 => Live(doc, "section") \/ ArchiveReference(doc)
==============================================================================
