----------------------------- MODULE MCReplicas -----------------------------
(***************************************************************************)
(* Devices that exchange one entity (SyncReplicas), and devices that       *)
(* exchange whole documents (DocumentReplicas), side by side: the machine  *)
(* of a behaviour is chosen at its start.                                  *)
(***************************************************************************)
EXTENDS SyncReplicas

(* The clock of device 2 is one unit (the window) ahead. *)
MCDevices == 1..2
MCAhead == [d \in MCDevices |-> IF d = 2 THEN 1 ELSE 0]

-----------------------------------------------------------------------------
(* Two devices whose users move and delete; or delete, restore and purge;   *)
(* or archive and delete sections; and two that archive, one of them with an *)
(* old client.                                                               *)
Of(operations, oldPeers) == [operations |-> operations, oldPeers |-> oldPeers]

MoveAndDelete == Of({"moveTask", "deleteTask", "deleteProject"}, {})

MCHabits ==
    {MoveAndDelete,
     Of({"deleteTask", "restoreTask", "purgeTask",
         "deleteProject", "restoreProject", "purgeProject"}, {}),
     Of({"archiveProject", "reactivateProject", "deleteSection"}, {}),
     Of({"archiveProject", "reactivateProject"}, {2})}

VARIABLES dTime, dChanges, dLocal, dRemote, dLastSync, dForgotten, dUsers

Documents ==
    INSTANCE DocumentReplicas WITH
        ClockSkewThreshold <- 100, AmbiguousWindow <- 0, BackupRestore <- 8,
        SyncRepair <- 9, Retention <- 3, Devices <- MCDevices, Habits <- MCHabits,
        MaxOffline <- 1, MaxTime <- 4, MaxChanges <- 2,
        time <- dTime, changes <- dChanges, local <- dLocal, remote <- dRemote,
        lastSync <- dLastSync, forgotten <- dForgotten, users <- dUsers

ASSUME MCDocumentsAssumption == Documents!DocumentConstants

-----------------------------------------------------------------------------
VARIABLE machine

documentVars == <<dTime, dChanges, dLocal, dRemote, dLastSync, dForgotten, dUsers>>
allVars == <<vars, documentVars, machine>>

ReplicasInit ==
    /\ machine \in {"entity", "documents"}
    /\ Init /\ (machine = "documents" => remote = Created(1))
    /\ Documents!Init
    /\ machine = "entity" =>
          /\ dUsers = MoveAndDelete
          /\ Documents!Holds(dRemote, "section") /\ dRemote.task.content = 2

ReplicasNext ==
    \/ machine = "entity" /\ Next /\ UNCHANGED <<documentVars, machine>>
    \/ machine = "documents" /\ Documents!Next /\ UNCHANGED <<vars, machine>>

(* Every device goes on syncing. *)
ReplicasFairness ==
    \A d \in MCDevices :
        /\ WF_vars(machine = "entity" /\ Sync(d))
        /\ WF_documentVars(machine = "documents" /\ Documents!Sync(d) /\ UNCHANGED dUsers)

ReplicasSpec == ReplicasInit /\ [][ReplicasNext]_allVars /\ ReplicasFairness

-----------------------------------------------------------------------------
(* The properties of DocumentReplicas, under the names the run uses.         *)

(* No sync ends in a document that is refused, and no purge revives a row. *)
DocumentsInv == Documents!DocumentsInv

(* A resting archive keeps the section its reactivation brings back. *)
ArchiveSectionsStay == Documents!ArchiveSectionsStay

(* Repairs and purges of several devices do not answer each other for ever. *)
RewritesEnd == Documents!RewritesEnd
=============================================================================
