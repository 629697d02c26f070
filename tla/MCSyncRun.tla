------------------------------ MODULE MCSyncRun ------------------------------
(* Bounds small enough for every event in every window of a run.             *)
EXTENDS SyncRun
=============================================================================
