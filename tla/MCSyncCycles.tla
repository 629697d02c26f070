---------------------------- MODULE MCSyncCycles ----------------------------
(* Three live promises (two may be orphans of reset()), two arguments.       *)
EXTENDS SyncCycles
MCPacingDelays == {0, 1}
MCRequestDelays == {1, 2}
=============================================================================
