SPECIFICATION ReplicasSpec
CONSTANTS
    ClockSkewThreshold = 2
    AmbiguousWindow = 1
    BackupRestore = 9
    Devices <- MCDevices
    Ahead <- MCAhead
    MaxTime = 3
    MaxRev = 4
    MaxChanges = 4
    Deletes = TRUE
CHECK_DEADLOCK FALSE
INVARIANTS MergeSymmetric ChangesSurvive DocumentsInv
PROPERTIES Converges ArchiveSectionsStay RewritesEnd
