SPECIFICATION ConfiguredSpec
CONSTANTS
    InitialSetups = {"file", "webdav", "dropbox"}
    Candidates = {"file", "bookmark", "webdav", "webdavKeep", "selfhosted", "dropbox"}
    MaxCommits = 2
    MaxFaults = 2
    MaxSyncs = 2
CONSTRAINT NotBoth
CHECK_DEADLOCK FALSE
INVARIANTS TransactionInv SyncUsesStored
