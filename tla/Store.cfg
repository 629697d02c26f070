SPECIFICATION StoreSpec
CONSTANTS
    Tasks = {t1, t2}
    FlushCallers = {c1, fetching}
    FetchCaller = fetching
    RetryCaller = retry
    MaxPending = 2
    MaxAttempts = 2
    MaxVersion = 3
CHECK_DEADLOCK FALSE
INVARIANTS QueueInv ReceiptsInv
PROPERTIES NothingGoesBack SavedOrReported RepliesStand JournalEmpties
