SPECIFICATION StorageSpec
CONSTANTS
    NoDoc = NoDoc
    Rows = {r1}
    Settings = {theme}
    Exposures <- MCExposures
    MaxEdits = 3
    MaxCrashes = 1
CHECK_DEADLOCK FALSE
INVARIANTS StorageInv
PROPERTIES NoSaveBeforeReload
