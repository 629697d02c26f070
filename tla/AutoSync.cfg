SPECIFICATION EitherSpec
CONSTANTS
    Mobile = TRUE
    MinInterval = 1
    FocusMinInterval = 0
    FocusDedupe = 1
    DebounceFirst = 0
    DebounceContinuous = 0
    CooldownBase = 1
    CooldownMax = 1
    RetryAfters = {0, 2}
    InitialDelay = 0
    PeriodicInterval = 2
    AdaptiveMultiplier = 2
    AdaptiveMax = 2
    Long = 2
    ForegroundMinInterval = 1
    AppStateDedupe = 1
INVARIANTS ControllerInv
PROPERTIES EditsSynced
