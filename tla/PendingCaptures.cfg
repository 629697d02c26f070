SPECIFICATION Spec
CONSTANTS
    t1 = t1
    Items <- MCItems
    Tasks <- MCTasks
    Uses <- MCUses
CHECK_DEADLOCK FALSE
INVARIANTS CapturesInv
PROPERTIES ReplayWritesNothing EventuallyTaken
