SPECIFICATION FairSpec
CONSTANTS
    MaxTime = 2
    Overdue = 0
    MaxCounted = 3
    Definitions <- MCDefinitions
    MaxChanges = 1
    MaxCrashes = 1
INVARIANTS OneRunAtATime NoSlotLost SlotRunsOnce
PROPERTIES RunEnds NothingLeftWaiting
CHECK_DEADLOCK FALSE
