CONSTANTS
  c1 = c1  c2 = c2
  Callers <- MCOne
  MaxAttempts = 2
  MaxCrashes = 1
SPECIFICATION FairSpec
CHECK_DEADLOCK FALSE
INVARIANTS
  NeverStartedRanNothing
PROPERTIES
  CapacityOutlivesProvider
  AgentEnds
  EndedFreesCapacity
