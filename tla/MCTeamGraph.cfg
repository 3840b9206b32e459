CONSTANTS
  code = code  review = review  ship = ship  extra = extra
  None = None
  Order <- MCOrder
  DependsOn <- MCDeps
  ReviewOf <- MCReviewOf
  MaxRevisions <- MCLimit
  Spawned = 3
  MaxParallel = 1
  MaxControls = 2
  MaxCrashes = 0
  GatesParallel = 2
  GatesControls = 1
  GatesCrashes = 1
SPECIFICATION TeamSpec
CHECK_DEADLOCK FALSE
INVARIANTS
  SkippedForCause
  PassedTargetStands
PROPERTIES
  GatedStart
  TeamEnds
