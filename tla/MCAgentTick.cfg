CONSTANTS
  c1 = c1  c2 = c2
  Callers <- MCOne
  MaxAttempts = 2
  MaxCrashes = 0
SPECIFICATION Spec
CHECK_DEADLOCK FALSE
PROPERTIES
  CapacityHeldUntilStopped
