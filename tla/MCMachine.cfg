CONSTANTS
  c1 = c1  c2 = c2
  Caller = {c1, c2}
  MaxCrashes = 1
  Setups <- MCSetups
  MaxLaunches = 3
  MaxFaults = 3
  MaxOwner = 2
SPECIFICATION MachineSpec
CHECK_DEADLOCK FALSE
INVARIANTS
  EndedMeansStopped
  FilesAccounted
  EndsWhole
PROPERTIES
  JobEnds
  OwnersWorkStays
