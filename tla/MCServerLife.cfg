CONSTANTS
  o1 = o1  p1 = p1  p2 = p2
  Owner = {o1}
  Pid = {p1, p2}
  RecoveryLimit = 1
  UnhealthyPasses = 2
  MaxCommands = 2
  MaxUpsets = 2
SPECIFICATION FairSpec
CHECK_DEADLOCK FALSE
PROPERTIES
  StartsOneServer
  ComesBack
