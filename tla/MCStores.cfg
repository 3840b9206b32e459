CONSTANTS
  t1 = t1  t2 = t2  k1 = k1  k2 = k2
  r1 = r1  r2 = r2  r3 = r3
  pa = pa  pb = pb  g1 = g1  g2 = g2
  None = None
  Ask <- MCAsk
  ClaimSets <- MCClaimSets
  Agent = {g1, g2}
  Provider = {pa, pb}
  ConfiguredLimit = 2
  ProviderLimit <- MCProviderLimit
  QueueLimit = 2
  MaxSeq = 3
  MaxGen = 3
  p = p  q = q  x = x  y = y  nothing = nothing
  Path = {p, q}
  Content = {nothing, x, y}
  Absent = nothing
  Large = {y}
  Start <- MCStart
  Plan <- MCPlan
  Coverage = {{p}}
  CommandWrite <- MCCommandWrite
  OwnerWrite <- MCOwnerWrite
  MaxTransactions = 2
  MaxMade = 3
  MaxUpsets = 1
SPECIFICATION StoresSpec
SYMMETRY Symmetry
CHECK_DEADLOCK FALSE
INVARIANTS
  ExclusiveOwnership
  OnePlacePerRequest
  WithinCapacity
  ChangesCanBeRestored
  ChildrenKept
PROPERTIES
  OlderRunnableKeepsSlot
  OwnershipSpec
  FailedCallLeavesNothing
  UndoSparesNewerWork
