CONSTANTS
  c1 = c1  c2 = c2  c3 = c3  r1 = r1  r2 = r2  k = k
  NoKey = NoKey
  Calls <- MCCalls
  Keys <- MCKeys
  KeyOf <- MCKeyOf
  Resumers <- MCResumers
  MaxAgents = 2
  MaxResumes = 2
  MaxPending = 2
SPECIFICATION Spec
SYMMETRY MCSymmetry
INVARIANTS NoEffectUnrecorded CurrentActs RetryReplaysNothing KeyRunsOnce

CHECK_DEADLOCK FALSE
