CONSTANTS
  k1 = k1  k2 = k2  c1 = c1  c2 = c2
  Conversation = {k1, k2}
  Transport = {k2}
  Call = {c1, c2}
  MaxPresses = 3
  MaxPending = 1
  MaxKeys = 1
  MaxTombstones = 1
  MaxSent = 4
  MaxLives = 2
  MaxBoots = 1
  a1 = a1  a2 = a2  t1 = t1  t2 = t2  lead = lead  everyone = everyone  nobody = nobody
  Agent = {a1, a2}
  Lead = lead
  Task = {t1, t2}
  TaskOf <- MCTaskOf
  Dependents <- MCDependents
  Pushed = {a1}
  p1 = p1  p2 = p2
  Pusher = {p1, p2}
  Everyone = everyone
  Nobody = nobody
  ClaimLimit = 1
  History = 4
  Budget = 1
  MaxPosts = 2
  MaxAttempts = 2
  MaxUpsets = 1
  Targets = {everyone, a1, t1}
  Readers = {a1}
  o1 = o1  o2 = o2
  Caller = {o1, o2}
  MaxQueue = 2
  MaxChatMessages = 2
  MaxAgents = 2
  MaxCalls = 2
  MaxChatUpsets = 1
SPECIFICATION ConversationsSpec
CHECK_DEADLOCK FALSE
SYMMETRY Symmetry
INVARIANTS
  InstructionAccounted
  LifecycleTrue
  AcceptedOnce
  ShownOnceInOrder
  UnseenReachesLead
  MessageAccounted
  AgentsAccounted
