CONSTANTS
  Caller = {owner}
  MaxQueue = 1
  MaxChatMessages = 1
  MaxAgents = 2
  MaxCalls = 1
  MaxChatUpsets = 1
SPECIFICATION ChatSpec
CHECK_DEADLOCK FALSE
INVARIANT RemovedStaysRemoved
