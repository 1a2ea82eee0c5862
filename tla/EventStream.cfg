SPECIFICATION FairSpec
CONSTANTS
  Conns = {one, two}
  Nobody = Nobody
  LastEvent = 3
  Oversized = {2, 3}
  ReplayLimit = 2
  QueueLimit = 3
  Requests <- OneRequest
  CacheLimit = 1
  AskLimit = 2
  BreakLimit = 1
  Tries = 1
INVARIANT RequestsRunOnce
PROPERTIES DeliverySpec FollowerSettles
CHECK_DEADLOCK FALSE
