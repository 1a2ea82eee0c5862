SPECIFICATION FairSpec
CONSTANTS
  c1 = c1
  c2 = c2
  s1 = s1
  s2 = s2
  k1 = k1
  k2 = k2
  team = team
  Keys = {k1}
  Groups = {team}
  GroupOf <- OneGroup
  Clients = {c1, c2}
  Streams = {s1}
  MaxSessions = 1
  MaxRounds = 1
  TimerRounds = 1
  Nobody = Nobody
  NoStream = NoStream
  Workflows = {k1}
  TimerKeys = {}
  MailboxLimit = 1
  InputLimit = 1
  Requests = {"cancel", "close"}
  Disturbances = {"overflow", "reap", "stop"}
PROPERTIES UsersHoldLease LeaseIsReleased CancelIsHonoured ShutdownEnds
CHECK_DEADLOCK FALSE
