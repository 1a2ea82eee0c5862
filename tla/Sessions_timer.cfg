SPECIFICATION SessionsSpec
CONSTANTS
  c1 = c1
  c2 = c2
  s1 = s1
  s2 = s2
  k1 = k1
  k2 = k2
  team = team
  Keys = {k1, k2}
  Groups = {team}
  GroupOf <- OneGroup
  Clients = {c1, c2}
  Streams = {s1, s2}
  MaxSessions = 2
  MaxRounds = 1
  TimerRounds = 1
  Nobody = Nobody
  NoStream = NoStream
  Workflows = {}
  TimerKeys = {k1}
  MailboxLimit = 1
  InputLimit = 1
  Requests = {"chat", "clean"}
  Disturbances = {"reap", "failure"}
INVARIANTS OneEngine ReleaseStrandsNobody CleanedQuietly
CONSTRAINT FewMessages
SYMMETRY Symmetry
CHECK_DEADLOCK FALSE
