SPECIFICATION FairSpec
CONSTANTS
  Owners = {alice}
  TimerIds = {t1, t2}
  OccIds <- Upto2
  Keys = {key1, key2}
  Schedules <- OneShot
  Policies = {"coalesce"}
  Instants <- Upto2
  Grace = 1
  PendingLimit = 1
  OwnerLimit = 2
  TotalLimit = 2
  RetainLimit = 2
  MaxRevision = 1
  Faults = {}
  Damageable = {}
  Keep = Keep
  ChannelLimit = 1
  TimerRounds = 1
  Disturbances = {"stop"}
PROPERTIES PendingIsTakenUp StopEnds
CONSTRAINT OwnTimers
