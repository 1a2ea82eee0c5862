SPECIFICATION ServiceSpec
CONSTANTS
  Owners = {alice}
  TimerIds = {t1}
  OccIds <- Upto2
  Keys = {key}
  Schedules <- TwoShots
  Policies = {"coalesce"}
  Instants <- Upto3
  Grace = 1
  PendingLimit = 1
  OwnerLimit = 1
  TotalLimit = 1
  RetainLimit = 2
  MaxRevision = 1
  Faults = {"lost", "unsynced"}
  Damageable = {alice}
  Keep = Keep
  ChannelLimit = 1
  TimerRounds = 1
  Disturbances = {"crash", "crowd"}
PROPERTY ExecutedOnce
