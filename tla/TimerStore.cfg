SPECIFICATION Spec
CONSTANTS
  Owners = {alice}
  TimerIds = {t1}
  OccIds <- Upto2
  Keys = {key}
  Schedules <- LongAndFinal
  Policies = {"skip"}
  Instants <- Upto4
  Grace = 1
  PendingLimit = 1
  OwnerLimit = 1
  TotalLimit = 1
  RetainLimit = 1
  MaxRevision = 2
  Faults = {"unsynced"}
  Damageable = {alice}
  Keep = Keep
INVARIANTS NoOverlap NeverStartedTwice AnswersAreDurable LimitRespected
