SPECIFICATION FairSpec
CONSTANTS
  Commands = {alice, bob}
  LastService = 2
  Nobody = Nobody
  Disturbances = {"crash", "kill", "foreground", "signal", "late", "fail", "show"}
INVARIANTS ServingIsPublished StartsSucceed
PROPERTIES StopMeansStopped CommandsEnd
CHECK_DEADLOCK FALSE
