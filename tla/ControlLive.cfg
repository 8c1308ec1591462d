SPECIFICATION FairSpec
CONSTANTS
  Models = {m1}
  None = None
  MaxTrouble = 1
  BreakerMaxCrashes = 3
  MaxStray = 1
  Stops = {c1}
  Syncs = {"tick"}
  Probes = {p1}
  Ops = {"start","stop","restart","unlock"}
  MaxOps = 1
  Warm = TRUE
CHECK_DEADLOCK FALSE
PROPERTIES LoadingResolves StartLockReleased ZombieRemoved CrashAnswered
