SPECIFICATION Spec
CONSTANTS
  Models = {m1}
  None = None
  MaxTrouble = 1
  BreakerMaxCrashes = 3
  MaxStray = 1
  Stops = {c1}
  Syncs = {"tick"}
  Probes = {p1}
  Ops = {"start", "stop", "lock", "unlock", "window", "restart", "expire"}
  MaxOps = 2
  Warm = TRUE
CHECK_DEADLOCK FALSE
INVARIANTS TypeOK StartLockOwned AttemptsOwned FlagNeverLeaks
PROPERTIES NoCrashWhileStopping
