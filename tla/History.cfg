SPECIFICATION HistorySpec
CONSTANTS
  Models = {m1}
  None = None
  MaxTrouble = 4
  BreakerMaxCrashes = 3
  MaxStray = 1
  Stops = {c1}
  Syncs = {"tick"}
  Probes = {p1}
  Ops = {"start", "restart"}
  MaxOps = 1
  Warm = TRUE
CHECK_DEADLOCK FALSE
INVARIANTS FlapBound BreakerHolds
