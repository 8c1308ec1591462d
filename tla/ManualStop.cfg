SPECIFICATION HistorySpec
CONSTANTS
  Models = {m1}
  None = None
  MaxTrouble = 0
  BreakerMaxCrashes = 3
  MaxStray = 0
  Stops = {c1}
  Syncs = {"tick", "list"}
  Probes = {p1}
  Ops = {"stop"}
  MaxOps = 1
  Warm = TRUE
CHECK_DEADLOCK FALSE
PROPERTY ManualStopIsFinal
