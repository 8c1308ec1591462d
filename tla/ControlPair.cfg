SPECIFICATION Spec
CONSTANTS
  Models = {m1, m2}
  None = None
  MaxTrouble = 1
  BreakerMaxCrashes = 3
  MaxStray = 0
  Stops = {c1}
  Syncs = {"status","tick"}
  Probes = {p1}
  Ops = {"start","stop"}
  MaxOps = 3
  Warm = FALSE
CHECK_DEADLOCK FALSE
INVARIANT CurrentIsLive
PROPERTIES CurrentNotLost
