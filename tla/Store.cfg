SPECIFICATION ServiceSpec
CONSTANTS
  Models = {m1}
  Torn = Torn
  NoTimer = NoTimer
  Timers = {t1, t2, t3}
  MaxChanges = 2
  MaxFailures = 2
  Tabs = {b1, b2, b3}
  NoTab = NoTab
  Subscribers = {s1, s2}
  Buffer = 1
  MaxBadCycles = 1
INVARIANTS ServiceTypeOK DirtyIsScheduled BurstShared
PROPERTIES ImplementsDurable StatusAnswered SubscribersServed
