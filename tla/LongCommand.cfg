SPECIFICATION RemoteSpec
CONSTANTS
  Keys = {k1, k2}
  Workers = {w1, w2}
  Clients = {c1, c2, c3}
  NoClient = NoClient
  MaxPooled = 1
  MaxLinkTrouble = 1
  Accounts = {a1}
  Sockets = {x1}
  Sessions = {s1}
  NoSession = NoSession
  Creating = Creating
  MaxSessions = 1
  MaxShellTrouble = 0
  Hosts = {h1}
  Probers = {p1}
  Callers = {q1}
  Nobody = Nobody
  MaxEdits = 0
  Pingers = {r1, r2, r3}
  DownStrikes = 2
  MaxOutages = 2
  Servers = {v1, v2}
  Paths = {d1, d2}
  Editors = {e1, e2}
  Checks = {n1, n2}
  Unset = Unset
  Absent = Absent
  Broken = Broken
  MaxMerges = 2
  MaxConfigTrouble = 0
CHECK_DEADLOCK FALSE
PROPERTY GetSparesRunning
