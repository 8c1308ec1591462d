SPECIFICATION RemoteSpec
CONSTANTS
  Keys = {k1, k2}
  Workers = {w1, w2, w3}
  Clients = {c1, c2, c3}
  NoClient = NoClient
  MaxPooled = 1
  MaxLinkTrouble = 1
  Accounts = {a1, a2, a3}
  Sockets = {w1, w2, w3}
  Sessions = {s1, s2, s3}
  NoSession = NoSession
  Creating = Creating
  MaxSessions = 2
  MaxShellTrouble = 1
  Hosts = {h1, h2}
  Probers = {p1, p2}
  Callers = {q1, q2}
  Nobody = Nobody
  MaxEdits = 1
  Pingers = {r1, r2, r3}
  DownStrikes = 2
  MaxOutages = 2
  Servers = {v1, v2}
  Paths = {d1, d2}
  Editors = {e1, e2}
  Checks = {n1, n2}
  Unset = Unset
  Absent = Absent
  Broken = Broken
  MaxMerges = 3
  MaxConfigTrouble = 2
SYMMETRY Interchangeable
CHECK_DEADLOCK FALSE
INVARIANTS RemoteTypeOK NoConnectionLeaks 
           ProberAlive AnswersForConfig GreenIsBounded ConfigKept
PROPERTIES EvictionSparesUsed AttachedSurvive
