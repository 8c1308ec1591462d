SPECIFICATION ChangesSpec
CONSTANTS
  Kinds = {"driver", "reboot"}
  Reqs = {q1, q2}
  MaxTasks = 2
  LongSteps = 1
  MaxTrouble = 1
  Recons = {c1}
  MaxRestarts = 1
  Packages = {p1, p2}
  Requests = {x1, x2}
  NoPackage = NoPackage
  Repos = {"q", "qx"}
  Matches <- Names
  Asked = "q"
  MaxBytes = 2
  MaxStarts = 3
  CatModels = {m1, m2}
  Scans = {s1}
  Benches = {b1}
  NoModel = NoModel
  ModelIds = {"a", "b"}
  Safe <- Clash
  Apis = {8000, 9000}
  Loads = {l1}
  None = None
  MaxSaves = 3
  Runs = {r1, r2}
  Versions = {v1, v2, v3}
  Runnable = {v1, v2}
  Healthy = {v1}
  Nothing = Nothing
  MaxToolTrouble = 2
  MaxFaults = 2
  MaxActions = 4
  Rounds = 3
  ConfirmReads = 3
  FallTicks = 3
  MaxLaunches = 2
  MaxLines = 3
  MaxRotations = 2
SYMMETRY Interchangeable
CHECK_DEADLOCK FALSE
INVARIANTS ChangesTypeOK ClaimsHeld JobsFollowTasks
            NoGhosts ConfigsFound 
            SessionExact
PROPERTIES FollowsLife StalledIsQuiet
