SPECIFICATION Spec
CONSTANTS
  Kinds = {"cuda", "reboot"}
  Reqs = {q1, q2}
  MaxTasks = 2
  LongSteps = 1
  MaxTrouble = 0
  Recons = {}
  MaxRestarts = 0
CHECK_DEADLOCK FALSE
PROPERTY RebootSparesJobs
