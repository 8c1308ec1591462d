SPECIFICATION FairSpec
CONSTANTS
  Kinds = {"vllm", "reboot"}
  Reqs = {q1, q2}
  MaxTasks = 2
  LongSteps = 1
  MaxTrouble = 1
  Recons = {}
  MaxRestarts = 1
CHECK_DEADLOCK FALSE
PROPERTY TasksEnd
