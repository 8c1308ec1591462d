SPECIFICATION Spec
CONSTANTS
  Kinds = {"vllm", "rollback_vllm"}
  Reqs = {q1}
  MaxTasks = 2
  LongSteps = 1
  MaxTrouble = 0
  Recons = {}
  MaxRestarts = 1
CHECK_DEADLOCK FALSE
INVARIANT DomainsExclusive
