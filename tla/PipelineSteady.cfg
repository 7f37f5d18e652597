\* One worker, nothing fails, people write up to five times: the whole way
\* from the issue to the pull request, with every detour the gates allow.
CONSTANTS
  PlanRevisionCap = 1
  ImplHelpCap = 1
  FixRoundCap = 1
  MaxTasks = 2
  Worker = {w1}
  MaxAttempts = 2
  Bodies = {"approve", "abort", "changes"}
  MaxComments = 5
  MaxThrows = 0
  MaxCrashes = 0
  MaxSweeps = 0
SPECIFICATION FairSpec
INVARIANTS ReviewedIsComplete
PROPERTIES FollowsLifecycle ComesToRest QueueDrains
CHECK_DEADLOCK FALSE
