\* A write throws once, between the state change and the job that follows.
CONSTANTS
  PlanRevisionCap = 1
  ImplHelpCap = 1
  FixRoundCap = 1
  MaxTasks = 2
  Worker = {w1}
  MaxAttempts = 2
  Bodies = {"approve", "abort", "changes"}
  MaxComments = 1
  MaxThrows = 1
  MaxCrashes = 0
  MaxSweeps = 0
SPECIFICATION FairSpec
PROPERTIES ComesToRest
CHECK_DEADLOCK FALSE
