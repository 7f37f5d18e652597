\* Two workers on one run, as while a deployment overlaps the last one.
CONSTANTS
  PlanRevisionCap = 1
  ImplHelpCap = 1
  FixRoundCap = 1
  MaxTasks = 1
  Worker = {w1, w2}
  MaxAttempts = 2
  Bodies = {"approve", "abort", "changes"}
  MaxComments = 2
  MaxThrows = 0
  MaxCrashes = 1
  MaxSweeps = 1
SPECIFICATION Spec
INVARIANTS NothingBuiltUnapproved
CHECK_DEADLOCK FALSE
