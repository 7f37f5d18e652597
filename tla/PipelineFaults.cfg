\* One worker, as deployed: a handler that throws, a process that dies and a
\* sweep, at any moment, and three comments.
CONSTANTS
  PlanRevisionCap = 1
  ImplHelpCap = 1
  FixRoundCap = 1
  MaxTasks = 1
  Worker = {w1}
  MaxAttempts = 2
  Bodies = {"approve", "abort", "changes"}
  MaxComments = 3
  MaxThrows = 1
  MaxCrashes = 1
  MaxSweeps = 1
SPECIFICATION Spec
INVARIANTS BuiltWasReleased PresentedIsCurrent ReadyBeforePlan CapsHold
CHECK_DEADLOCK FALSE
