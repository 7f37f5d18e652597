\* Three workers, two jobs, handlers that take any time; long enough for a job
\* to be lost to a crash, to outlive its lease twice, to be taken over, settled
\* under its worker and queued again by one that had lost it.
CONSTANTS
  JobId <- MCJobId
  Worker = {w1, w2, w3}
  NoJob = NoJob
  MaxAttempts <- MCMaxAttempts
  BackoffAfter <- MCBackoffAfter
  Lease <- MCLease
  MaxNow = 8
  MaxCrashes = 1
SYMMETRY WorkersAreAlike
SPECIFICATION Spec
INVARIANTS TypeOK OneHolder CapRespected
PROPERTIES FinalIsFinal KeepsLedger
CHECK_DEADLOCK FALSE
