------------------------------ MODULE MCJobQueue ------------------------------
(***************************************************************************)
(* Instances of JobQueue for TLC.  One tick of the clock is 100 seconds:   *)
(* the lease is 3 ticks, and a retry waits 1 tick, less than the lease, as *)
(* in the deployed policy.                                                 *)
(***************************************************************************)
EXTENDS JobQueue, RetryPolicy, TLC

TickMs == 100000
Ticks(ms) == (ms + TickMs - 1) \div TickMs

MCMaxAttempts == MAX_JOB_ATTEMPTS
MCLease == Ticks(DEFAULT_JOB_LEASE_MS)
MCBackoffAfter ==
  [n \in 0 .. MAX_JOB_ATTEMPTS |->
     Ticks(computeBackoffMs(n, JOB_BACKOFF_BASE_MS))]
MCJobId == 1 .. 2
WorkersAreAlike == Permutations(Worker)
=============================================================================
