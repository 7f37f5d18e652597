----------------------------- MODULE RetryPolicy -----------------------------
(***************************************************************************)
(* The delay before a failed job is attempted again (src/worker/retry.ts), *)
(* in the source's milliseconds.                                           *)
(***************************************************************************)
EXTENDS Integers

MAX_JOB_ATTEMPTS == 3
JOB_BACKOFF_BASE_MS == 30000
MAX_BACKOFF_MS == 5 * 60000
DEFAULT_JOB_LEASE_MS == 5 * 60000

computeBackoffMs(attempts, baseMs) ==
  LET exp == IF attempts - 1 > 0 THEN attempts - 1 ELSE 0
      delay == baseMs * 2 ^ exp
  IN IF delay < MAX_BACKOFF_MS THEN delay ELSE MAX_BACKOFF_MS
=============================================================================
