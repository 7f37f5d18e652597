------------------------------- MODULE JobQueue -------------------------------
(***************************************************************************)
(* The jobs table and the worker loops that share it: claim under a lease, *)
(* completion, retry with backoff, dead-lettering, and reclaiming the job  *)
(* of a worker that died.                                                  *)
(*                                                                         *)
(* Source: PgStore.enqueueJob, claimNextJob, markJobDone and               *)
(* failOrRetryJob (src/store/pg-store.ts), the retry policy                *)
(* (src/worker/retry.ts) and processNextJob (src/worker/worker.ts).  Each  *)
(* store call is one SQL statement or one transaction and so one step.     *)
(* What a handler does while it holds a job is not modelled here (see      *)
(* RunPipeline): it takes any time, for no handler has a limit and no      *)
(* lease is renewed, and it ends well, ends badly, or the process dies     *)
(* under it.                                                               *)
(***************************************************************************)
EXTENDS Integers, FiniteSets

CONSTANTS
  JobId,          \* job ids, handed out in order (jobs.id is a bigserial)
  Worker,         \* the worker loops: one per process, several while
                  \* deployments overlap or the service is scaled out
  NoJob,          \* what an idle worker holds
  MaxAttempts,    \* MAX_JOB_ATTEMPTS
  BackoffAfter,   \* BackoffAfter[n]: delay before the retry of attempt n
  Lease,          \* DEFAULT_JOB_LEASE_MS: how long a claim protects a job
  MaxNow,         \* bound: the clock stops here
  MaxCrashes      \* bound: worker deaths per job

ASSUME JobIdAssumption == JobId \subseteq Nat
ASSUME WorkerAssumption == IsFiniteSet(Worker)
ASSUME NoJobAssumption == NoJob \notin JobId /\ NoJob \notin Worker
ASSUME PolicyAssumption ==
  /\ MaxAttempts \in Nat \ {0}
  /\ Lease \in Nat
  /\ BackoffAfter \in [0 .. MaxAttempts -> Nat]
ASSUME BoundsAssumption == MaxNow \in Nat /\ MaxCrashes \in Nat

VARIABLES
  now,            \* the database clock, in ticks
  status,         \* jobs.status, "none" before the row is inserted
  attempts,       \* jobs.attempts
  availableAt,    \* jobs.available_at
  lockedAt,       \* jobs.locked_at, 0 standing for NULL
  holding,        \* per worker: the job it processes, or NoJob
  claim,          \* per worker: job.attempts as its claim returned it
  crashes,        \* history: how often a worker died holding the job
  overruns,       \* history: how often a claim outlived its lease while its
                  \* worker was still at the job
  revised         \* history: how often a settled row was changed

table == <<status, attempts, availableAt, lockedAt>>
vars == <<now, table, holding, claim, crashes, overruns, revised>>

Status == {"none", "queued", "in_progress", "done", "failed"}
Settled == {"done", "failed"}

TypeOK ==
  /\ now \in Nat
  /\ status \in [JobId -> Status]
  /\ attempts \in [JobId -> Nat]
  /\ availableAt \in [JobId -> Nat]
  /\ lockedAt \in [JobId -> Nat]
  /\ holding \in [Worker -> JobId \cup {NoJob}]
  /\ claim \in [Worker -> Nat]
  /\ crashes \in [JobId -> Nat]
  /\ overruns \in [JobId -> Nat]
  /\ revised \in [JobId -> Nat]

Init ==
  /\ now = 0
  /\ status = [j \in JobId |-> "none"]
  /\ attempts = [j \in JobId |-> 0]
  /\ availableAt = [j \in JobId |-> 0]
  /\ lockedAt = [j \in JobId |-> 0]
  /\ holding = [w \in Worker |-> NoJob]
  /\ claim = [w \in Worker |-> 0]
  /\ crashes = [j \in JobId |-> 0]
  /\ overruns = [j \in JobId |-> 0]
  /\ revised = [j \in JobId |-> 0]

-----------------------------------------------------------------------------
(* INSERT INTO jobs: due at once, never attempted, ids in insertion order. *)
EnqueueJob(j) ==
  /\ status[j] = "none"
  /\ \A k \in JobId : k < j => status[k] # "none"
  /\ status' = [status EXCEPT ![j] = "queued"]
  /\ availableAt' = [availableAt EXCEPT ![j] = now]
  /\ UNCHANGED <<now, attempts, lockedAt, holding, claim, crashes, overruns,
                 revised>>

(* Mutant: the comparison is not strict.                                   *)
LeaseExpiredEarly(j) == lockedAt[j] <= now - Lease

LeaseExpired(j) == lockedAt[j] < now - Lease

(* Mutant: dead-lettered jobs are reclaimed like abandoned ones.           *)
ClaimableThoughFailed(j) ==
  \/ status[j] = "queued" /\ availableAt[j] <= now
  \/ status[j] \in {"in_progress", "failed"} /\ LeaseExpired(j)

(* The WHERE clause of the claim.                                          *)
Claimable(j) ==
  \/ status[j] = "queued" /\ availableAt[j] <= now
  \/ status[j] = "in_progress" /\ LeaseExpired(j)

(* ORDER BY available_at, id.                                              *)
Before(i, j) ==
  \/ availableAt[i] < availableAt[j]
  \/ availableAt[i] = availableAt[j] /\ i < j

ClaimNextJob(w, j) ==
  /\ holding[w] = NoJob
  /\ Claimable(j)
  /\ \A k \in JobId : Claimable(k) => ~Before(k, j)
  /\ status' = [status EXCEPT ![j] = "in_progress"]
  /\ attempts' = [attempts EXCEPT ![j] = @ + 1]
  /\ lockedAt' = [lockedAt EXCEPT ![j] = now]
  /\ holding' = [holding EXCEPT ![w] = j]
  /\ claim' = [claim EXCEPT ![w] = attempts[j] + 1]
  /\ UNCHANGED <<now, availableAt, crashes, overruns, revised>>

(* The worker is rid of its job.                                           *)
LetGo(w) ==
  /\ holding' = [holding EXCEPT ![w] = NoJob]
  /\ claim' = [claim EXCEPT ![w] = 0]

(* What the worker writes to the row of its job when the handler has ended.*)
(* The UPDATEs name the job by id only: neither the status nor the claim   *)
(* is compared.                                                            *)
Answer(w, outcome) ==
  /\ status' = [status EXCEPT ![holding[w]] = outcome]
  /\ revised' = [revised EXCEPT ![holding[w]] =
       IF status[holding[w]] \in Settled \ {outcome} THEN @ + 1 ELSE @]
  /\ LetGo(w)
  /\ UNCHANGED <<now, attempts, crashes, overruns>>

(* The handler returned, or a terminal error was refused.                  *)
MarkJobDone(w) ==
  /\ holding[w] # NoJob
  /\ Answer(w, "done")
  /\ UNCHANGED <<availableAt, lockedAt>>

(* Mutants: one attempt too many; the backoff is taken off the clock.      *)
OutOfAttemptsLate(j) == attempts[j] > MaxAttempts
RetryDueInThePast(j) == now - BackoffAfter[attempts[j]]

OutOfAttempts(j) == attempts[j] >= MaxAttempts
RetryDue(j) == now + BackoffAfter[attempts[j]]

(* The handler threw: dead-letter the job at the attempt cap ...           *)
DeadLetter(w) ==
  /\ holding[w] # NoJob
  /\ OutOfAttempts(holding[w])
  /\ Answer(w, "failed")
  /\ UNCHANGED <<availableAt, lockedAt>>

(* ... or queue it again after the backoff of the last attempt made.       *)
Retry(w) ==
  /\ holding[w] # NoJob
  /\ ~OutOfAttempts(holding[w])
  /\ Answer(w, "queued")
  /\ lockedAt' = [lockedAt EXCEPT ![holding[w]] = 0]
  /\ availableAt' = [availableAt EXCEPT ![holding[w]] = RetryDue(holding[w])]

FailOrRetryJob(w) == DeadLetter(w) \/ Retry(w)

(* The process dies, or the failure itself cannot be recorded: the row     *)
(* stays as it is, and in_progress only its lease brings it back.          *)
Crash(w) ==
  /\ holding[w] # NoJob
  /\ crashes[holding[w]] < MaxCrashes
  /\ crashes' = [crashes EXCEPT ![holding[w]] = @ + 1]
  /\ LetGo(w)
  /\ UNCHANGED <<now, table, overruns, revised>>

(* The worker has the last claim of the job and the row still shows it.    *)
HasClaim(w, j) ==
  /\ holding[w] = j
  /\ status[j] = "in_progress"
  /\ claim[w] = attempts[j]
Claimed(j) == \E w \in Worker : HasClaim(w, j)

(* Time passes, whatever the handlers are at.                              *)
Tick ==
  /\ now < MaxNow
  /\ now' = now + 1
  /\ overruns' = [j \in JobId |->
       IF Claimed(j) /\ lockedAt[j] + Lease = now THEN overruns[j] + 1
       ELSE overruns[j]]
  /\ UNCHANGED <<table, holding, claim, crashes, revised>>

Next ==
  \/ \E j \in JobId : EnqueueJob(j)
  \/ \E w \in Worker, j \in JobId : ClaimNextJob(w, j)
  \/ \E w \in Worker : MarkJobDone(w) \/ FailOrRetryJob(w) \/ Crash(w)
  \/ Tick

Spec == Init /\ [][Next]_vars

-----------------------------------------------------------------------------
Holders(j) == {w \in Worker : holding[w] = j}

(* Who works on a job that is no longer theirs: it was claimed by another  *)
(* worker since, or given back or settled by one.                          *)
Strays(j) == {w \in Holders(j) : ~HasClaim(w, j)}

(* A live worker is at the job for longer than its lease.                  *)
Late(j) == Claimed(j) /\ lockedAt[j] + Lease < now

(* A job is in the hands of at most one live worker, and one more for each *)
(* time that a handler outlived its lease: claimNextJob reclaims from the  *)
(* dead and from the late, and from nobody else.                           *)
OneHolder == \A j \in JobId : Cardinality(Holders(j)) <= 1 + overruns[j]

(* A job that markJobDone completed or failOrRetryJob dead-lettered is not *)
(* changed again by any worker, crash or reclaim, but for at most one      *)
(* change for each time that a handler outlived its lease: the worker that *)
(* lost the job answers by its id all the same.                            *)
FinalIsFinal ==
  [][\A j \in JobId :
       status[j] \in Settled /\ status'[j] # status[j] =>
         revised[j] < overruns[j]]_vars

(* What makes both inductive: each overrun pays for one stray, for the     *)
(* worker that is late and will be one, or for a settled row that changed; *)
(* and a claim is nobody else's.                                           *)
OverrunsPay ==
  \A j \in JobId :
    Cardinality(Strays(j)) + (IF Late(j) THEN 1 ELSE 0) + revised[j]
      <= overruns[j]
ClaimsUnique ==
  \A v, w \in Worker :
    holding[v] # NoJob /\ holding[w] = holding[v] =>
      /\ claim[v] <= attempts[holding[v]]
      /\ claim[v] = claim[w] => v = w

(* failOrRetryJob counts claims: a job is attempted at most MaxAttempts    *)
(* times, apart from the claims whose worker died or was late, which       *)
(* claimNextJob takes back without looking at the count.                   *)
CapRespected ==
  \A j \in JobId : attempts[j] <= MaxAttempts + crashes[j] + overruns[j]

(* What makes CapRespected inductive: a job that may be claimed has an     *)
(* attempt left, or lost one to a crash or to a handler that was late.     *)
ClaimableHasBudget ==
  \A j \in JobId :
    /\ status[j] = "none" => attempts[j] = 0
    /\ status[j] = "queued" => attempts[j] < MaxAttempts
    /\ status[j] = "in_progress" /\ (Claimed(j) => Late(j)) =>
         attempts[j] < MaxAttempts + crashes[j] + overruns[j]

(* What retry.ts says of MAX_JOB_ATTEMPTS: "Max attempts (claims) before a *)
(* job is dead-lettered".                                                  *)
(* The code does not keep this: see README.md.                             *)
ClaimsCapped == \A j \in JobId : attempts[j] <= MaxAttempts

-----------------------------------------------------------------------------
(* The queue as the ledger sees it.                                        *)
Outcome == [j \in JobId |->
  CASE status[j] = "none" -> "absent"
    [] status[j] \in {"queued", "in_progress"} -> "open"
    [] OTHER -> status[j]]

Holder == [j \in JobId |->
  IF Claimed(j) THEN CHOOSE w \in Worker : HasClaim(w, j) ELSE NoJob]

Ledger == INSTANCE JobLedger
            WITH Nobody <- NoJob, outcome <- Outcome, worker <- Holder,
                 overdue <- {j \in JobId : Late(j)},
                 strays <- [j \in JobId |-> Strays(j)]

(* Clock, leases, backoff and crashes together give each job to one worker *)
(* at a time and take it only from the dead and the overdue, and nobody    *)
(* changes what was settled but a worker whose job was taken from it: the  *)
(* queue implements JobLedger.                                             *)
KeepsLedger == Ledger!Spec
=============================================================================
