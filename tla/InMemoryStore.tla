---------------------------- MODULE InMemoryStore ----------------------------
(***************************************************************************)
(* The store most tests run on, and local development without a database   *)
(* (src/store/memory-store.ts).  Each method runs to its end without an    *)
(* await, so it is one action, which leaves what it returns in answer.     *)
(* What only reads is an operator.  Callers name rows they have read, and  *)
(* no row but a credential is ever deleted, so the silent `if (run)` of    *)
(* the methods that update by id is a guard here.                          *)
(***************************************************************************)
EXTENDS Integers, Sequences, FiniteSets, FiniteSetsExt

CONSTANTS
  MaxAttempts, BackoffAfter, Lease,  \* as in JobQueue
  DefaultBudget,                     \* DEFAULT_RUN_BUDGET_NANO_USD
  Null

VARIABLES
  now,          \* the injected clock
  jobs,         \* Map by id: the ids are 1, 2, ...
  runs,         \* Map by key, in order of insertion
  tasks,        \* array
  artifacts,    \* array
  credentials,  \* Map by installation: Null, or a secret with its type
  answer        \* what the last method returned

Ask(a) == answer' = a

-----------------------------------------------------------------------------
(* Jobs.                                                                   *)
EnqueueJob ==
  /\ jobs' = Append(jobs, [status |-> "queued", attempts |-> 0,
                           availableAt |-> now, lockedAt |-> Null])
  /\ Ask(Len(jobs) + 1)
  /\ UNCHANGED <<runs, tasks, artifacts, credentials>>

LeaseOver(j) == jobs[j].lockedAt # Null /\ jobs[j].lockedAt < now - Lease

Due == {j \in DOMAIN jobs :
          \/ jobs[j].status = "queued" /\ jobs[j].availableAt <= now
          \/ jobs[j].status = "in_progress" /\ LeaseOver(j)}

(* .sort((a, b) => a.id - b.id)                                            *)
ClaimNextJob ==
  /\ \/ Due = {} /\ Ask(Null) /\ UNCHANGED jobs
     \/ \E j \in Due :
          /\ \A k \in Due : j <= k
          /\ jobs' = [jobs EXCEPT ![j].status = "in_progress",
                                  ![j].attempts = @ + 1, ![j].lockedAt = now]
          /\ Ask(j)
  /\ UNCHANGED <<runs, tasks, artifacts, credentials>>

MarkJob(j, status) ==
  /\ jobs' = [jobs EXCEPT ![j].status = status]
  /\ Ask(Null)
  /\ UNCHANGED <<runs, tasks, artifacts, credentials>>

MarkJobDone(j) == MarkJob(j, "done")
MarkJobFailed(j) == MarkJob(j, "failed")

FailOrRetryJob(j) ==
  /\ \/ /\ jobs[j].attempts >= MaxAttempts
        /\ jobs' = [jobs EXCEPT ![j].status = "failed"]
     \/ /\ jobs[j].attempts < MaxAttempts
        /\ jobs' = [jobs EXCEPT
             ![j].status = "queued", ![j].lockedAt = Null,
             ![j].availableAt = now + BackoffAfter[jobs[j].attempts]]
  /\ Ask(<<jobs'[j].status, jobs[j].attempts>>)
  /\ UNCHANGED <<runs, tasks, artifacts, credentials>>

-----------------------------------------------------------------------------
(* Runs.  A row is found by its key, or by the id it was created with.     *)
WithKey(key) == {i \in DOMAIN runs : runs[i].key = key}
WithId(id) == {i \in DOMAIN runs : runs[i].id = id}

Created(key, state) ==
  Append(runs, [id |-> Len(runs) + 1, key |-> key, state |-> state,
                context |-> Null, budget |-> DefaultBudget, spent |-> 0,
                updatedAt |-> now, pingedAt |-> Null])

(* An existing run is returned as it is: its updatedAt too.                *)
FindOrCreateRun(key, state) ==
  /\ \/ /\ WithKey(key) = {}
        /\ runs' = Created(key, state)
        /\ Ask(TRUE)
     \/ WithKey(key) # {} /\ Ask(FALSE) /\ UNCHANGED runs
  /\ UNCHANGED <<jobs, tasks, artifacts, credentials>>

UpdateRunState(id, state) ==
  /\ \E i \in WithId(id) :
       runs' = [runs EXCEPT ![i].state = state, ![i].updatedAt = now]
  /\ Ask(Null)
  /\ UNCHANGED <<jobs, tasks, artifacts, credentials>>

UpdateRunContext(id, context) ==
  /\ \E i \in WithId(id) :
       runs' = [runs EXCEPT ![i].context = context, ![i].updatedAt = now]
  /\ Ask(Null)
  /\ UNCHANGED <<jobs, tasks, artifacts, credentials>>

SetRunBudget(id, budget) ==
  /\ \E i \in WithId(id) :
       runs' = [runs EXCEPT ![i].budget = budget, ![i].updatedAt = now]
  /\ Ask(Null)
  /\ UNCHANGED <<jobs, tasks, artifacts, credentials>>

(* Mutant: the reminder restarts the clock of the run.                     *)
PingedAndTouched(i) ==
  [runs EXCEPT ![i].pingedAt = now, ![i].updatedAt = now + 1]

(* Deliberately does not touch updatedAt.                                  *)
Pinged(i) == [runs EXCEPT ![i].pingedAt = now]

MarkRunPinged(id) ==
  /\ \E i \in WithId(id) : runs' = Pinged(i)
  /\ Ask(Null)
  /\ UNCHANGED <<jobs, tasks, artifacts, credentials>>

RecordLlmCall(id, cost) ==
  /\ \E i \in WithId(id) :
       /\ runs' = [runs EXCEPT ![i].spent = @ + cost, ![i].updatedAt = now]
       /\ Ask(runs[i].budget - (runs[i].spent + cost))
  /\ UNCHANGED <<jobs, tasks, artifacts, credentials>>

(* Math.round rounds halves up.                                            *)
getCostMetrics ==
  LET total == MapThenSumSet(LAMBDA i : runs[i].spent, DOMAIN runs)
  IN [runCount |-> Len(runs), total |-> total,
      avgCost |-> IF runs = <<>> THEN 0
                  ELSE (2 * total + Len(runs)) \div (2 * Len(runs))]

(* The keys of the stale runs, in the order the sweeper takes them.        *)
getStaleRuns(states, before) ==
  LET Stale(r) == r.state \in states /\ r.updatedAt < before
      ById(a, b) == a.id < b.id
      stale == {i \in DOMAIN runs : Stale(runs[i])}
      Place(i) == Cardinality({k \in stale : ~ById(runs[i], runs[k])})
  IN [n \in 1 .. Cardinality(stale) |->
        runs[CHOOSE i \in stale : Place(i) = n].key]

-----------------------------------------------------------------------------
(* Artifacts and tasks of runs.                                            *)
OfKind(id, kind) ==
  {i \in DOMAIN artifacts : artifacts[i].run = id /\ artifacts[i].kind = kind}

Replaced(i, content) == [artifacts EXCEPT ![i].content = content]

RecordArtifact(id, kind, content) ==
  /\ \/ /\ OfKind(id, kind) = {}
        /\ artifacts' = Append(artifacts,
             [run |-> id, kind |-> kind, content |-> content])
     \/ \E i \in OfKind(id, kind) : artifacts' = Replaced(i, content)
  /\ Ask(content)
  /\ UNCHANGED <<jobs, runs, tasks, credentials>>

getArtifact(id, kind) == {artifacts[i].content : i \in OfKind(id, kind)}

(* Nothing compares the index with those that are there.                   *)
RecordTask(id, idx) ==
  /\ tasks' = Append(tasks, [run |-> id, idx |-> idx, status |-> "pending",
                             red |-> FALSE, green |-> FALSE, sha |-> Null])
  /\ Ask("recorded")
  /\ UNCHANGED <<jobs, runs, artifacts, credentials>>

(* By idx; sort() is stable, so equal ones stay in order of insertion.     *)
TasksOf(id) == {i \in DOMAIN tasks : tasks[i].run = id}
InOrder(i, k) ==
  \/ tasks[i].idx < tasks[k].idx
  \/ tasks[i].idx = tasks[k].idx /\ i <= k
getTasks(id) ==
  LET Place(i) == Cardinality({k \in TasksOf(id) : InOrder(k, i)})
  IN [n \in 1 .. Cardinality(TasksOf(id)) |->
        CHOOSE i \in TasksOf(id) : Place(i) = n]

(* The fields a patch does not have are left as they are.                  *)
Patched(row, patch) ==
  [f \in DOMAIN row |-> IF f \in DOMAIN patch THEN patch[f] ELSE row[f]]

UpdateTask(t, patch) ==
  /\ tasks' = [tasks EXCEPT ![t] = Patched(@, patch)]
  /\ Ask(Null)
  /\ UNCHANGED <<jobs, runs, artifacts, credentials>>

-----------------------------------------------------------------------------
(* Credentials: a new one is an API key, a replaced one keeps its type.    *)
KeptType(old) == IF old = Null THEN "api_key" ELSE old.authType

UpsertInstallationCredential(i, secret) ==
  /\ credentials' = [credentials EXCEPT
       ![i] = [secret |-> secret, authType |-> KeptType(@)]]
  /\ Ask(Null)
  /\ UNCHANGED <<jobs, runs, tasks, artifacts>>

SetInstallationAuthType(i, authType) ==
  /\ \/ credentials[i] = Null /\ Ask(FALSE) /\ UNCHANGED credentials
     \/ /\ credentials[i] # Null
        /\ credentials' = [credentials EXCEPT ![i].authType = authType]
        /\ Ask(TRUE)
  /\ UNCHANGED <<jobs, runs, tasks, artifacts>>

DeleteInstallationCredential(i) ==
  /\ credentials' = [credentials EXCEPT ![i] = Null]
  /\ Ask(Null)
  /\ UNCHANGED <<jobs, runs, tasks, artifacts>>
=============================================================================
