------------------------------- MODULE PgStore -------------------------------
(***************************************************************************)
(* The store that is deployed, over Postgres (src/store/pg-store.ts and    *)
(* src/migrations).  A table is a set of rows, and a sequence counts what  *)
(* it was asked for, the ids of rows that were not inserted included.      *)
(* Each method is one statement, or one transaction, and so one action.    *)
(***************************************************************************)
EXTENDS Integers, FiniteSets, FiniteSetsExt

CONSTANTS
  MaxAttempts, BackoffAfter, Lease,  \* as in JobQueue
  DefaultBudget,                     \* the default of runs.budget_nano_usd
  Null

VARIABLES
  now,                   \* now()
  jobs, runs, tasks, artifacts, credentials,  \* the tables
  runIds, taskIds,       \* the sequences of the bigserial columns
  answer                 \* what the last method returned, or its error

Ask(a) == answer' = a

(* UPDATE table SET ... WHERE, for the row r and what becomes of it.       *)
Set(table, r, new) == (table \ {r}) \cup {new}

-----------------------------------------------------------------------------
(* Jobs.  No INSERT of a job conflicts, so its ids have no gaps.           *)
EnqueueJob ==
  /\ jobs' = jobs \cup
       {[id |-> Cardinality(jobs) + 1, status |-> "queued", attempts |-> 0,
         available_at |-> now, locked_at |-> Null]}
  /\ Ask(Cardinality(jobs) + 1)
  /\ UNCHANGED <<runs, tasks, artifacts, credentials, runIds, taskIds>>

Claimable(r) ==
  \/ r.status = "queued" /\ r.available_at <= now
  \/ r.status = "in_progress" /\ r.locked_at # Null /\ r.locked_at < now - Lease

(* ORDER BY available_at, id.                                              *)
NoLaterThan(r, s) ==
  \/ r.available_at < s.available_at
  \/ r.available_at = s.available_at /\ r.id <= s.id

ClaimNextJob ==
  LET claimable == {r \in jobs : Claimable(r)} IN
  /\ \/ claimable = {} /\ Ask(Null) /\ UNCHANGED jobs
     \/ \E r \in claimable :
          /\ \A s \in claimable : NoLaterThan(r, s)
          /\ jobs' = Set(jobs, r,
               [r EXCEPT !.status = "in_progress", !.locked_at = now,
                         !.attempts = @ + 1])
          /\ Ask(r.id)
  /\ UNCHANGED <<runs, tasks, artifacts, credentials, runIds, taskIds>>

MarkJob(id, status) ==
  /\ \E r \in jobs :
       /\ r.id = id
       /\ jobs' = Set(jobs, r, [r EXCEPT !.status = status])
  /\ Ask(Null)
  /\ UNCHANGED <<runs, tasks, artifacts, credentials, runIds, taskIds>>

MarkJobDone(id) == MarkJob(id, "done")
MarkJobFailed(id) == MarkJob(id, "failed")

FailOrRetryJob(id) ==
  /\ \E r \in jobs :
       /\ r.id = id
       /\ \/ /\ r.attempts >= MaxAttempts
             /\ jobs' = Set(jobs, r, [r EXCEPT !.status = "failed"])
             /\ Ask(<<"failed", r.attempts>>)
          \/ /\ r.attempts < MaxAttempts
             /\ jobs' = Set(jobs, r,
                  [r EXCEPT !.status = "queued", !.locked_at = Null,
                            !.available_at = now + BackoffAfter[r.attempts]])
             /\ Ask(<<"queued", r.attempts>>)
  /\ UNCHANGED <<runs, tasks, artifacts, credentials, runIds, taskIds>>

-----------------------------------------------------------------------------
(* Runs.  ON CONFLICT DO UPDATE SET updated_at = now(): an existing run is *)
(* touched, and an id is spent on it.                                      *)
FindOrCreateRun(key, state) ==
  /\ \/ /\ \A r \in runs : r.key # key
        /\ runs' = runs \cup
             {[id |-> runIds + 1, key |-> key, state |-> state,
               context |-> Null, budget |-> DefaultBudget, spent |-> 0,
               updated_at |-> now, pinged_at |-> Null]}
        /\ Ask(TRUE)
     \/ \E r \in runs :
          /\ r.key = key
          /\ runs' = Set(runs, r, [r EXCEPT !.updated_at = now])
          /\ Ask(FALSE)
  /\ runIds' = runIds + 1
  /\ UNCHANGED <<jobs, tasks, artifacts, credentials, taskIds>>

RunOf(id) == {r \in runs : r.id = id}
UpdateRun(r, new) ==
  /\ runs' = Set(runs, r, new)
  /\ UNCHANGED <<jobs, tasks, artifacts, credentials, runIds, taskIds>>

UpdateRunState(id, state) ==
  /\ \E r \in RunOf(id) :
       UpdateRun(r, [r EXCEPT !.state = state, !.updated_at = now])
  /\ Ask(Null)

UpdateRunContext(id, context) ==
  /\ \E r \in RunOf(id) :
       UpdateRun(r, [r EXCEPT !.context = context, !.updated_at = now])
  /\ Ask(Null)

SetRunBudget(id, budget) ==
  /\ \E r \in RunOf(id) :
       UpdateRun(r, [r EXCEPT !.budget = budget, !.updated_at = now])
  /\ Ask(Null)

(* Deliberately does not touch updated_at.                                 *)
MarkRunPinged(id) ==
  /\ \E r \in RunOf(id) : UpdateRun(r, [r EXCEPT !.pinged_at = now])
  /\ Ask(Null)

(* RETURNING sees the row as updated.  Mutant: as it was before.           *)
RemainingBefore(r, cost) == r.budget - r.spent
Remaining(r, cost) == r.budget - (r.spent + cost)

RecordLlmCall(id, cost) ==
  \E r \in RunOf(id) :
    /\ UpdateRun(r, [r EXCEPT !.spent = @ + cost, !.updated_at = now])
    /\ Ask(Remaining(r, cost))

(* COUNT and COALESCE(SUM, 0), divided in the client.                      *)
getCostMetrics ==
  LET runCount == Cardinality(runs)
      total == MapThenSumSet(LAMBDA r : r.spent, runs)
  IN [runCount |-> runCount, total |-> total,
      avgCost |-> IF runCount = 0 THEN 0
                  ELSE (2 * total + runCount) \div (2 * runCount)]

(* The keys of the stale runs, in the order the sweeper takes them.        *)
getStaleRuns(states, before) ==
  LET stale == {r \in runs : r.state \in states /\ r.updated_at < before}
      Nth(n) == CHOOSE r \in stale :
                  Cardinality({s \in stale : s.id <= r.id}) = n
  IN [n \in 1 .. Cardinality(stale) |-> Nth(n).key]

-----------------------------------------------------------------------------
(* Artifacts and tasks of runs.                                            *)
OfKind(id, kind) == {a \in artifacts : a.run_id = id /\ a.kind = kind}

(* Mutant: ON CONFLICT DO NOTHING.                                         *)
ReplacedNot(id, kind, content) ==
  IF OfKind(id, kind) = {} THEN {[run_id |-> id, kind |-> kind, content |-> content]}
  ELSE OfKind(id, kind)

Replaced(id, kind, content) ==
  {[run_id |-> id, kind |-> kind, content |-> content]}

RecordArtifact(id, kind, content) ==
  /\ artifacts' =
       (artifacts \ OfKind(id, kind)) \cup Replaced(id, kind, content)
  /\ Ask(content)
  /\ UNCHANGED <<jobs, runs, tasks, credentials, runIds, taskIds>>

getArtifact(id, kind) == {a.content : a \in OfKind(id, kind)}

(* UNIQUE (run_id, idx), whose violation spends an id too.                 *)
RecordTask(id, idx) ==
  /\ \/ /\ \A t \in tasks : t.run_id = id => t.idx # idx
        /\ tasks' = tasks \cup
             {[id |-> taskIds + 1, run_id |-> id, idx |-> idx,
               status |-> "pending", red |-> FALSE, green |-> FALSE,
               sha |-> Null]}
        /\ Ask("recorded")
     \/ /\ \E t \in tasks : t.run_id = id /\ t.idx = idx
        /\ UNCHANGED tasks
        /\ Ask("unique_violation")
  /\ taskIds' = taskIds + 1
  /\ UNCHANGED <<jobs, runs, artifacts, credentials, runIds>>

(* The ids of the tasks of a run, ORDER BY idx.                            *)
getTasks(id) ==
  LET rows == {t \in tasks : t.run_id = id}
      Nth(n) == CHOOSE t \in rows :
                  Cardinality({s \in rows : s.idx <= t.idx}) = n
  IN [n \in 1 .. Cardinality(rows) |-> Nth(n).id]

(* One SET for each field of the patch, and no statement without any.      *)
UpdateTask(id, patch) ==
  /\ \E t \in tasks :
       /\ t.id = id
       /\ tasks' = Set(tasks, t,
            [f \in DOMAIN t |-> IF f \in DOMAIN patch THEN patch[f] ELSE t[f]])
  /\ Ask(Null)
  /\ UNCHANGED <<jobs, runs, artifacts, credentials, runIds, taskIds>>

-----------------------------------------------------------------------------
(* Credentials: auth_type is left to its default, or as it is.             *)
Of(i) == {c \in credentials : c.installation = i}

UpsertInstallationCredential(i, secret) ==
  /\ \/ /\ Of(i) = {}
        /\ credentials' = credentials \cup
             {[installation |-> i, secret |-> secret, auth_type |-> "api_key"]}
     \/ \E c \in Of(i) :
          credentials' = Set(credentials, c, [c EXCEPT !.secret = secret])
  /\ Ask(Null)
  /\ UNCHANGED <<jobs, runs, tasks, artifacts, runIds, taskIds>>

SetInstallationAuthType(i, authType) ==
  /\ credentials' = {IF c \in Of(i) THEN [c EXCEPT !.auth_type = authType] ELSE c
                       : c \in credentials}
  /\ Ask(Of(i) # {})
  /\ UNCHANGED <<jobs, runs, tasks, artifacts, runIds, taskIds>>

DeleteInstallationCredential(i) ==
  /\ credentials' = credentials \ Of(i)
  /\ Ask(Null)
  /\ UNCHANGED <<jobs, runs, tasks, artifacts, runIds, taskIds>>
=============================================================================
