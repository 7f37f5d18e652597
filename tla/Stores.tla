-------------------------------- MODULE Stores --------------------------------
(***************************************************************************)
(* The two stores side by side, asked the same things at the same time:    *)
(* InMemoryStore, on which most tests run, "Mirrors the semantics of       *)
(* PgStore" (memory-store.ts:45-46), on which the program runs.  What they *)
(* have in common is what those tests are evidence of.                     *)
(*                                                                         *)
(* The callers are as in the rest of the program: a worker settles the job *)
(* that its store gave it, runs are looked up by key and then named by the *)
(* id that store gave them.  No method touches the tables of another       *)
(* group, so a behaviour asks about one group only.                        *)
(***************************************************************************)
EXTENDS Integers, Sequences, FiniteSets

CONSTANTS
  MaxAttempts, BackoffAfter, Lease, DefaultBudget, Null,
  Worker, RunKey, RunState, Context, Cost, Kind, Content, Index, Patch,
  Installation, Secret, AuthType,
  MaxJobs,   \* bound: jobs
  MaxCalls,  \* bound: calls that are not about jobs
  MaxNow     \* bound: the clock stops here

ASSUME NumbersAssumption ==
  /\ {MaxAttempts, Lease, DefaultBudget, MaxJobs, MaxCalls} \subseteq Nat
  /\ MaxNow \in Nat \ {0}
  /\ BackoffAfter \in [0 .. MaxAttempts -> Nat]
  /\ Cost \subseteq Nat /\ Index \subseteq Nat
(* What Null stands beside; and a patch names no field but these.          *)
ASSUME NullAssumption ==
  /\ Null \notin Nat
  /\ \A s \in Secret, t \in AuthType : [secret |-> s, authType |-> t] # Null
ASSUME PatchAssumption ==
  \A patch \in Patch : DOMAIN patch \subseteq {"status", "red", "green", "sha"}
ASSUME AuthTypeAssumption == "api_key" \in AuthType

VARIABLES
  now, group, calls,
  mJobs, mRuns, mTasks, mArtifacts, mCredentials, mAnswer,
  pJobs, pRuns, pTasks, pArtifacts, pCredentials, pRunIds, pTaskIds, pAnswer,
  mHeld, pHeld,  \* per worker, the job either store gave it, or Null
  retried,       \* history: a job was queued again
  refused        \* history: Postgres refused a task

Mem == INSTANCE InMemoryStore
         WITH jobs <- mJobs, runs <- mRuns, tasks <- mTasks,
              artifacts <- mArtifacts, credentials <- mCredentials,
              answer <- mAnswer
Pg == INSTANCE PgStore
        WITH jobs <- pJobs, runs <- pRuns, tasks <- pTasks,
             artifacts <- pArtifacts, credentials <- pCredentials,
             runIds <- pRunIds, taskIds <- pTaskIds, answer <- pAnswer

mem == <<mJobs, mRuns, mTasks, mArtifacts, mCredentials, mAnswer>>
pg == <<pJobs, pRuns, pTasks, pArtifacts, pCredentials, pRunIds, pTaskIds, pAnswer>>
held == <<mHeld, pHeld>>
storesVars == <<now, group, calls, mem, pg, held, retried, refused>>

Group == {"jobs", "runs", "records", "credentials"}

StoresInit ==
  /\ now = 1 /\ group \in Group /\ calls = 0
  /\ mJobs = <<>> /\ mRuns = <<>> /\ mTasks = <<>> /\ mArtifacts = <<>>
  /\ mCredentials = [i \in Installation |-> Null] /\ mAnswer = Null
  /\ pJobs = {} /\ pRuns = {} /\ pTasks = {} /\ pArtifacts = {}
  /\ pCredentials = {} /\ pRunIds = 0 /\ pTaskIds = 0 /\ pAnswer = Null
  /\ mHeld = [w \in Worker |-> Null] /\ pHeld = [w \in Worker |-> Null]
  /\ retried = FALSE /\ refused = FALSE

-----------------------------------------------------------------------------
EnqueueJob ==
  /\ Len(mJobs) < MaxJobs
  /\ Mem!EnqueueJob /\ Pg!EnqueueJob
  /\ UNCHANGED <<held, retried>>

Claim(w) ==
  /\ mHeld[w] = Null /\ pHeld[w] = Null
  /\ Mem!ClaimNextJob /\ Pg!ClaimNextJob
  /\ mHeld' = [mHeld EXCEPT ![w] = mAnswer']
  /\ pHeld' = [pHeld EXCEPT ![w] = pAnswer']
  /\ UNCHANGED retried

Drop(w) ==
  /\ mHeld' = [mHeld EXCEPT ![w] = Null]
  /\ pHeld' = [pHeld EXCEPT ![w] = Null]

Settle(w) ==
  /\ mHeld[w] # Null /\ pHeld[w] # Null
  /\ Drop(w)
  /\ \/ /\ Mem!MarkJobDone(mHeld[w]) /\ Pg!MarkJobDone(pHeld[w])
        /\ UNCHANGED retried
     \/ /\ Mem!MarkJobFailed(mHeld[w]) /\ Pg!MarkJobFailed(pHeld[w])
        /\ UNCHANGED retried
     \/ /\ Mem!FailOrRetryJob(mHeld[w]) /\ Pg!FailOrRetryJob(pHeld[w])
        /\ retried' = (retried \/ pAnswer'[1] = "queued")

(* The worker dies, and its job waits for the end of its lease.            *)
Crash(w) ==
  /\ mHeld[w] # Null \/ pHeld[w] # Null
  /\ Drop(w)
  /\ UNCHANGED <<mem, pg, retried>>

AskAboutJobs ==
  /\ group = "jobs"
  /\ EnqueueJob \/ \E w \in Worker : Claim(w) \/ Settle(w) \/ Crash(w)
  /\ UNCHANGED <<now, calls, group, refused>>

-----------------------------------------------------------------------------
MemId(key) == mRuns[CHOOSE i \in DOMAIN mRuns : mRuns[i].key = key].id
PgId(key) == (CHOOSE r \in pRuns : r.key = key).id
Known == {r.key : r \in pRuns}

FindOrCreateRun(key) ==
  \E state \in RunState :
    Mem!FindOrCreateRun(key, state) /\ Pg!FindOrCreateRun(key, state)

AskAboutRun(key) ==
  LET m == MemId(key) p == PgId(key) IN
  \/ \E s \in RunState : Mem!UpdateRunState(m, s) /\ Pg!UpdateRunState(p, s)
  \/ \E c \in Context : Mem!UpdateRunContext(m, c) /\ Pg!UpdateRunContext(p, c)
  \/ \E b \in Cost : Mem!SetRunBudget(m, b) /\ Pg!SetRunBudget(p, b)
  \/ Mem!MarkRunPinged(m) /\ Pg!MarkRunPinged(p)
  \/ \E c \in Cost : Mem!RecordLlmCall(m, c) /\ Pg!RecordLlmCall(p, c)

AskAboutRecords(key) ==
  LET m == MemId(key) p == PgId(key) IN
  \/ \E k \in Kind, c \in Content :
       Mem!RecordArtifact(m, k, c) /\ Pg!RecordArtifact(p, k, c)
  \/ \E n \in Index : Mem!RecordTask(m, n) /\ Pg!RecordTask(p, n)
  \/ \E n \in DOMAIN Pg!getTasks(p), patch \in Patch :
       /\ Mem!UpdateTask(Mem!getTasks(m)[n], patch)
       /\ Pg!UpdateTask(Pg!getTasks(p)[n], patch)

AskAboutCredentials(i) ==
  \/ \E s \in Secret :
       /\ Mem!UpsertInstallationCredential(i, s)
       /\ Pg!UpsertInstallationCredential(i, s)
  \/ \E t \in AuthType :
       Mem!SetInstallationAuthType(i, t) /\ Pg!SetInstallationAuthType(i, t)
  \/ Mem!DeleteInstallationCredential(i) /\ Pg!DeleteInstallationCredential(i)

AskAboutRows ==
  /\ calls < MaxCalls
  /\ \/ group \in {"runs", "records"} /\ \E k \in RunKey : FindOrCreateRun(k)
     \/ group = "runs" /\ \E k \in Known : AskAboutRun(k)
     \/ group = "records" /\ \E k \in Known : AskAboutRecords(k)
     \/ group = "credentials" /\ \E i \in Installation : AskAboutCredentials(i)
  /\ calls' = calls + 1
  /\ refused' = (refused \/ (pTaskIds' # pTaskIds /\ pTasks' = pTasks))
  /\ UNCHANGED <<now, group, held, retried>>

StoresTick ==
  /\ now < MaxNow
  /\ now' = now + 1
  /\ UNCHANGED <<group, calls, mem, pg, held, retried, refused>>

StoresNext == AskAboutJobs \/ AskAboutRows \/ StoresTick

StoresSpec == StoresInit /\ [][StoresNext]_storesVars
-----------------------------------------------------------------------------
Row(table, id) == CHOOSE r \in table : r.id = id

JobStatus == {"queued", "in_progress", "done", "failed"}
(* What a field holds that starts as first and that patches then set.      *)
Holds(f, first) == {first} \cup {p[f] : p \in {q \in Patch : f \in DOMAIN q}}
MemJob == [status : JobStatus, attempts : Nat, availableAt : Nat,
           lockedAt : Nat \cup {Null}]
PgJob == [id : Nat, status : JobStatus, attempts : Nat, available_at : Nat,
          locked_at : Nat \cup {Null}]
MemRun == [id : Nat, key : RunKey, state : RunState,
           context : Context \cup {Null}, budget : Nat, spent : Nat,
           updatedAt : Nat, pingedAt : Nat \cup {Null}]
PgRun == [id : Nat, key : RunKey, state : RunState,
          context : Context \cup {Null}, budget : Nat, spent : Nat,
          updated_at : Nat, pinged_at : Nat \cup {Null}]
MemTask == [run : Nat, idx : Index, status : Holds("status", "pending"),
            red : Holds("red", FALSE), green : Holds("green", FALSE),
            sha : Holds("sha", Null)]
PgTask == [id : Nat, run_id : Nat, idx : Index,
           status : Holds("status", "pending"), red : Holds("red", FALSE),
           green : Holds("green", FALSE), sha : Holds("sha", Null)]
MemArtifact == [run : Nat, kind : Kind, content : Content]
PgArtifact == [run_id : Nat, kind : Kind, content : Content]
MemCredential == [secret : Secret, authType : AuthType]

StoresTypeOK ==
  /\ now \in 1 .. MaxNow /\ group \in Group /\ calls \in 0 .. MaxCalls
  /\ mJobs \in Seq(MemJob) /\ mRuns \in Seq(MemRun) /\ mTasks \in Seq(MemTask)
  /\ mArtifacts \in Seq(MemArtifact)
  /\ mCredentials \in [Installation -> MemCredential \cup {Null}]
  /\ pJobs \subseteq PgJob /\ pRuns \subseteq PgRun /\ pTasks \subseteq PgTask
  /\ pArtifacts \subseteq PgArtifact
  /\ pCredentials \subseteq
       [installation : Installation, secret : Secret, auth_type : AuthType]
  /\ pRunIds \in Nat /\ pTaskIds \in Nat
  /\ mHeld \in [Worker -> DOMAIN mJobs \cup {Null}]
  /\ pHeld \in [Worker -> {r.id : r \in pJobs} \cup {Null}]
  /\ retried \in BOOLEAN /\ refused \in BOOLEAN

JobsAlike ==
  /\ Cardinality(pJobs) = Len(mJobs)
  /\ \A r \in pJobs : mJobs[r.id] =
       [status |-> r.status, attempts |-> r.attempts,
        availableAt |-> r.available_at, lockedAt |-> r.locked_at]

RunsAlike ==
  /\ Len(mRuns) = Cardinality(pRuns)
  /\ \A i \in DOMAIN mRuns : \E r \in pRuns :
       /\ <<r.key, r.state, r.context>> =
            <<mRuns[i].key, mRuns[i].state, mRuns[i].context>>
       /\ <<r.budget, r.spent, r.pinged_at>> =
            <<mRuns[i].budget, mRuns[i].spent, mRuns[i].pingedAt>>

TasksAlike ==
  \A key \in Known :
    LET m == Mem!getTasks(MemId(key)) p == Pg!getTasks(PgId(key)) IN
    /\ Len(m) = Len(p)
    /\ \A n \in DOMAIN p :
         LET t == Row(pTasks, p[n]) u == mTasks[m[n]]
         IN <<t.idx, t.status, t.red, t.green, t.sha>> =
            <<u.idx, u.status, u.red, u.green, u.sha>>

ArtifactsAlike ==
  \A key \in Known, k \in Kind :
    Mem!getArtifact(MemId(key), k) = Pg!getArtifact(PgId(key), k)

CredentialsAlike ==
  pCredentials =
    {[installation |-> i, secret |-> mCredentials[i].secret,
      auth_type |-> mCredentials[i].authType] :
        i \in {h \in Installation : mCredentials[h] # Null}}

(* "Mirrors the semantics of PgStore" (memory-store.ts:45): the rows are   *)
(* the same in both stores after the same calls, ids and updatedAt apart,  *)
(* those of the tasks as long as no task is recorded twice, and those of   *)
(* the queue ("due/lease-aware claim", memory-store.ts:46), through        *)
(* claims, deaths and expired leases, until a job is queued again: up to   *)
(* then the order of the ids is that of available_at.  This is what the    *)
(* tests of the handlers, the gateway and the credentials rely on.         *)
RowsMirrored ==
  /\ RunsAlike /\ ArtifactsAlike /\ CredentialsAlike
  /\ refused \/ TasksAlike
  /\ retried \/ JobsAlike
  /\ Mem!getCostMetrics = Pg!getCostMetrics

(* Every call was answered alike by both, with the same two exceptions:    *)
(* what a test reads from its store the program will read from its own.    *)
AnswersMirrored == retried \/ refused \/ mAnswer = pAnswer

(* The sweeper of the tests may see a run as abandoned that Postgres has   *)
(* been told of since, but it never spares one that it would close in the  *)
(* program, and it takes those in the same order (getStaleRuns): what one  *)
(* lists is a part of what the other does.                                 *)
PartOf(s, t) ==
  \E place \in [DOMAIN s -> DOMAIN t] :
    \A n \in DOMAIN s :
      t[place[n]] = s[n] /\ \A k \in DOMAIN s : k < n => place[k] < place[n]
StaleRunsMirrored ==
  \A states \in SUBSET RunState, t \in 1 .. now + 1 :
    PartOf(Pg!getStaleRuns(states, t), Mem!getStaleRuns(states, t))

(* Without the exceptions.                                                 *)
(* The code does not keep these: see README.md.                            *)
ClaimsMirrored == JobsAlike
OneTaskPerIndex ==
  \A t, u \in DOMAIN mTasks :
    mTasks[t].run = mTasks[u].run /\ mTasks[t].idx = mTasks[u].idx => t = u
SweepsMirrored ==
  \A t \in 1 .. now + 1 :
    Mem!getStaleRuns(RunState, t) = Pg!getStaleRuns(RunState, t)
=============================================================================
