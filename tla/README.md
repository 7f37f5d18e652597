# Tsukinome in TLA+

Tsukinome is a GitHub App that takes an issue to a pull request: it writes a
spec, asks what is unclear, plans, waits for a maintainer to approve the plan,
builds the plan task by task with the tests first, and reviews the result. It
is one Node process: a webhook receiver, a worker that polls a `jobs` table in
Postgres, a sweeper for abandoned runs and a small setup page. It acts on
other people's repositories and spends other people's money, and between two
steps it may be restarted, wait for a human, or fail; that is what these
modules are about. They follow the sources under `src/src/`; the path of every
definition is in `PROJECT.json` under `map`.

Run `tlc -config X.cfg M` for a run of the table below, `tlapm M.tla` for the
modules of proofs.

## 1. The system

| part | source | state | operations |
|---|---|---|---|
| webhook intake | `app.ts` | `processed_deliveries` | one handler per event: mark the delivery, read the run, queue a job or purge a key |
| job queue | `store/pg-store.ts`, `worker/retry.ts` | `jobs`: status, attempts, available_at, locked_at | enqueue, claim (lease), done, fail or retry |
| worker loop | `worker/worker.ts` | the job in hand | claim, dispatch, refuse, retry, dead-letter and close the run |
| handlers | `worker/handlers.ts`, `pipeline/*.ts` | `runs.state`, `runs.context`, `artifacts`, `tasks` | issue_opened, produce_spec, clarify, resume_clarification, produce_plan, resume_plan_decision, implement, resume_implementation, review, fix, run_tests |
| test-first loop | `pipeline/tdd.ts`, `sandbox/*.ts` | files in the sandbox, commits on the branch | author, implement, refactor, commit, record |
| stale sweeper | `worker/stale.ts` | `runs.updated_at`, `stale_pinged_at` | remind after 3 days, close after 7 |
| credentials | `llm/installation-auth.ts`, `llm/provider-resolver.ts`, `secrets/credential-vault.ts`, `web/setup-handlers.ts` | `installation_secrets` | submit, store, resolve, purge |
| setup sign-in | `web/setup-handlers.ts`, `web/session-store.ts` | two maps in memory | start, callback, submit |
| LLM gateway and providers | `llm/gateway.ts`, `llm/agent-sdk-provider.ts`, `llm/anthropic-provider.ts`, `agents/runner.ts` | `runs.budget_nano_usd`, `spent_nano_usd`, `llm_calls`, the stream of one call | check, call, record, parse |
| branch and pull request | `github/client.ts`, `github/integrator.ts` | at GitHub: references, pull requests | commit a file, commit files, open a pull request |
| language packs and test setup | `toolchain/toolchain.ts`, `pipeline/test-setup.ts`, `pipeline/bootstrap.ts` | `runs.context.bootstrap`, files in the sandbox | detect, ask, set up, prove, commit, announce |
| store | `store/pg-store.ts`, `store/memory-store.ts` | the tables, and the arrays that stand in for them in tests | one method per statement |

The intake only ever queues jobs; handlers only ever act on the run of the job
they are given, and queue the job of the next stage. What connects them is
rows: the job says what to do, the run's state says whether it still makes
sense, and the comment of a human becomes a job if the run was at a gate when
it arrived. Nothing is locked across two statements, so between any two of
them another actor (a second delivery, the sweeper, a worker of an overlapping
deployment) may act, the process may die, or the statement may throw. The job
is then attempted again, from the start: **every handler must be safe to
repeat from any of its prefixes.** This is what is hard about the program, and
hardly any test starts a handler half-way through.

What makes each part correct:

* *queue*: one holder per job, at most `MAX_JOB_ATTEMPTS` attempts, a settled
  job is left alone, each but for what a death or a handler longer than its
  lease does to it; no job is lost or stuck;
* *run*: no code without a plan that a maintainer released; the plan on show is
  the current one; tasks are those of the plan and all done before a review;
  revisions, help rounds and fixes are capped; a closed run stays closed; a run
  always comes to rest at a gate or closed;
* *test-first loop*: what is committed is what the suite passed on, after it
  failed without the implementation; a task is committed once; it ends;
* *sweeper*: one reminder, closing on time, never a run that is being worked on;
* *credentials*: the stored type is that of the stored secret, a purge is final;
* *sign-in*: only who manages an installation may submit for it, a link works once;
* *gateway*: the overdraft of a run is bounded, its ceiling is the configured one;
* *intake*: one job per delivery however often it is delivered, no answer to a
  parked run is dropped, the bot does not answer itself;
* *branch*: only ever added to, nobody's work overwritten, a call that was cut
  short can be repeated;
* *test setup*: committed once, only if proven, only where there was none, and
  announced by the pull request that the integrator opens, when it was;
* *store*: the two implementations agree, or the tests say nothing.

`PROJECT.json` lists the hazards line by line with the properties that watch
them, and the parts that are not modelled with the reason.

## 2. The modules

| module | what it is | extends or uses |
|---|---|---|
| `JobLedger` | abstract: what a job queue promises | |
| `RetryPolicy` | the numbers of `retry.ts`, `computeBackoffMs` | |
| `JobQueue` | the `jobs` table shared by workers | implements `JobLedger` |
| `Handlers` | every handler as a set of scripts of writes | |
| `RunLifecycle` | abstract: the state machine of a run | |
| `RunPipeline` | one run: intake, gates, workers, sweeper | `Handlers`; implements `RunLifecycle` |
| `WebhookIntake` | deliveries, statement by statement | |
| `TaskTdd` | `runTaskTdd` and the task loop around it | |
| `GitBranch` | the branch at GitHub and the calls that write to it, request by request | |
| `TestSetup` | language packs, and a missing test setup from plan to pull request | `GitBranch` |
| `InstallationAuth` | submission, resolution and purge of a credential | |
| `SetupSession` | sign-in links and sessions | |
| `SetupPage` | who is admitted, and what then becomes of the credential | composes `SetupSession` and `InstallationAuth` |
| `RunBudget` | the budget of a run | |
| `LlmCalls` | providers' streams, the runner, and the jobs that call them | `RunBudget` |
| `StaleRuns` | the sweep over several runs | |
| `PgStore`, `InMemoryStore` | the two stores, one action per method | |
| `Stores` | the same calls made to both | composes `PgStore` and `InMemoryStore` |
| `JobQueueProofs`, `RunPipelineProofs`, `TaskTddProofs`, `WebhookIntakeProofs`, `TestSetupProofs`, `SetupPageProofs` | theorems | the module of that name |
| `SweepAndStoresProofs` | theorems about the sweep, and about the stores it reads its runs from | `StaleRuns` and `Stores` |
| `RunBudgetProofs` | theorems about the budget and the calls | `LlmCalls`, which extends `RunBudget` |
| `MC*` | values and symmetry for TLC | |

### JobQueue

One row per job (`status`, `attempts`, `availableAt`, `lockedAt`); per worker the
job it has in hand (`holding`) and the attempt its claim returned (`claim`). `ClaimNextJob` is the one UPDATE of `claimNextJob`: it takes the
oldest job that is due, or in progress with an expired lease, counts the
attempt and locks the row. `MarkJobDone`, `Retry` and `DeadLetter` are the
statements of `markJobDone` and `failOrRetryJob`, which name the job by id and
do not check who holds it. `Crash` is a process that dies: the row stays in
progress until the lease is over. `Tick` is the clock, which runs whatever the
handlers are at: `processNextJob` has no limit for them, and no lease is renewed.

So a handler may outlive its lease. The job is then claimed by another worker, and
the first one, which does not know, is a *stray*: when it ends, its answer goes
to the row by the id of the job, whatever has become of it. The properties do not
exclude this, they say what it can cost: `overruns` counts the claims that
outlive their lease while their worker lives, and each of them pays for one
holder more, one settled row that changes, or one claim beyond the cap.

`JobLedger` says what is promised, without a clock: a job is open until it is
settled, and one worker is entitled to it. It is taken over only from a worker
that is overdue, and only strays change what is settled (`TakeOver`,
`FinishLate`). `JobQueue` implements it (`KeepsLedger`).

### Handlers and RunPipeline

A handler loads the run, checks its guard, asks a model, then writes. In
`Handlers` each handler is a set of *scripts*: sequences of effects (a state
change, a job queued, an artifact, a comment that shows a plan, a commit, a
task row ...) in the order of the code. A set, because what models and humans
say is a choice. A script that builds tasks carries the set of those left, and
goes on with the first of them. `RunPipeline` holds the rows and lets a worker carry out a
script one effect per step (`Work`), so that another worker, a comment, the
sweeper, an error (`Throw`) or a death (`Crash`) can come between any two. The
job then runs again from the start, on what was left behind. A refused run
(missing key, rate limit, sandbox that cannot be set up) is a script of its
own, which `processNextJob` ends with `markJobDone`.

Every comment of a human is one of a few bodies; `Comment` queues what `app.ts`
would queue for it in the present state. `SweepPick` and `SweepClose` are the
two moments of a sweep. `hist` remembers what no row does: which plans were
shown, agreed to, released and built.

`RunLifecycle` is the state machine that `OVERVIEW.md` draws. In an
undisturbed run `RunPipeline` implements it (`FollowsLifecycle`, model-checked
and proved).

### TaskTdd

A tree maps paths to contents; the sandbox (`tree`) starts as a clone of
`branch`. The actions are the stages of `runTaskTdd`, each attempt of the
ladder a step; what the suite says is a choice. `CommitTaskFiles` and
`UpdateTask` are separate, as in the code. `Abort` ends the job anywhere.

### WebhookIntake

A slot is a request under way in the server, and each of its statements a
step: `Receive` drops what a bot wrote, `Mark` is `tryMarkEventProcessed`,
then `Read` looks up the run and routes the event by its gate, or `Purge`
deletes a key, and `EnqueueJob` inserts the job. Deliveries are repeated and
overtake one another; `Fails` is any statement that throws. The worker is
reduced to what can race with a delivery: it posts its question (`Ask`, which
is a delivery of its own) before it parks the run (`Park`), and takes up jobs.

### GitBranch and TestSetup

A reference is the list of its commits. A call of the integrator goes through
its requests one step each: look for the branch (`BranchFound`, `ForkFrom`) and
create it if there is none (`CreateRef`), read the head and its tree or the
blob (`ReadHead`), move the branch (`UpdateRef`) or replace the one file
(`CreateOrUpdateFile`); list the pull requests (`ListPulls`), create one
(`CreatePull`). An open pull request carries the body it was created with, and one
that is there already is reused with the body it has, which is `"people"` if
people opened it. They push and open or close pull requests in between
(`People`). `catch {}` is modelled as it is written: any failure to read the
branch takes the same way as "not found" (`ForkFrom`), any failure to read the file
that of a file that is not there (`BlobNotRead`), and GitHub then turns down what
does not fit (`Reject`). What people do, and such failures, are
bounded together by `MaxDisturbances`.

`TestSetup` goes the way of one issue from spec to pull request, a job at a
time. A repository is a map from the files that decide to the few contents the
detection tells apart; packs, detection, recipe and its proof are operators on
such maps, for both packs. The sandbox is a clone; its listing may fail, which
the code takes for an empty one. A job is cut short anywhere and starts again.

### InstallationAuth, SetupSession, SetupPage, StaleRuns

* `InstallationAuth`: a submission validates, then writes the secret, then the
  type; a call reads the secret, then the type; a purge deletes the row.
  Submissions are made at any time. One between whose two writes another writes
  its secret is `overtaken`, and labels a secret that is not its own: the row is
  then `mislabelled` until a submission that is not overtaken labels it.
* `SetupSession`: a link is minted, consumed before GitHub is asked, and turned
  into a session if GitHub says so; entries expire; people leave installations.
* `SetupPage`: an admitted submission is one step of both, unless it is for
  another installation, whose credential is not followed. Uninstalling the App
  takes everybody off the installation at once, and the webhook comes later.
* `StaleRuns`: runs park, are answered, grow older; a sweep takes its
  candidates at once and then handles them one by one, in the order of their ids,
  comment first, row second, either of which may fail; an error that is not caught
  ends the sweep.

### RunBudget and LlmCalls

In `RunBudget` callers check the budget, are answered, and have the answer
recorded, each a step; an answer may be lost before it is recorded. The row
may be created with or without its ceiling. `LlmCalls` says where calls come
from and how they end: a job makes one after another, a stream of turns, words
on the plan's limit and results ends by itself or throws, `createMessage` makes
an answer or one of two errors of it, and the worker retries, refuses or gives
up the job. Each of its steps is one of `RunBudget` or leaves it alone.
A stream touches nothing that is shared, so it is consumed in one step; which
streams there are, up to `MaxMessages`, and what becomes of each is computed
(`SdkEndings`).

### PgStore, InMemoryStore and Stores

Each method is one action of each module: `PgStore` on sets of rows with their
unique keys and the sequences of their ids, which have gaps after a conflict,
`InMemoryStore` on arrays, as written. A method leaves its result in `answer`.
`Stores` makes every call to both, and compares rows and answers.

## 3. The runs

Passing runs, with the states TLC visits:

| run | states | shows |
|---|---|---|
| `queue` | 1.5 million | one holder, attempts capped, settled jobs left alone, each but for what deaths and handlers that outlive their lease are charged with; the ledger implemented |
| `pipeline_steady` | 180 thousand | undisturbed, the run follows `RunLifecycle`, goes to review with all its tasks recorded and done, comes to rest at a gate or closed, and every queued job is taken up |
| `pipeline_faults` | 4.1 million | an error, a death and a sweep anywhere: no code without a released plan, the plan gate shows the current plan, caps hold |
| `pipeline_races` | 3.3 million | two workers at once: nothing is built in a run nobody approved anything in |
| `intake` | 170 thousand | deliveries repeated, crossing and failing: one job each, the bot's own words move nothing; unless a statement fails, an answer to a parked run is taken up and the key of an uninstalled App goes |
| `tdd` | 150 thousand | what is committed is what passed, and was red before; a restart only repeats a commit it had not recorded; a task ends |
| `test_setup` | 170 thousand | repositories of every kind, with a push, a lost request and a job cut short anywhere: the branch is only added to, a retry is accepted, a setup is committed once, proven, beside the tests that are there, and announced by the pull request that the integrator opened, if it opened it; every job ends |
| `setup_page` | 7.8 million | submissions at any time: a link signs in once; a submission rests on a proof no older than a session, and so does a credential that outlives the purge; an undisturbed call gets the matching provider unless an overtaken submission labelled the row last; success means stored unless overtaken |
| `budget` | 3.7 million | overdraft below one call per caller and per answer that was not recorded, and of those no more than attempts and refactorings, however streams end and workers die |
| `stale` | 10 thousand | one reminder; closing within a day, per failure, of the deadline; nobody waits for ever |
| `stores` | 1.2 million | the same calls leave the same rows in both stores and get the same answers, retried jobs and tasks recorded twice excepted; the sweeper of the tests never spares a run that the deployed one would close |

Each of their properties has a mutant in `PROJECT.json`: a plausible bug at one
definition under which TLC finds that property violated. Every system specification states a
type invariant, which is a theorem of section 4. The inductive
invariants of section 4 were model-checked, too, before
they were proved, but for the parts which say that some function exists and
quantify over infinitely many (`Unrecorded`, `SumsInv`).

### What the code says and does not keep

One run checks a sentence of the repository that the code does not keep, and
TLC finds the counterexample; `findings` in `PROJECT.json` quotes the line.

| run | property | what happens |
|---|---|---|
| `pipeline_stranded` | `ComesToRest` | one failed INSERT after a state change, and the run stays in a working state for ever: the retry is turned away by its guard, the sweeper looks only at gates |

The following are stated in the modules next to the others and do not hold
either. They have no run of their own; the last column says how to see it, and
`INVARIANTS` and `PROPERTIES` are to be replaced by the one property (under
`PROPERTY` for `FinalIsFinal`, `TerminalForever`, `SweptOnlyParked`, `OneLogicalWrite`,
`OwnTestsNeverTouched` and `RemindedBeforeClosed`, which speak of steps).

| property | sentence | what happens | how to see it |
|---|---|---|---|
| `OneHolder` without `overruns` | `pg-store.ts:128`: "reclaim an `in_progress` job whose worker died" | a job is also reclaimed from a worker that is only late, and then two work on it | `JobQueue.cfg` |
| `FinalIsFinal` with `FALSE` for `revised[j] < overruns[j]` | the same | the worker that lost the job settles it by its id, or queues it again, after the other one settled it | `JobQueue.cfg` |
| `ClaimsCapped` | `retry.ts:8`: "Max attempts (claims) before a job is dead-lettered" | a job whose worker dies or is late is claimed again without a look at the cap | `JobQueue.cfg` |
| `TerminalForever` | `OVERVIEW.md:156`: "unsupported / failed / aborted = terminal" | a refused job whose worker dies before marking it opens the closed run again: `produce_spec` has no guard | `PipelineSteady.cfg` with `MaxCrashes = 1` |
| `BuiltWasAgreed` | `OVERVIEW.md:27`: "waits for your approval" | an approval releases the plan that is current when it is handled, not the one its author read | `PipelineSteady.cfg` |
| `SweptOnlyParked` | `stale.ts:14`: "Only runs parked on a human are swept" | the sweeper closes a run that was answered since it read it | `PipelineSteady.cfg` with `MaxComments = 1`, `MaxSweeps = 1` |
| `ReviewedPlanWasDecomposed` | `pipeline/fix.ts:17`: "I'll re-plan from your feedback" | after a rework the tasks of the old plan, all done, stand for the new one, of which nothing is built | `PipelineSteady.cfg` |
| `AllTasksRecorded` | `handlers.ts:1137`: "on a restart the tasks already exist" | a death between two task rows leaves a short list, which passes for the whole | `PipelineSteady.cfg` with `MaxCrashes = 1` |
| `DefinitionOfDone` without `throws = 0` | `tdd.ts:155`: "must keep it green or is reverted" | an error after refactored files were written is swallowed without reverting them | `Tdd.cfg` |
| `TestsKept` | `tdd.ts:200`: "it may not edit tests" | the implementer may overwrite the tests | `Tdd.cfg` |
| `BranchIsGreen` | `PROGRESS.md:260`: "the loop only commits green states" | test files of an abandoned attempt take part in later test runs and are not committed | `Tdd.cfg` |
| `OneLogicalWrite` | `installation-auth.ts:33`: "the two are one logical write" | two submissions at once: the secret of one with the type of the other | `SetupPage.cfg` |
| `CallsMatched` | `provider-resolver.ts:51`: "a rotated credential takes effect on the next call" | a call during a rotation reads the new secret with the old type | `SetupPage.cfg`, with `CallsMatched == Auth!CallsMatched` in `SetupPage` |
| `PurgedForGood` | `README.md:104`: "purged automatically if you uninstall" | a credential under validation while the App is uninstalled is stored after the purge | `SetupPage.cfg` |
| `TtlBounded` | `session-store.ts:22`: "TTL-bounded store" | a link nobody follows stays in the store | `SetupPage.cfg` with `Horizon = 3`, and `TtlBounded == Sessions!TtlBounded` in `SetupPage` |
| `CeilingConfigured` | `handlers.ts:160`: "Apply the configured per-run budget ceiling" | a run whose first handler stopped, or that `run_tests` created, keeps the column's default | `LlmCalls.cfg` |
| `BudgetIsCeiling` | `agent-sdk-provider.ts:227`: "the run budget in the gateway is the real cost ceiling" | the turns of a call that fails are never recorded, and the call is repeated by the next attempt | `LlmCalls.cfg` |
| `SpentNeverRetried` | `worker.ts:157`: "retrying just burns attempts" | a stream that ends without a result, or with a success and no structured output, hides the rejection it told of | `LlmCalls.cfg` |
| `NothingCharged` | `worker.ts:149`: "nothing was charged" | earlier calls of the run were | `LlmCalls.cfg` |
| `AnswersHeard` | `pipeline/clarify.ts:20`: "reply in this thread and I’ll pick it back up"; `pipeline/fix.ts:10`: "I’d rather ask than guess" | a reply written between the question and the gate, or on the conversation of the pull request, is dropped | `Intake.cfg` with `MaxFailures = 0` |
| `IssueEnqueued` | `app.ts:56`: "Duplicate webhook delivery; already enqueued" | the INSERT failed after the mark, and the redelivery is taken for a duplicate | `Intake.cfg` |
| `KeyAlwaysPurged` | `README.md:104`: "purged automatically if you uninstall" | the purge failed after the mark | `Intake.cfg` |
| `SetupOnceAlways` | `handlers.ts:1099`: "after the bootstrap commit already landed is a no-op" | a listing of the sandbox that failed is an empty one, and the setup is added again | `TestSetup.cfg` |
| `OwnTestsNeverTouched` | `OwnTestsUntouched` without its condition | the same: the example test of the recipe is written over an edited one | `TestSetup.cfg` |
| `NoteTrueThoughPushed` | `handlers.ts:1409`: the announcement in the pull request | a maintainer adds a runner after the consent, and the pull request claims it | `TestSetup.cfg` |
| `NoteTrueThoughReused` | the same | a pull request that is open already, from a maintainer, is taken as it is: `openPullRequest` returns it without writing the body (`client.ts:309`), and the setup is announced nowhere | `TestSetup.cfg` |
| `OwnScriptSurvives` | `toolchain.ts:229`: "so the repo's own scripts/deps survive" | in a monorepo the manifest listed first decides whether there is a script, and the one at the root is rewritten | `TestSetup.cfg` with `Repos <- Monorepo` |
| `ClaimsMirrored` | `memory-store.ts:45`: "Mirrors the semantics of PgStore: due/lease-aware claim" | jobs are claimed by id alone, not by `available_at` first | `Stores.cfg` |
| `SweepsMirrored` | the same | `findOrCreateRun` does not touch `updatedAt` of a run that exists | `Stores.cfg` |
| `OneTaskPerIndex` | the same | nothing keeps a task from being recorded twice | `Stores.cfg` |
| `RemindedBeforeClosed` | `PROGRESS.md:269`: "one reminder after 3 days" | the reminder is given once per run and not once per wait | `Stale.cfg` |

### Bounds, and why they are enough

* *Caps* (`PlanRevisionCap`, `ImplHelpCap`, `FixRoundCap`) are 1 instead of
  3: the cases are below, at and beyond the cap, and the code compares and
  increments without regard to the value.
* *`MaxTasks`* is 1 where errors are injected and 2 where the order of tasks or
  a part of the list matters; no handler treats a third task differently.
* *`MaxComments`, `MaxThrows`, `MaxCrashes`, `MaxSweeps`*: enough comments for
  a change request, an approval and a reply on the pull request; each of the
  other three once, in the same run. `pipeline_steady` has five comments and so
  reaches every stage and every detour.
* *`JobQueue`* ticks are 100 seconds: lease 3, backoff 1. Three workers, who are
  alike (symmetry), and two jobs. The clock of 8 is long enough to lose a job to a
  death or to a late handler, to take it back twice, so that all three are at it, and
  to settle it and have it changed by the ones that lost it.
* *`TaskTdd`* has two paths, two contents and two tasks: a path of the author, one
  of the implementer, and both the same; a ladder of two attempts has a first
  and a last one. Aborts and swallowed errors happen once.
* *`LlmCalls`*: two jobs, two attempts, calls of up to two turns and streams of up
  to four messages: a turn, both words on the limit in either order, and a
  result before or after them; one refactoring per attempt and one death.
  `MaxLost` lies above what `LostBounded` allows, so it is not what bounds it.
* *`StaleRuns`*: days, with 1 and 3 for 3 and 7, one unreachable run before one
  that is well: the sweep comes to it first, and may end there.
* *`SetupPage`*: two visitors who may both follow the one link, two
  installations, and one session with a life of one tick on a clock of two, so
  that expiry is seen before, at and after its boundary; a key and a token, submitted at any time, so that
  either may overtake the other; one model call. The theorems have any number of each.
* *`WebhookIntake`*: four events, one of them delivered twice, two requests at a
  time, two visits to a gate, one failure: an answer before, at and after a
  gate, and one meant for the gate before.
* *`TestSetup`*: one repository per combination the detection tells apart, one
  disturbance and one job cut short. A second of either meets the same call or
  the same job at its start. One re-planning.
* *`Stores`*: four calls besides the clock, up to three jobs, and a lease of one
  tick; the tables are exercised one group at a time, as no method but
  `getCostMetrics` and `recordLlmCall` reads across them.

### Deadlock

`CHECK_DEADLOCK FALSE` is set where the system may really stop: a closed run,
a settled job table, all tasks done, or a bound of the environment reached.

### Fairness

* `RunPipeline`: weak fairness of each worker's own steps. `startWorker` polls
  on a timer, and a handler under way always has a next step. Nothing is
  assumed of people, the sweeper or failures.
* `TaskTdd`: weak fairness of the loop once a sandbox is open; nothing obliges
  anybody to start another job.
* `WebhookIntake`: weak fairness of the server, which answers the requests it
  has, and of `Park`: a handler that has asked its question goes on to the next
  statement. Neither people nor GitHub owe anything.
* `TestSetup`: weak fairness of the handler's and the client's next step, or of
  the end of the job: `await` returns or throws.
* `StaleRuns`: weak fairness of the sweep and strong fairness of the timer's
  tick, which is interrupted, and not stopped, by sweeps. Failures are bounded.

## 4. The proofs

`tlapm` checks eight modules, which cover every system specification.
All theorems hold for all values of the constants that satisfy the named
assumptions, and none of the bounds of section 3 matters to them. Together they
state every safety and action property of the passing runs, and
the three refinements (`KeepsLedger`, `FollowsLifecycle`, `LlmCalls` of
`RunBudget`). Each module also proves its type invariant.

**`JobQueueProofs`** (any number of jobs and workers, any lease, any backoff).
Nothing is assumed of handlers: they take any time and outlive their leases. One
holder per job is not inductive: the row does not say who holds it. The invariant has two
parts. No two workers have the same claim of a job (`ClaimsUnique`), so at most one has the
claim that the row shows, and the others are strays. And each overrun is spent once
(`OverrunsPay`): on a stray, on the worker that is late now and will become one, or on a
settled row that a stray has changed. A worker becomes a stray only when its job is
claimed by another or answered by another stray; the one takes an expired lease,
which was counted when it expired, the other uses up the stray it comes from.
`OneHolderAlways` follows, and `FinalIsFinalAlways`: only a stray can
change what is settled. `CapRespectedAlways` counts attempts
against deaths and overruns (`ClaimableHasBudget`). `ImplementsLedger` shows that each
step of the queue is a step of `JobLedger` or leaves it unchanged. The one assumption
beyond types is that there are finitely many workers (`WorkerAssumption`), as
holders are counted.

**`RunPipelineProofs`** (any caps, any number of tasks, comments, thrown errors,
crashes and sweeps). A handler is a set of scripts, so what makes the proofs
possible is a property of handlers that is stated once: which writes each of
them can put into a script (`HandlersCovered`), and when. An invariant then
speaks of the run's rows *and* of the rest of each worker's script, since
between two writes the rows alone promise little.

* `NothingBuiltUnapprovedAlways`, for any number of workers. The invariant
  `ApprovedFirst`: until somebody has approved, the run is not in a state in
  which anything is built, and no worker holds a write that builds or that leads
  into such a state.
* With one worker (`OneWorker`; with two they fail, section 5):
  `BuiltWasReleasedAlways`, `PresentedIsCurrentAlways`, `ReadyBeforePlanAlways` and
  `CapsHoldAlways`, all from `GateInv`. Its parts: what is true of the plan in
  each state (`StateFits`), that counters and artifacts agree (`PlanInv`), that
  tasks belong to a released plan (`BuildInv`), that a committed fix is counted, or
  about to be, or was lost (`FixInv`), and that the worker's script is one of five
  shapes (`ScriptFits`): writes each of which is right whenever it comes, or one
  of four sequences (setting out to plan, planning, presenting, fixing) that pass
  through a state in which the rows do not fit.
* `ReviewedIsCompleteAlways`: as long as nobody threw or died (`Lost = 0`), a run
  goes to review with all the tasks of its list recorded and done.
  `RecordedTasksDoneAlways` needs no such condition: whatever throws, dies or is
  swept, no *recorded* task is left undone. With a death the list may be short
  (`AllTasksRecorded`, section 3). The invariant `ReviewInv` says that what
  the worker may still write is plain, or the rest of the list, behind the rows there
  are and up to the last, or a task and those left, which cover the ones not
  done, or the step to the review, with nothing undone.
* `FollowsLifecycleAlways`: with one worker, and while nothing throws, dies or is
  swept, every step is one of `RunLifecycle` or a stutter. The condition cannot be
  dropped: a handler that is repeated, or whose run the sweeper closed, may move a
  run that is closed (`TerminalForever`, section 3). `LifeInv` says that what is left of a
  script follows the state machine from the present state on (`OnItsWay`), and, as
  `handleProduceSpec` has no guard on the state but only one on the spec, that
  until there is a spec there is one job only, in the queue or in hand
  (`Started`).

**`TaskTddProofs`** (any paths, contents, tasks, attempts, errors and aborts).
`DefinitionOfDoneAlways` holds under the condition the property has: no
refactoring threw. Its invariant carries the equality of what passed from the
sandbox to the files to be committed and to the branch, and that the tests which
failed are those still in place. `CommittedOnceAlways` charges each commit
to the task's row, to the update about to be made, or to an abort.

**`WebhookIntakeProofs`** (any number of requests at a time, events,
redeliveries, failures). `OneJobPerDeliveryAlways`: a request past the mark has its
delivery to itself, and nothing was queued for it. `OnlyHumansMoveOnAlways`:
requests and jobs come from what a human did, and a run that is being parked is still
in the handler's hands.

**`TestSetupProofs`** (any repositories, pushes, interferences and jobs cut short).
For the calls to GitHub (`GitInv`): `WorkKeptAlways`, the branch is only added to; and
`RetriesAcceptedAlways`, where each rejection is charged to an interference,
and so is the one a call under way is heading for. For the setup (`SetupInv`):
`NoteTrueAlways`, since a pull request of the integrator's is opened last, with a body
that says what was consented to (`BodyFits`); `SetupMadeOnce`, on the assumption that nobody else deletes
the configuration of the runner (`NobodyRemovesRunner`); and
`SetupHarmlessAlways`, that nobody else adds a file where the example test goes
(`NobodyAddsSetupTest`). These are hypotheses on maintainers, who may do either; the
code does not claim to hold out against them, and the pushes of `test_setup` keep to
both. The invariant relates branch and sandbox at
every stage: equal when the setup is made, and a setup that has landed is
recognised by the sign that the detection looks for.

**`SetupPageProofs`** (any visitors, installations, links, sessions, submissions
and calls, any session life). `SignInSoundAlways`: a link that can still be
followed signed nobody in, and what a session vouches for was managed when it
was made. `LeftBehindBoundedAlways`: sessions for an uninstalled App are all from
before. `QuietCallsMatchedAlways` and `SuccessMeansStoredAlways` hold however many
submissions are under way: the secret in the row is that of whoever is half way and was
not overtaken, and once its own submission has labelled it, the label is right until
one that was overtaken labels it again (`RowInv`).

**`SweepAndStoresProofs`** holds two sets of theorems. Of the sweep (any number of
runs and failures, any two delays): `OneReminderAlways` charges each reminder to the mark in the row, to the row about
to be written, or to a failure; it needs that a sweep's candidates are current as to
reminders. `ClosedOnScheduleAlways`: who is overdue by more than a day per failure is a
candidate of today's sweep, or the sweep has not begun.

Of the two stores (any workers, runs, records, installations, lease, backoff and
clock; any number of calls): `RowsMirroredAlways`, `AnswersMirroredAlways` and
`StaleRunsMirroredAlways`, with `StoresTypeCorrect`, all from `StoresInv`. That the
rows are alike is not inductive, since the two stores name a row differently: an
array by its position, Postgres by a sequence that has gaps. The invariant
pairs the rows by their keys and says what a call relies on when it names them.

* Runs (`RunsInv`): each has its partner, ids follow the same order in both, and the
  time of the last update in Postgres is never the earlier one.
* Artifacts and tasks (`ArtifactsInv`, `TasksInv`): the records of one run are those
  of its partner, one per kind and one per index, the latter until Postgres refuses
  a task; `OneTaskPerIndex` is then lost for good in the array, and with it
  `TasksAlike`.
* Jobs (`JobsInv`): until one is queued again the rows are the same, ids included, and
  become due in the order of their ids. So the oldest that is due is the first of the
  array, which is why `ClaimsMirrored` fails only after a retry.
* Costs (`SumsInv`): each store adds up a table of its own shape. The running sums are
  carried by the invariant as a function of the sets of keys, as for the budget; that it
  gives what the stores compute follows from a smallest set for which it does not.
* Lists: both sort by id. `Listed` relates a sorted list to the rank of each row among
  the rows that are listed, and partners keep their order, so what Postgres lists as stale
  stands in the other list in the same order.

The assumptions are those of the types: `Null` is no number and no credential, a patch
names only fields of `UpdateTaskInput` (`types.ts`), and `api_key`, the default of the
column, is a credential's type.

**`RunBudgetProofs`** (any number of callers, any price, any ceiling, any
streams). `OvershootAlwaysBounded`: a run overspends by less than one call for each
caller and each answer whose record was lost. The bound itself is not
inductive: a caller that has passed the check may have done so long ago. The
invariant relates what was spent when each caller passed the check to what the
others have been charged since. It speaks of sums over sets of callers; as an
induction over a recursive sum cannot be used here, it says that there *is* a
function of the sets of callers that grows by each caller's share
(`Accounted`), and each step produces the next one. `CallsAreBudgeted` shows that
the steps of `LlmCalls` are steps of `RunBudget` or stutters, so that the bound
holds of it (`CallsOvershootBounded`). `LostAlwaysBounded`: what may still be lost
is the `Room` of each job, its attempts left and what is left of the one under
way; the invariant is that what was lost and all the room there is stay within what
attempts and deaths allow, again by way of a sum.

What is only model-checked:

* liveness (`ComesToRest`, `QueueDrains`, `TaskEnds`, `NobodyWaitsForEver`,
  `AnswersTakenUp`, `KeyPurged`, `JobsEnd`), since the prover handles neither
  fairness nor `ENABLED`.

## 5. What the models leave out

* **Loading and checking are one step.** A handler reads the run and evaluates
  its guard in one step of the model, and its later decisions use what it
  read, as the code does.
* **Comments are folded into the write that follows**, except the comment that
  presents a plan and those of the sweeper, where a property needs the moment
  between. A reply that arrives between the comment and the gate is seen in
  `WebhookIntake` and not in `RunPipeline`, whose deliveries are one step.
  Commits are folded into their record for specs and
  plans, and separate for tasks and fixes.
* **`RunPipeline` gives a job to one worker at a time.** What becomes of a job whose
  handler outlives its lease is the subject of `JobQueue`, and `JobQueueProofs` bounds
  it; that its two workers then write to the same run is not modelled, but for two
  jobs of one run (`pipeline_races`). It has no clock: a retried job may run at any
  moment.
* **Two workers.** With two workers on one run several properties of
  `pipeline_faults` fail (`ReadyBeforePlan`, `RevisionsBounded`,
  `PresentedIsCurrent`, `BuiltWasReleased`); the documented deployment is one
  process, so they are checked for one, and only what survives an overlap is
  checked for two.
* **`RunBudget`** takes the first handler to be over before the first call to a
  model. What a token costs is left out: a price is a choice.
* **`StaleRuns`** has no overlapping sweeps (they run hourly), and its runs are
  not driven by workers: that race is in `RunPipeline`.
* **`WebhookIntake`** has one run and a worker reduced to its gates; what a job
  does is in `RunPipeline`.
* **`GitBranch`**: objects no reference leads to are not seen by anybody, so
  making blobs, trees and commits are not steps of their own.
* **`TestSetup`**: each file stands for those like it, and each content for those
  the detection does not tell apart. The sandbox runs its commands in no time.
* **`Stores`**: a behaviour exercises one group of tables; callers name rows that
  exist; test runs and call records, which nothing reads to decide, are left out.
* **`LlmCalls`**: which error an agent's caller swallows is told apart only for
  the refactoring; the best-effort index lookups call no model.
* **Not modelled**: wire formats, prompts, rendering, HTML, what the command
  tables of the toolchains contain, the code index (it decides nothing),
  encryption (it returns what was put in), the teardown of sandboxes and
  checkouts, timeouts of commands in a sandbox.

## 6. The plan

Done: the queue, the handlers and the run they drive with its lifecycle, the intake,
the test-first loop, the branch and the test setup, credentials, sign-in and the
two together, the budget and the calls and jobs around it, the sweeper, the two
stores; and the proofs of section 4.

Open in the model:

1. The sandbox and the index: what is open is closed on every path. The
   `finally` of `retrieveCodeContext` (`handlers.ts:733`) drops the namespace
   before it removes the checkout: if the first throws, the second never runs,
   and the lookup that is best effort fails its job.
2. `computeBackoffMs` and the parsers of replies (`parsePlanDecision`) against
   reference definitions over bounded inputs.

Then, the proofs:

3. `RunPipeline` with any number of workers: how far `CapsHold` survives an overlap
   if each worker is charged one job.
