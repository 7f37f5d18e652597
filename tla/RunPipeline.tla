----------------------------- MODULE RunPipeline ------------------------------
(***************************************************************************)
(* One issue on its way from the webhook to the pull request: the run row, *)
(* its artifacts and tasks, the jobs that drive it, the workers that carry *)
(* out the handlers (module Handlers) one write at a time, the people who  *)
(* answer at the gates, and the sweeper that closes abandoned runs.        *)
(*                                                                         *)
(* Source: src/worker/worker.ts, src/worker/stale.ts, src/app.ts and the   *)
(* store calls they make (src/store/pg-store.ts).  Time is left out: a     *)
(* retried or reclaimed job may run at any moment.  A job is in one pair   *)
(* of hands at a time, which JobQueueProofs proves of the jobs table as    *)
(* long as no handler outlives its lease.                                  *)
(***************************************************************************)
EXTENDS Handlers, SequencesExt

CONSTANTS
  Worker,        \* the worker loops; one, in the documented deployment
  MaxAttempts,   \* MAX_JOB_ATTEMPTS
  Bodies,        \* bound: what people write
  MaxComments,   \* bound: how often people write to a waiting run
  MaxThrows,     \* bound: handlers that throw
  MaxCrashes,    \* bound: processes that die
  MaxSweeps      \* bound: sweeps that find the run abandoned

ASSUME BodiesAssumption == Bodies \subseteq Body
ASSUME LimitsAssumption ==
  /\ MaxAttempts \in Nat \ {0}
  /\ {MaxComments, MaxThrows, MaxCrashes, MaxSweeps} \subseteq Nat

VARIABLES
  state,      \* runs.state; "none" before the row exists
  ctx,        \* runs.context
  spec,       \* is there a spec artifact?
  plan,       \* version of the plan artifact, 0 if there is none
  tasks,      \* the tasks rows: how many, which are done; and (history) how
              \* many the decomposer returned, for which plan
  fresh,      \* queued jobs never attempted, oldest first
  again,      \* jobs to attempt again, after a failure or a lost worker
  job,        \* per worker: the job in hand, or NoJob
  todo,       \* per worker: what is left of its handler's script
  sweep,      \* is the sweeper about to close the run it found abandoned?
  env,        \* how much has happened of what is bounded
  hist        \* history, for the properties only

queue == <<fresh, again>>
run == <<state, ctx, spec, plan, tasks>>
hands == <<job, todo>>
vars == <<run, queue, hands, sweep, env, hist>>

NoJob == [type |-> "none"]

(* plans: versions of the plan so far; shown: the one last presented;      *)
(* agreed: those somebody had in front of them when they wrote an approval *)
(* that was acted on; released: those that were current when it was; built:*)
(* those that code was committed for; fixes: how many fix commits.         *)
NoHistory == [plans |-> 0, shown |-> 0, agreed |-> {}, released |-> {},
              built |-> {}, fixes |-> 0]
NoTasks == [plan |-> 0, n |-> 0, total |-> 0, done |-> {}]

Init ==
  /\ state = "none" /\ ctx = EmptyContext /\ spec = FALSE /\ plan = 0
  /\ tasks = NoTasks
  /\ fresh = <<>> /\ again = <<>>
  /\ job = [w \in Worker |-> NoJob] /\ todo = [w \in Worker |-> <<>>]
  /\ sweep = FALSE
  /\ env = [opened |-> FALSE, comments |-> 0, throws |-> 0, crashes |-> 0,
            sweeps |-> 0]
  /\ hist = NoHistory

Busy(w) == job[w] # NoJob

-----------------------------------------------------------------------------
(* People.  A delivery enqueues at most one job; redeliveries are dropped. *)
IssueOpened ==
  /\ ~env.opened
  /\ env' = [env EXCEPT !.opened = TRUE]
  /\ fresh' = Append(fresh, NewJob("issue_opened", "none", 0))
  /\ UNCHANGED <<run, again, hands, sweep, hist>>

(* A comment goes to whichever gate the run is parked at, and nowhere if   *)
(* it is parked at none.                                                   *)
GateJob == [awaiting_clarification |-> "resume_clarification",
            awaiting_plan_approval |-> "resume_plan_decision",
            awaiting_impl_help |-> "resume_implementation",
            awaiting_pr_review |-> "fix"]

Comment(body) ==
  /\ env.comments < MaxComments
  /\ state \in Gates
  /\ env' = [env EXCEPT !.comments = @ + 1]
  /\ fresh' = Append(fresh, NewJob(GateJob[state], body, hist.shown))
  /\ UNCHANGED <<run, again, hands, sweep, hist>>

-----------------------------------------------------------------------------
(* The worker claims a job, and its handler loads the run (creating it if  *)
(* need be), checks its guards and sets out on one of its scripts.         *)
Loaded(j) ==
  [state |-> IF state = "none" THEN "received" ELSE state,
   ctx |-> ctx, spec |-> spec, plan |-> plan, tasks |-> tasks.n]

Start(w, j) ==
  /\ ~Busy(w)
  /\ state' = Loaded(j).state
  /\ job' = [job EXCEPT ![w] = [j EXCEPT !.attempts = @ + 1]]
  /\ \E script \in dispatch(j, Loaded(j)) : todo' = [todo EXCEPT ![w] = script]
  /\ UNCHANGED <<ctx, spec, plan, tasks, sweep, env, hist>>

ClaimFresh(w) ==
  /\ fresh # <<>>
  /\ Start(w, Head(fresh))
  /\ fresh' = Tail(fresh)
  /\ UNCHANGED again

ClaimAgain(w) ==
  \E i \in DOMAIN again :
    /\ Start(w, again[i])
    /\ again' = RemoveAt(again, i)
    /\ UNCHANGED fresh

Doing(w, op) == todo[w] # <<>> /\ Head(todo[w]).op = op
Effect(w) == Head(todo[w])
Proceed(w, script) ==
  /\ todo' = [todo EXCEPT ![w] = script \o Tail(@)]
  /\ UNCHANGED <<job, sweep, env>>

(* updateRunState: whatever the state is now.                              *)
Move(w) ==
  /\ Doing(w, "move")
  /\ state' = Effect(w).to
  /\ Proceed(w, <<>>)
  /\ UNCHANGED <<ctx, spec, plan, tasks, queue, hist>>

ApprovePlan(w) ==
  /\ Doing(w, "approve")
  /\ state' = "implementing"
  /\ hist' = [hist EXCEPT !.agreed = @ \cup {Effect(w).seen},
                          !.released = @ \cup {plan}]
  /\ Proceed(w, <<>>)
  /\ UNCHANGED <<ctx, spec, plan, tasks, queue>>

Enqueue(w) ==
  /\ Doing(w, "enqueue")
  /\ fresh' = Append(fresh, Effect(w).job)
  /\ Proceed(w, <<>>)
  /\ UNCHANGED <<run, again, hist>>

(* updateRunContext: the whole blob, from the handler's snapshot.          *)
SaveContext(w) ==
  /\ Doing(w, "save")
  /\ ctx' = Effect(w).ctx
  /\ Proceed(w, <<>>)
  /\ UNCHANGED <<state, spec, plan, tasks, queue, hist>>

RecordSpecArtifact(w) ==
  /\ Doing(w, "spec")
  /\ spec' = TRUE
  /\ Proceed(w, <<>>)
  /\ UNCHANGED <<state, ctx, plan, tasks, queue, hist>>

RecordPlanArtifact(w) ==
  /\ Doing(w, "plan")
  /\ plan' = hist.plans + 1
  /\ hist' = [hist EXCEPT !.plans = plan']
  /\ Proceed(w, PlanGate(Effect(w).ctx, Effect(w).revisions, plan'))
  /\ UNCHANGED <<state, ctx, spec, tasks, queue>>

PresentPlan(w) ==
  /\ Doing(w, "present")
  /\ hist' = [hist EXCEPT !.shown = Effect(w).plan]
  /\ Proceed(w, <<>>)
  /\ UNCHANGED <<run, queue>>

(* INSERT INTO tasks, unique per run and index.                            *)
TaskExists(w) == Doing(w, "task") /\ Effect(w).idx <= tasks.n
InsertTask(w) ==
  /\ Doing(w, "task")
  /\ ~TaskExists(w)
  /\ tasks' = [tasks EXCEPT !.n = Effect(w).idx, !.plan = Effect(w).plan,
                            !.total = Effect(w).total]
  /\ Proceed(w, <<>>)
  /\ UNCHANGED <<state, ctx, spec, plan, queue, hist>>

GetTasks(w) ==
  /\ Doing(w, "list")
  /\ Proceed(w, <<Tasks(Effect(w).ctx, (1 .. tasks.n) \ tasks.done)>>)
  /\ UNCHANGED <<run, queue, hist>>

NextTask(w) ==
  /\ Doing(w, "tasks")
  /\ \E script \in TaskLoop(Effect(w).ctx, Effect(w).left) : Proceed(w, script)
  /\ UNCHANGED <<run, queue, hist>>

CommitCode(w) ==
  /\ \/ /\ Doing(w, "commit")
        /\ hist' = [hist EXCEPT !.built = @ \cup {tasks.plan}]
     \/ /\ Doing(w, "bootstrap")
        /\ hist' = [hist EXCEPT !.built = @ \cup {Effect(w).plan}]
     \/ /\ Doing(w, "fix")
        /\ hist' = [hist EXCEPT !.fixes = @ + 1]
  /\ Proceed(w, <<>>)
  /\ UNCHANGED <<run, queue>>

UpdateTask(w) ==
  /\ Doing(w, "taskDone")
  /\ tasks' = [tasks EXCEPT !.done = @ \cup {Effect(w).task}]
  /\ Proceed(w, <<>>)
  /\ UNCHANGED <<state, ctx, spec, plan, queue, hist>>

(* A terminal error, caught by the worker: the run is closed, and what is  *)
(* left is to mark the job done.                                           *)
RefuseRun(w) ==
  /\ Doing(w, "refuse")
  /\ state' = "failed"
  /\ Proceed(w, <<Refused>>)
  /\ UNCHANGED <<ctx, spec, plan, tasks, queue, hist>>

Perform(w) ==
  \/ Move(w) \/ ApprovePlan(w) \/ Enqueue(w) \/ SaveContext(w)
  \/ RecordSpecArtifact(w) \/ RecordPlanArtifact(w) \/ PresentPlan(w)
  \/ InsertTask(w) \/ GetTasks(w) \/ NextTask(w) \/ CommitCode(w)
  \/ UpdateTask(w) \/ RefuseRun(w)

LetGo(w) ==
  /\ job' = [job EXCEPT ![w] = NoJob]
  /\ todo' = [todo EXCEPT ![w] = <<>>]

(* The handler returned, or the worker closed the run for it.  Mutant: the *)
(* worker does not mark the job it refused.                                *)
FinishedUnlessRefused(w) == todo[w] = <<>>
Finished(w) == todo[w] = <<>> \/ Doing(w, "refused")

MarkJobDone(w) ==
  /\ Busy(w)
  /\ Finished(w)
  /\ LetGo(w)
  /\ UNCHANGED <<run, queue, sweep, env, hist>>

(* The job is dead-lettered; the run is closed with it.                    *)
CloseDeadLettered(w) ==
  /\ Doing(w, "close")
  /\ state' = "failed"
  /\ LetGo(w)
  /\ UNCHANGED <<ctx, spec, plan, tasks, queue, sweep, env, hist>>

-----------------------------------------------------------------------------
(* The worker has caught a terminal error and not yet marked the job.      *)
Refusing(w) == Doing(w, "refuse") \/ Doing(w, "refused")

(* A write, or the work before it, throws.  The job is queued again or,    *)
(* out of attempts, dead-lettered, after which the worker closes the run.  *)
(* An error while refusing escapes the worker's catch: the job stays       *)
(* in_progress until its lease runs out.  An error while closing is        *)
(* swallowed.                                                              *)
Throw(w) ==
  /\ Busy(w)
  /\ TaskExists(w) \/ env.throws < MaxThrows
  /\ env' = [env EXCEPT !.throws = IF TaskExists(w) THEN @ ELSE @ + 1]
  /\ IF Doing(w, "close")
     THEN LetGo(w) /\ UNCHANGED again
     ELSE IF Refusing(w) \/ job[w].attempts < MaxAttempts
     THEN LetGo(w) /\ again' = Append(again, job[w])
     ELSE /\ todo' = [todo EXCEPT ![w] = <<CloseRun>>]
          /\ UNCHANGED <<job, again>>
  /\ UNCHANGED <<run, fresh, sweep, hist>>

(* The process dies.  The lease brings the job back, unless it is already  *)
(* marked failed.                                                          *)
Crash(w) ==
  /\ Busy(w)
  /\ env.crashes < MaxCrashes
  /\ env' = [env EXCEPT !.crashes = @ + 1]
  /\ again' = IF Doing(w, "close") THEN again ELSE Append(again, job[w])
  /\ LetGo(w)
  /\ UNCHANGED <<run, fresh, sweep, hist>>

-----------------------------------------------------------------------------
(* The sweeper reads a run parked for a week, comments, and then closes it.*)
SweepPick ==
  /\ ~sweep
  /\ state \in Gates
  /\ env.sweeps < MaxSweeps
  /\ sweep' = TRUE
  /\ env' = [env EXCEPT !.sweeps = @ + 1]
  /\ UNCHANGED <<run, queue, hands, hist>>

SweepClose ==
  /\ sweep
  /\ state' = "aborted"
  /\ sweep' = FALSE
  /\ UNCHANGED <<ctx, spec, plan, tasks, queue, hands, env, hist>>

(* The comment failed, for a reason that may pass.                         *)
SweepMiss ==
  /\ sweep
  /\ sweep' = FALSE
  /\ UNCHANGED <<run, queue, hands, env, hist>>

-----------------------------------------------------------------------------
Work(w) == ClaimFresh(w) \/ ClaimAgain(w) \/ Perform(w) \/ MarkJobDone(w)
           \/ CloseDeadLettered(w)

Next ==
  \/ IssueOpened
  \/ \E body \in Bodies : Comment(body)
  \/ \E w \in Worker : Work(w) \/ Throw(w) \/ Crash(w)
  \/ SweepPick \/ SweepClose \/ SweepMiss

Spec == Init /\ [][Next]_vars

(* The poll loop keeps running and awaits one call after the other; people *)
(* may stay away for ever, and nothing has to go wrong.                    *)
FairSpec == Spec /\ \A w \in Worker : WF_vars(Work(w))

-----------------------------------------------------------------------------
TypeOK ==
  /\ state \in RunState
  /\ ctx \in Context
  /\ spec \in BOOLEAN
  /\ plan \in Nat
  /\ tasks \in [plan : Nat, n : Nat, total : Nat, done : SUBSET Nat]
  /\ fresh \in Seq(Job) /\ again \in Seq(Job)
  /\ job \in [Worker -> Job \cup {NoJob}]
  /\ todo \in [Worker -> Seq(Write)]
  /\ \A w \in Worker : ~Busy(w) => todo[w] = <<>>
  /\ sweep \in BOOLEAN
  /\ env \in [opened : BOOLEAN, comments : Nat, throws : Nat, crashes : Nat,
              sweeps : Nat]
  /\ hist \in [plans : Nat, shown : Nat, agreed : SUBSET Nat,
               released : SUBSET Nat, built : SUBSET Nat, fixes : Nat]

(* No code is written before this gate: tasks and test setups are only     *)
(* ever committed for a plan that was the current one when an approval was *)
(* acted on.                                                               *)
BuiltWasReleased == hist.built \subseteq hist.released

(* The weaker form that survives several workers and the sweeper: before   *)
(* somebody approved something nothing is built at all.                    *)
NothingBuiltUnapproved == hist.built # {} => hist.released # {}

(* ... and the people who approved had that very plan in front of them.    *)
(* The code does not keep this: see README.md.                             *)
BuiltWasAgreed == hist.built \subseteq hist.agreed

(* Whenever a run waits at the plan gate, the plan artifact, the plan in   *)
(* run.context and the plan last presented are one and the same, so that   *)
(* an approval can only mean that one.                                     *)
PresentedIsCurrent ==
  state = "awaiting_plan_approval" =>
    plan # 0 /\ ctx.plan = plan /\ hist.shown = plan

(* The Definition of Ready: no plan exists, and none is being made, for a  *)
(* spec with open questions or without criteria.                           *)
ReadyBeforePlan == plan # 0 \/ state = "planning" => ctx.spec = "ready"

(* Change requests and rework together regenerate the plan at most         *)
(* PLAN_REVISION_CAP times.                                                *)
RevisionsBounded == hist.plans <= 1 + PlanRevisionCap

(* A review comment is fixed at most FIX_ROUND_CAP times, not counting the *)
(* fixes whose handler did not live to record them.                        *)
FixesBounded == hist.fixes <= FixRoundCap + env.crashes + env.throws

(* The caps of a run hold, on plans and on fixes.                          *)
CapsHold == RevisionsBounded /\ FixesBounded

(* Nothing goes to review with a recorded task not done.                   *)
RecordedTasksDone == state = "reviewing" => tasks.done = 1 .. tasks.n

(* What goes to review is everything the decomposer asked for ...          *)
AllTasksRecorded == state = "reviewing" => tasks.n = tasks.total

(* What goes to review is complete: both.                                  *)
ReviewedIsComplete == RecordedTasksDone /\ AllTasksRecorded

(* ... for the plan that was approved.                                     *)
(* The code does not keep this: see README.md.                             *)
ReviewedPlanWasDecomposed ==
  state = "reviewing" /\ tasks.n > 0 => tasks.plan = plan

(* An unsupported, failed or aborted run stays that way.                   *)
(* The code does not keep this: see README.md.                             *)
TerminalForever == [][(state \in Terminal) => state' = state]_vars

(* The sweeper closes runs parked on a human, never ones the worker is     *)
(* driving.                                                                *)
(* The code does not keep this: see README.md.                             *)
SweptOnlyParked == [][SweepClose => state \in Gates]_vars

(* The run moves along the documented state machine.                       *)
Lifecycle == INSTANCE RunLifecycle
FollowsLifecycle == Lifecycle!Spec

(* A run somebody's reply or issue set in motion comes to rest, at a gate  *)
(* or closed; it never just stops where nobody will look at it again.      *)
ComesToRest == state \in Transient ~> state \in Gates \cup Terminal

(* Every job is taken up in the end, also those behind others.             *)
QueueDrains == fresh # <<>> ~> fresh = <<>>
=============================================================================
