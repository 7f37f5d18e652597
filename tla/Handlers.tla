------------------------------- MODULE Handlers -------------------------------
(***************************************************************************)
(* What each job handler of src/worker/handlers.ts decides to do, as a     *)
(* function of the run it loaded: the set of scripts it may carry out, a   *)
(* script being the sequence of writes the handler awaits one by one.  The *)
(* answers of the models, the sandbox and GitHub are the choice between    *)
(* the scripts.  RunPipeline executes them, one write per step.            *)
(*                                                                         *)
(* A comment is part of the write that follows it, except the plan gate's  *)
(* (Present): there, what the human has seen matters.  A commit is part of *)
(* the write that records it, except a task's and a fix's.                 *)
(***************************************************************************)
EXTENDS Naturals, Sequences

CONSTANTS
  PlanRevisionCap,  \* PLAN_REVISION_CAP
  ImplHelpCap,      \* IMPL_HELP_CAP
  FixRoundCap,      \* FIX_ROUND_CAP
  MaxTasks          \* bound: tasks the decomposer returns

ASSUME CapsAssumption ==
  PlanRevisionCap \in Nat /\ ImplHelpCap \in Nat /\ FixRoundCap \in Nat
ASSUME TasksAssumption == MaxTasks \in Nat

-----------------------------------------------------------------------------
Gates == {"awaiting_clarification", "awaiting_plan_approval",
          "awaiting_impl_help", "awaiting_pr_review"}
Terminal == {"unsupported", "failed", "aborted"}
Transient == {"received", "acknowledged", "specifying", "specified",
              "planning", "implementing", "reviewing"}
RunState == {"none"} \cup Transient \cup Gates \cup Terminal

JobType == {"issue_opened", "produce_spec", "clarify", "resume_clarification",
            "produce_plan", "resume_plan_decision", "implement",
            "resume_implementation", "review", "fix"}

(* What parsePlanDecision makes of a comment; seen is the plan its author  *)
(* had in front of them (0: none yet).                                     *)
Body == {"approve", "abort", "changes", "none"}
Job == [type : JobType, body : Body, seen : Nat, attempts : Nat]
NewJob(type, body, seen) ==
  [type |-> type, body |-> body, seen |-> seen, attempts |-> 0]

(* The structured spec in run.context, as definitionOfReady tells it       *)
(* apart: ready, with open questions, or lacking criteria or non-goals.    *)
SpecKind == {"ready", "open", "incomplete"}
NoHelp == [task |-> 0, rounds |-> 0]

(* The parts of runs.context the handlers decide by.                       *)
Context == [spec : SpecKind \cup {"none"}, reclarified : BOOLEAN, plan : Nat,
            revisions : Nat, help : [task : Nat, rounds : Nat], fixes : Nat]
EmptyContext == [spec |-> "none", reclarified |-> FALSE, plan |-> 0,
                 revisions |-> 0, help |-> NoHelp, fixes |-> 0]

-----------------------------------------------------------------------------
(* The writes.                                                             *)
To(s) == [op |-> "move", to |-> s]
Enq(type) == [op |-> "enqueue", job |-> NewJob(type, "none", 0)]
Forward(type, job) ==
  [op |-> "enqueue", job |-> NewJob(type, job.body, job.seen)]
Save(c) == [op |-> "save", ctx |-> c]
RecordSpec == [op |-> "spec"]
RecordPlan(c, n) == [op |-> "plan", ctx |-> c, revisions |-> n]
Present(v) == [op |-> "present", plan |-> v]
Approve(v) == [op |-> "approve", seen |-> v]
RecordTask(v, i, n) == [op |-> "task", plan |-> v, idx |-> i, total |-> n]
ListTasks(c) == [op |-> "list", ctx |-> c]
Tasks(c, left) == [op |-> "tasks", ctx |-> c, left |-> left]
Commit(t) == [op |-> "commit", task |-> t]
Bootstrap(v) == [op |-> "bootstrap", plan |-> v]
TaskDone(t) == [op |-> "taskDone", task |-> t]
FixCommit == [op |-> "fix"]
Refuse == [op |-> "refuse"]      \* a terminal error, caught by the worker
Refused == [op |-> "refused"]    \* ... and the run closed for it
CloseRun == [op |-> "close"]     \* the job is dead-lettered

Write ==
  [op : {"move"}, to : RunState] \cup [op : {"enqueue"}, job : Job]
  \cup [op : {"save", "list"}, ctx : Context]
  \cup [op : {"plan"}, ctx : Context, revisions : Nat]
  \cup [op : {"present", "bootstrap"}, plan : Nat]
  \cup [op : {"approve"}, seen : Nat]
  \cup [op : {"task"}, plan : Nat, idx : Nat, total : Nat]
  \cup [op : {"tasks"}, ctx : Context, left : SUBSET Nat]
  \cup [op : {"commit", "taskDone"}, task : Nat]
  \cup [op : {"spec", "fix", "refuse", "refused", "close"}]

Skip == {<<>>}
Fail == <<To("failed")>>

(* How any model call may end the handler: the budget is spent (handled    *)
(* there), or the key, the plan's capacity is missing (refused above).     *)
Stopped == {Fail, <<Refuse>>}

-----------------------------------------------------------------------------
(* Mutant: nothing is enqueued after the acknowledgement.                  *)
handleIssueOpenedUnchained(r) ==
  IF r.state # "received" THEN Skip ELSE {<<To("acknowledged")>>}

handleIssueOpened(r) ==
  IF r.state # "received" THEN Skip
  ELSE {<<To("acknowledged"), Enq("produce_spec")>>}

(* No guard on the state: only the spec artifact stops a second pass.      *)
handleProduceSpec(r) ==
  IF r.spec THEN Skip
  ELSE {<<To("specifying")>> \o s :
          s \in {<<To("unsupported")>>} \cup Stopped \cup
                {<<RecordSpec, Save([r.ctx EXCEPT !.spec = k]),
                   To("specifying"), Enq("clarify")>> : k \in SpecKind}}

(* No question, too many, or one batch of them.                            *)
handleClarify(r) ==
  IF r.state # "specifying" \/ ~r.spec THEN Skip
  ELSE Stopped \cup
       {<<To("specified"), Enq("produce_plan")>>,
        Fail,
        <<Save(r.ctx), To("awaiting_clarification")>>}

handleResumeClarification(r) ==
  IF r.state # "awaiting_clarification" \/ ~r.spec THEN Skip
  ELSE Stopped \cup
       {<<RecordSpec, Save([r.ctx EXCEPT !.spec = k]),
          To("specified"), Enq("produce_plan")>> : k \in SpecKind}

(* runArchitectAndCommit, shared by the first plan and its revisions, and  *)
(* the plan gate it ends at; it also fails if no test setup can be added.  *)
PlanScripts(c, revisions) ==
  {<<To("planning"), e>> :
     e \in {To("failed"), Refuse, RecordPlan(c, revisions)}}

(* Mutants: the gate opens before the plan is saved; there is no gate.     *)
PlanGateEarly(c, revisions, v) ==
  <<To("awaiting_plan_approval"), Present(v),
    Save([c EXCEPT !.plan = v, !.revisions = revisions])>>
PlanGateSkipped(c, revisions, v) ==
  <<Save([c EXCEPT !.plan = v, !.revisions = revisions]), Present(v),
    To("implementing"), Enq("implement")>>

PlanGate(c, revisions, v) ==
  <<Save([c EXCEPT !.plan = v, !.revisions = revisions]), Present(v),
    To("awaiting_plan_approval")>>

(* Mutant: only open questions count.                                      *)
definitionOfReadyIncomplete(kind) == kind # "open"
definitionOfReady(kind) == kind = "ready"

handleProducePlan(r) ==
  IF r.plan # 0 \/ r.state # "specified" \/ r.ctx.spec = "none" THEN Skip
  ELSE IF definitionOfReady(r.ctx.spec)
  THEN PlanScripts(r.ctx, r.ctx.revisions)
  ELSE IF r.ctx.spec = "open" /\ ~r.ctx.reclarified
  THEN {<<Save([r.ctx EXCEPT !.reclarified = TRUE]), To("specifying"),
          Enq("clarify")>>}
  ELSE {Fail}

(* Mutant: one revision too many.                                          *)
RevisionsSpentLate(c) == c.revisions > PlanRevisionCap
RevisionsSpent(c) == c.revisions >= PlanRevisionCap

handleResumePlanDecision(r, job) ==
  IF r.state # "awaiting_plan_approval" THEN Skip
  ELSE CASE job.body = "approve" -> {<<Approve(job.seen), Enq("implement")>>}
         [] job.body = "abort" -> {<<To("aborted")>>}
         [] OTHER ->
              IF r.ctx.spec = "none" \/ RevisionsSpent(r.ctx)
              THEN Skip
              ELSE PlanScripts(r.ctx, r.ctx.revisions + 1)

(* One INSERT per task.  Mutant: the last one is forgotten.                *)
RecordTasksButLast(v, n) == [i \in 1 .. (n - 1) |-> RecordTask(v, i, n)]
RecordTasks(v, n) == [i \in 1 .. n |-> RecordTask(v, i, n)]

(* The plan is decomposed once; a restart works on the tasks it finds.     *)
Decompositions(r) ==
  IF r.tasks > 0 THEN {<<ListTasks(r.ctx)>>}
  ELSE Stopped \cup
       {RecordTasks(r.plan, n) \o <<ListTasks(r.ctx)>> : n \in 0 .. MaxTasks}

(* The sandbox cannot be prepared; or the test setup the plan gate agreed  *)
(* to is there, or is added, or cannot be made green.                      *)
(* Mutant: the state is not checked.                                       *)
handleImplementAnyState(r) ==
  IF ~r.spec \/ r.plan = 0 THEN Skip
  ELSE {b \o s : b \in {<<>>, <<Bootstrap(r.plan)>>}, s \in Decompositions(r)}

handleImplement(r) ==
  IF r.state # "implementing" \/ ~r.spec \/ r.plan = 0 THEN Skip
  ELSE {<<Refuse>>, Fail} \cup
       {b \o s : b \in {<<>>, <<Bootstrap(r.plan)>>}, s \in Decompositions(r)}

(* A task landed: it is marked done, and the help given for it is cleared. *)
Cleared(c, t) == IF c.help.task = t THEN [c EXCEPT !.help = NoHelp] ELSE c
ClearHelp(c, t) == IF c.help.task = t THEN <<Save(Cleared(c, t))>> ELSE <<>>
Landed(c, t, left) ==
  <<TaskDone(t)>> \o ClearHelp(c, t) \o <<Tasks(Cleared(c, t), left \ {t})>>

(* One round of the task loop, for the first of the tasks left, c being    *)
(* the context in memory: the budget is spent; the task is stuck; it needs *)
(* no change; it is committed.                                             *)
FirstOf(left) == {t \in left : \A u \in left : t <= u}
TaskLoop(c, left) ==
  IF left = {} THEN {<<To("reviewing"), Enq("review")>>}
  ELSE Stopped \cup UNION
         {{<<Save([c EXCEPT !.help.task = t]), To("awaiting_impl_help")>>,
           Landed(c, t, left),
           <<Commit(t)>> \o Landed(c, t, left)} : t \in FirstOf(left)}

handleResumeImplementation(r, job) ==
  IF r.state # "awaiting_impl_help" THEN Skip
  ELSE IF job.body = "abort" THEN {<<To("aborted")>>}
  ELSE IF r.ctx.help.rounds + 1 > ImplHelpCap THEN {Fail}
  ELSE {<<Save([r.ctx EXCEPT !.help.rounds = @ + 1]), To("implementing"),
          Enq("implement")>>}

handleReview(r) ==
  IF \/ r.state # "reviewing"
     \/ ~r.spec \/ r.plan = 0 \/ r.ctx.spec = "none" \/ r.ctx.plan = 0
  THEN Skip
  ELSE Stopped \cup {<<To("awaiting_pr_review")>>}

FixRoundsSpent(c) == c.fixes >= FixRoundCap

(* Vague; rework; over the cap; stuck; nothing to change; fixed.           *)
handleFix(r, job) ==
  IF r.state # "awaiting_pr_review" THEN Skip
  ELSE Skip \cup Stopped \cup
       {<<To("awaiting_plan_approval"), Forward("resume_plan_decision", job)>>}
       \cup
       IF FixRoundsSpent(r.ctx) THEN {Fail}
       ELSE {<<FixCommit, Save([r.ctx EXCEPT !.fixes = @ + 1])>>}

dispatch(job, r) ==
  CASE job.type = "issue_opened" -> handleIssueOpened(r)
    [] job.type = "produce_spec" -> handleProduceSpec(r)
    [] job.type = "clarify" -> handleClarify(r)
    [] job.type = "resume_clarification" -> handleResumeClarification(r)
    [] job.type = "produce_plan" -> handleProducePlan(r)
    [] job.type = "resume_plan_decision" -> handleResumePlanDecision(r, job)
    [] job.type = "implement" -> handleImplement(r)
    [] job.type = "resume_implementation" -> handleResumeImplementation(r, job)
    [] job.type = "review" -> handleReview(r)
    [] job.type = "fix" -> handleFix(r, job)
=============================================================================
