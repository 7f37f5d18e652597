--------------------------- MODULE RunPipelineProofs ---------------------------
(***************************************************************************)
(* What holds of the pipeline for any caps, any number of tasks, comments, *)
(* thrown errors, crashes and sweeps: with any number of workers, nothing  *)
(* is built before somebody approves something; with one, as deployed, the *)
(* gates mean what they say.                                               *)
(***************************************************************************)
EXTENDS RunPipeline, SequenceTheorems, TLAPS

-----------------------------------------------------------------------------
(* What the handlers write, and when they write at all.                    *)
Stops == {To("failed"), Refuse}
Specs(c) == {Save([c EXCEPT !.spec = k]) : k \in SpecKind}

IssueOpenedWrites == {To("acknowledged"), Enq("produce_spec")}
ProduceSpecWrites(r) ==
  {To("specifying"), To("unsupported"), RecordSpec, Enq("clarify")}
  \cup Stops \cup Specs(r.ctx)
ClarifyWrites(r) ==
  {To("specified"), Enq("produce_plan"), Save(r.ctx),
   To("awaiting_clarification")} \cup Stops
ResumeClarificationWrites(r) ==
  {RecordSpec, To("specified"), Enq("produce_plan")}
  \cup Stops \cup Specs(r.ctx)
ReclarifyWrites(r) ==
  {Save([r.ctx EXCEPT !.reclarified = TRUE]), To("specifying"),
   Enq("clarify"), To("failed")}
DecideWrites(j) == {Approve(j.seen), Enq("implement"), To("aborted")}
ImplementWrites(r) ==
  {Bootstrap(r.plan), ListTasks(r.ctx)} \cup Stops
  \cup {RecordTask(r.plan, i, n) : i \in Nat, n \in Nat}
TaskWrites(c, left) ==
  IF left = {} THEN {To("reviewing"), Enq("review")}
  ELSE Stops \cup {To("awaiting_impl_help")} \cup UNION
         {{Save([c EXCEPT !.help.task = t]), Save(Cleared(c, t)), TaskDone(t),
           Commit(t), Tasks(Cleared(c, t), left \ {t})} : t \in left}
ResumeImplementationWrites(r) ==
  {To("aborted"), To("failed"), Save([r.ctx EXCEPT !.help.rounds = @ + 1]),
   To("implementing"), Enq("implement")}
ReviewWrites == {To("awaiting_pr_review")} \cup Stops
FixWrites(j) ==
  {To("awaiting_plan_approval"), Forward("resume_plan_decision", j)}
  \cup Stops
Fixed(c) == <<FixCommit, Save([c EXCEPT !.fixes = @ + 1])>>

LEMMA Tuples ==
  ASSUME NEW W
  PROVE  /\ <<>> \in Seq(W)
         /\ \A a \in W : <<a>> \in Seq(W)
         /\ \A a \in W, b \in W : <<a, b>> \in Seq(W)
         /\ \A a \in W, b \in W, c \in W : <<a, b, c>> \in Seq(W)
         /\ \A a \in W, b \in W, c \in W, d \in W :
              <<a, b, c, d>> \in Seq(W)
OBVIOUS

LEMMA IssueOpenedScripts ==
  ASSUME NEW r, NEW s \in handleIssueOpened(r), s # <<>>
  PROVE  r.state = "received" /\ s \in Seq(IssueOpenedWrites)
<1>1. /\ r.state = "received"
      /\ s = <<To("acknowledged"), Enq("produce_spec")>>
  BY DEF handleIssueOpened, Skip
<1>2. {To("acknowledged"), Enq("produce_spec")} \subseteq IssueOpenedWrites
  BY DEF IssueOpenedWrites
<1> QED BY <1>1, <1>2, Tuples

LEMMA StoppedScripts ==
  ASSUME NEW W, Stops \subseteq W
  PROVE  Stopped \subseteq Seq(W) /\ Fail \in Seq(W)
<1>1. To("failed") \in W /\ Refuse \in W
  BY DEF Stops
<1> QED BY <1>1, Tuples DEF Stopped, Fail

LEMMA ProduceSpecScripts ==
  ASSUME NEW r, NEW s \in handleProduceSpec(r), s # <<>>
  PROVE  ~r.spec /\ s \in Seq(ProduceSpecWrites(r))
<1> DEFINE W == ProduceSpecWrites(r)
<1>1. ~r.spec
  BY DEF handleProduceSpec, Skip
<1>2. PICK t \in {<<To("unsupported")>>} \cup Stopped \cup
                {<<RecordSpec, Save([r.ctx EXCEPT !.spec = k]),
                   To("specifying"), Enq("clarify")>> : k \in SpecKind} :
        s = <<To("specifying")>> \o t
  BY <1>1 DEF handleProduceSpec
<1>3. /\ {To("specifying"), To("unsupported"), RecordSpec, Enq("clarify")}
           \subseteq W
      /\ Stops \subseteq W
      /\ \A k \in SpecKind : Save([r.ctx EXCEPT !.spec = k]) \in W
  BY DEF ProduceSpecWrites, Specs
<1> HIDE DEF W
<1>4. <<To("specifying")>> \in Seq(W) /\ <<To("unsupported")>> \in Seq(W)
  BY <1>3, Tuples
<1>5. \A k \in SpecKind :
        <<RecordSpec, Save([r.ctx EXCEPT !.spec = k]),
          To("specifying"), Enq("clarify")>> \in Seq(W)
  BY <1>3, Tuples
<1>6. t \in Seq(W)
  BY <1>2, <1>3, <1>4, <1>5, StoppedScripts
<1>7. s \in Seq(W)
  BY <1>2, <1>4, <1>6, ConcatProperties
<1> QED BY <1>1, <1>7 DEF W

LEMMA ClarifyScripts ==
  ASSUME NEW r, NEW s \in handleClarify(r), s # <<>>
  PROVE  /\ r.state = "specifying" /\ r.spec
         /\ s \in Seq(ClarifyWrites(r))
<1> DEFINE W == ClarifyWrites(r)
<1>1. /\ r.state = "specifying" /\ r.spec
      /\ \/ s \in Stopped \/ s = Fail
         \/ s = <<To("specified"), Enq("produce_plan")>>
         \/ s = <<Save(r.ctx), To("awaiting_clarification")>>
  BY DEF handleClarify, Skip
<1>2. /\ {To("specified"), Enq("produce_plan"), Save(r.ctx),
          To("awaiting_clarification")} \subseteq W
      /\ Stops \subseteq W
  BY DEF ClarifyWrites
<1> HIDE DEF W
<1>3. s \in Seq(W)
  BY <1>1, <1>2, Tuples, StoppedScripts
<1> QED BY <1>1, <1>3 DEF W

LEMMA ResumeClarificationScripts ==
  ASSUME NEW r, NEW s \in handleResumeClarification(r), s # <<>>
  PROVE  /\ r.state = "awaiting_clarification" /\ r.spec
         /\ s \in Seq(ResumeClarificationWrites(r))
<1> DEFINE W == ResumeClarificationWrites(r)
<1>1. /\ r.state = "awaiting_clarification" /\ r.spec
      /\ \/ s \in Stopped
         \/ \E k \in SpecKind :
              s = <<RecordSpec, Save([r.ctx EXCEPT !.spec = k]),
                    To("specified"), Enq("produce_plan")>>
  BY DEF handleResumeClarification, Skip
<1>2. /\ {To("specified"), Enq("produce_plan"), RecordSpec} \subseteq W
      /\ Stops \subseteq W
      /\ \A k \in SpecKind : Save([r.ctx EXCEPT !.spec = k]) \in W
  BY DEF ResumeClarificationWrites, Specs
<1> HIDE DEF W
<1>3. \A k \in SpecKind :
        <<RecordSpec, Save([r.ctx EXCEPT !.spec = k]),
          To("specified"), Enq("produce_plan")>> \in Seq(W)
  BY <1>2, Tuples
<1>4. s \in Seq(W)
  BY <1>1, <1>2, <1>3, StoppedScripts
<1> QED BY <1>1, <1>4 DEF W

LEMMA ProducePlanScripts ==
  ASSUME NEW r, NEW s \in handleProducePlan(r), s # <<>>
  PROVE  /\ r.plan = 0 /\ r.state = "specified"
         /\ \/ /\ r.ctx.spec = "ready"
               /\ s \in PlanScripts(r.ctx, r.ctx.revisions)
            \/ s \in Seq(ReclarifyWrites(r))
<1> DEFINE W == ReclarifyWrites(r)
           c == [r.ctx EXCEPT !.reclarified = TRUE]
<1>1. /\ r.plan = 0 /\ r.state = "specified"
      /\ \/ /\ r.ctx.spec = "ready"
            /\ s \in PlanScripts(r.ctx, r.ctx.revisions)
         \/ s = <<Save(c), To("specifying"), Enq("clarify")>>
         \/ s = <<To("failed")>>
  BY DEF handleProducePlan, Skip, definitionOfReady, Fail
<1>2. {Save(c), To("specifying"), Enq("clarify"), To("failed")} \subseteq W
  BY DEF ReclarifyWrites
<1> HIDE DEF W, c
<1>3. s \in PlanScripts(r.ctx, r.ctx.revisions) \/ s \in Seq(W)
  BY <1>1, <1>2, Tuples
<1> QED BY <1>1, <1>2, <1>3, Tuples DEF W

LEMMA ResumePlanDecisionScripts ==
  ASSUME NEW r, NEW j, NEW s \in handleResumePlanDecision(r, j), s # <<>>
  PROVE  /\ r.state = "awaiting_plan_approval"
         /\ \/ s \in Seq(DecideWrites(j))
            \/ /\ ~RevisionsSpent(r.ctx)
               /\ s \in PlanScripts(r.ctx, r.ctx.revisions + 1)
<1> DEFINE W == DecideWrites(j)
<1>1. /\ r.state = "awaiting_plan_approval"
      /\ \/ s = <<Approve(j.seen), Enq("implement")>>
         \/ s = <<To("aborted")>>
         \/ /\ ~RevisionsSpent(r.ctx)
            /\ s \in PlanScripts(r.ctx, r.ctx.revisions + 1)
  BY DEF handleResumePlanDecision, Skip
<1>2. {Approve(j.seen), Enq("implement"), To("aborted")} \subseteq W
  BY DEF DecideWrites
<1> HIDE DEF W
<1>3. <<Approve(j.seen), Enq("implement")>> \in Seq(W)
      /\ <<To("aborted")>> \in Seq(W)
  BY <1>2, Tuples
<1> QED BY <1>1, <1>3 DEF W

LEMMA ImplementScripts ==
  ASSUME NEW r, NEW s \in handleImplement(r), s # <<>>
  PROVE  /\ r.state = "implementing" /\ r.plan # 0
         /\ s \in Seq(ImplementWrites(r))
<1> DEFINE W == ImplementWrites(r)
<1>1. r.state = "implementing" /\ r.plan # 0
  BY DEF handleImplement, Skip
<1>2. \/ s \in {<<Refuse>>, Fail}
      \/ \E b \in {<<>>, <<Bootstrap(r.plan)>>}, d \in Decompositions(r) :
           s = b \o d
  BY DEF handleImplement, Skip
<1>3. /\ {Bootstrap(r.plan), ListTasks(r.ctx)} \subseteq W
      /\ Stops \subseteq W
      /\ \A i \in Nat, n \in Nat : RecordTask(r.plan, i, n) \in W
  BY DEF ImplementWrites
<1> HIDE DEF W
<1>4. /\ <<>> \in Seq(W) /\ <<Bootstrap(r.plan)>> \in Seq(W)
      /\ <<ListTasks(r.ctx)>> \in Seq(W) /\ Stopped \subseteq Seq(W)
  BY <1>3, Tuples, StoppedScripts
<1>5. ASSUME NEW n \in 0 .. MaxTasks
      PROVE  RecordTasks(r.plan, n) \o <<ListTasks(r.ctx)>> \in Seq(W)
  <2>1. n \in Nat /\ \A i \in 1 .. n : RecordTask(r.plan, i, n) \in W
    BY <1>3, TasksAssumption
  <2>2. RecordTasks(r.plan, n) \in Seq(W)
    <3> DEFINE e(i) == RecordTask(r.plan, i, n)
    <3>1. \A i \in 1 .. n : e(i) \in W
      BY <2>1
    <3>2. [i \in 1 .. n |-> e(i)] \in Seq(W)
      <4> HIDE DEF e
      <4> QED BY <2>1, <3>1
    <3> QED BY <3>2 DEF RecordTasks
  <2> QED BY <1>4, <2>2, ConcatProperties
<1>6. Decompositions(r) \subseteq Seq(W)
  BY <1>4, <1>5 DEF Decompositions
<1>7. s \in Seq(W)
  BY <1>2, <1>3, <1>4, <1>6, ConcatProperties, StoppedScripts DEF Stopped
<1> QED BY <1>1, <1>7 DEF W

LEMMA TaskScripts ==
  ASSUME NEW c, NEW left, NEW s \in TaskLoop(c, left)
  PROVE  s \in Seq(TaskWrites(c, left))
<1> DEFINE W == TaskWrites(c, left)
<1>1. CASE left = {}
  <2>1. {To("reviewing"), Enq("review")} \subseteq W
    BY <1>1 DEF TaskWrites
  <2>2. s = <<To("reviewing"), Enq("review")>>
    BY <1>1 DEF TaskLoop
  <2> QED BY <2>1, <2>2, Tuples
<1>2. CASE left # {}
  <2>1. To("awaiting_impl_help") \in W /\ Stops \subseteq W
    BY <1>2 DEF TaskWrites
  <2>2. ASSUME NEW t \in left
        PROVE  {Save([c EXCEPT !.help.task = t]), Save(Cleared(c, t)),
                TaskDone(t), Commit(t),
                Tasks(Cleared(c, t), left \ {t})} \subseteq W
    BY <1>2 DEF TaskWrites
  <2> HIDE DEF W
  <2>3. ASSUME NEW t \in left
        PROVE  /\ <<TaskDone(t)>> \in Seq(W)
               /\ ClearHelp(c, t) \in Seq(W)
               /\ <<Tasks(Cleared(c, t), left \ {t})>> \in Seq(W)
               /\ <<Commit(t)>> \in Seq(W)
    BY <2>2, Tuples DEF ClearHelp
  <2>4. ASSUME NEW t \in left
        PROVE  <<Save([c EXCEPT !.help.task = t]),
                 To("awaiting_impl_help")>> \in Seq(W)
    BY <2>1, <2>2, Tuples
  <2>5. ASSUME NEW t \in left
        PROVE  /\ Landed(c, t, left) \in Seq(W)
               /\ <<Commit(t)>> \o Landed(c, t, left) \in Seq(W)
    <3>1. Landed(c, t, left) \in Seq(W)
      BY <2>3, ConcatProperties DEF Landed
    <3> QED BY <2>3, <3>1, ConcatProperties
  <2>6. \/ s \in Stopped
        \/ \E t \in left :
             s \in {<<Save([c EXCEPT !.help.task = t]),
                      To("awaiting_impl_help")>>,
                    Landed(c, t, left), <<Commit(t)>> \o Landed(c, t, left)}
    BY <1>2 DEF TaskLoop, FirstOf
  <2>7. s \in Seq(W)
    BY <2>1, <2>4, <2>5, <2>6, StoppedScripts
  <2> QED BY <2>7 DEF W
<1> QED BY <1>1, <1>2

LEMMA ResumeImplementationScripts ==
  ASSUME NEW r, NEW j, NEW s \in handleResumeImplementation(r, j), s # <<>>
  PROVE  /\ r.state = "awaiting_impl_help"
         /\ s \in Seq(ResumeImplementationWrites(r))
<1> DEFINE W == ResumeImplementationWrites(r)
           c == [r.ctx EXCEPT !.help.rounds = @ + 1]
<1>1. /\ r.state = "awaiting_impl_help"
      /\ \/ s = <<To("aborted")>> \/ s = <<To("failed")>>
         \/ s = <<Save(c), To("implementing"), Enq("implement")>>
  BY DEF handleResumeImplementation, Skip, Fail
<1>2. {To("aborted"), To("failed"), Save(c), To("implementing"),
       Enq("implement")} \subseteq W
  BY DEF ResumeImplementationWrites
<1> HIDE DEF W, c
<1>3. s \in Seq(W)
  BY <1>1, <1>2, Tuples
<1> QED BY <1>1, <1>3 DEF W

LEMMA ReviewScripts ==
  ASSUME NEW r, NEW s \in handleReview(r), s # <<>>
  PROVE  r.state = "reviewing" /\ s \in Seq(ReviewWrites)
<1>1. /\ r.state = "reviewing"
      /\ s \in Stopped \/ s = <<To("awaiting_pr_review")>>
  BY DEF handleReview, Skip
<1>2. To("awaiting_pr_review") \in ReviewWrites /\ Stops \subseteq ReviewWrites
  BY DEF ReviewWrites
<1>3. s \in Seq(ReviewWrites)
  BY <1>1, <1>2, Tuples, StoppedScripts
<1> QED BY <1>1, <1>3

LEMMA FixScripts ==
  ASSUME NEW r, NEW j, NEW s \in handleFix(r, j), s # <<>>
  PROVE  /\ r.state = "awaiting_pr_review"
         /\ \/ s \in Seq(FixWrites(j))
            \/ ~FixRoundsSpent(r.ctx) /\ s = Fixed(r.ctx)
<1> DEFINE W == FixWrites(j)
<1>1. /\ r.state = "awaiting_pr_review"
      /\ \/ s \in Stopped \/ s = Fail
         \/ s = <<To("awaiting_plan_approval"),
                  Forward("resume_plan_decision", j)>>
         \/ ~FixRoundsSpent(r.ctx) /\ s = Fixed(r.ctx)
  BY DEF handleFix, Skip, Fixed
<1>2. /\ {To("awaiting_plan_approval"), Forward("resume_plan_decision", j)}
           \subseteq W
      /\ Stops \subseteq W
  BY DEF FixWrites
<1> HIDE DEF W
<1>3. <<To("awaiting_plan_approval"), Forward("resume_plan_decision", j)>>
        \in Seq(W)
  BY <1>2, Tuples
<1>4. Stopped \subseteq Seq(W) /\ Fail \in Seq(W)
  BY <1>2, StoppedScripts
<1> QED BY <1>1, <1>3, <1>4 DEF W

(* What a handler writes is in W if each handler's writes are, under its   *)
(* guards; the scripts that end at the plan gate and the one of a fix are  *)
(* told apart.                                                             *)
PlanScript(r, s) ==
  \/ /\ r.state = "specified" /\ r.plan = 0 /\ r.ctx.spec = "ready"
     /\ s \in PlanScripts(r.ctx, r.ctx.revisions)
  \/ /\ r.state = "awaiting_plan_approval" /\ ~RevisionsSpent(r.ctx)
     /\ s \in PlanScripts(r.ctx, r.ctx.revisions + 1)
FixScript(r, s) ==
  /\ r.state = "awaiting_pr_review" /\ ~FixRoundsSpent(r.ctx)
  /\ s = Fixed(r.ctx)

GuardedWrites(j, r, W) ==
  /\ r.state = "received" => IssueOpenedWrites \subseteq W
  /\ ~r.spec => ProduceSpecWrites(r) \subseteq W
  /\ r.state = "specifying" /\ r.spec => ClarifyWrites(r) \subseteq W
  /\ r.state = "awaiting_clarification" /\ r.spec =>
       ResumeClarificationWrites(r) \subseteq W
  /\ r.state = "specified" /\ r.plan = 0 => ReclarifyWrites(r) \subseteq W
  /\ r.state = "awaiting_plan_approval" => DecideWrites(j) \subseteq W
  /\ r.state = "implementing" /\ r.plan # 0 => ImplementWrites(r) \subseteq W
  /\ r.state = "awaiting_impl_help" => ResumeImplementationWrites(r) \subseteq W
  /\ r.state = "reviewing" => ReviewWrites \subseteq W
  /\ r.state = "awaiting_pr_review" => FixWrites(j) \subseteq W

LEMMA Dispatched ==
  ASSUME NEW W, NEW j \in Job, NEW r, NEW s \in dispatch(j, r),
         GuardedWrites(j, r, W)
  PROVE  s \in Seq(W) \/ PlanScript(r, s) \/ FixScript(r, s)
<1> USE DEF GuardedWrites
<1>0. CASE s = <<>>
  BY <1>0
<1> SUFFICES ASSUME s # <<>>
             PROVE  s \in Seq(W) \/ PlanScript(r, s) \/ FixScript(r, s)
  BY <1>0
<1>1. CASE s \in handleIssueOpened(r)
  <2>1. r.state = "received" /\ s \in Seq(IssueOpenedWrites)
    BY <1>1, IssueOpenedScripts
  <2> QED BY <2>1, SeqMonotonic
<1>2. CASE s \in handleProduceSpec(r)
  <2>1. ~r.spec /\ s \in Seq(ProduceSpecWrites(r))
    BY <1>2, ProduceSpecScripts
  <2> QED BY <2>1, SeqMonotonic
<1>3. CASE s \in handleClarify(r)
  <2>1. r.state = "specifying" /\ r.spec /\ s \in Seq(ClarifyWrites(r))
    BY <1>3, ClarifyScripts
  <2> QED BY <2>1, SeqMonotonic
<1>4. CASE s \in handleResumeClarification(r)
  <2>1. /\ r.state = "awaiting_clarification" /\ r.spec
        /\ s \in Seq(ResumeClarificationWrites(r))
    BY <1>4, ResumeClarificationScripts
  <2> QED BY <2>1, SeqMonotonic
<1>5. CASE s \in handleProducePlan(r)
  <2>1. /\ r.plan = 0 /\ r.state = "specified"
        /\ \/ /\ r.ctx.spec = "ready"
              /\ s \in PlanScripts(r.ctx, r.ctx.revisions)
           \/ s \in Seq(ReclarifyWrites(r))
    BY <1>5, ProducePlanScripts
  <2> QED BY <2>1, SeqMonotonic DEF PlanScript
<1>6. CASE s \in handleResumePlanDecision(r, j)
  <2>1. /\ r.state = "awaiting_plan_approval"
        /\ \/ s \in Seq(DecideWrites(j))
           \/ /\ ~RevisionsSpent(r.ctx)
              /\ s \in PlanScripts(r.ctx, r.ctx.revisions + 1)
    BY <1>6, ResumePlanDecisionScripts
  <2> QED BY <2>1, SeqMonotonic DEF PlanScript
<1>7. CASE s \in handleImplement(r)
  <2>1. /\ r.state = "implementing" /\ r.plan # 0
        /\ s \in Seq(ImplementWrites(r))
    BY <1>7, ImplementScripts
  <2> QED BY <2>1, SeqMonotonic
<1>8. CASE s \in handleResumeImplementation(r, j)
  <2>1. /\ r.state = "awaiting_impl_help"
        /\ s \in Seq(ResumeImplementationWrites(r))
    BY <1>8, ResumeImplementationScripts
  <2> QED BY <2>1, SeqMonotonic
<1>9. CASE s \in handleReview(r)
  <2>1. r.state = "reviewing" /\ s \in Seq(ReviewWrites)
    BY <1>9, ReviewScripts
  <2> QED BY <2>1, SeqMonotonic
<1>10. CASE s \in handleFix(r, j)
  <2>1. /\ r.state = "awaiting_pr_review"
        /\ \/ s \in Seq(FixWrites(j))
           \/ ~FixRoundsSpent(r.ctx) /\ s = Fixed(r.ctx)
    BY <1>10, FixScripts
  <2> QED BY <2>1, SeqMonotonic DEF FixScript
<1>11. j.type \in JobType
  BY DEF Job
<1> QED
  BY <1>1, <1>2, <1>3, <1>4, <1>5, <1>6, <1>7, <1>8, <1>9, <1>10, <1>11
  DEF dispatch, JobType

-----------------------------------------------------------------------------
(* Types.                                                                  *)
LEMMA WriteTypes ==
  /\ \A s \in RunState : To(s) \in Write
  /\ \A type \in JobType : Enq(type) \in Write
  /\ \A type \in JobType, j \in Job : Forward(type, j) \in Write
  /\ \A c \in Context : Save(c) \in Write /\ ListTasks(c) \in Write
  /\ \A c \in Context, n \in Nat : RecordPlan(c, n) \in Write
  /\ \A v \in Nat : Present(v) \in Write /\ Bootstrap(v) \in Write
                    /\ Approve(v) \in Write /\ Commit(v) \in Write
                    /\ TaskDone(v) \in Write
  /\ \A v \in Nat, i \in Nat, n \in Nat : RecordTask(v, i, n) \in Write
  /\ \A c \in Context, left \in SUBSET Nat : Tasks(c, left) \in Write
  /\ {RecordSpec, FixCommit, Refuse, Refused, CloseRun} \subseteq Write
<1> USE DEF Write
<1>1. \A s \in RunState : To(s) \in Write
  BY DEF To
<1>2. \A type \in JobType : Enq(type) \in Write
  BY DEF Enq, NewJob, Job, Body
<1>3. \A type \in JobType, j \in Job : Forward(type, j) \in Write
  BY DEF Forward, NewJob, Job
<1>4. \A c \in Context : Save(c) \in Write /\ ListTasks(c) \in Write
  BY DEF Save, ListTasks
<1>5. \A c \in Context, n \in Nat : RecordPlan(c, n) \in Write
  BY DEF RecordPlan
<1>6. \A v \in Nat : Present(v) \in Write /\ Bootstrap(v) \in Write
  BY DEF Present, Bootstrap
<1>7. \A v \in Nat : Approve(v) \in Write
  BY DEF Approve
<1>8. \A v \in Nat : Commit(v) \in Write /\ TaskDone(v) \in Write
  BY DEF Commit, TaskDone
<1>9. \A v \in Nat, i \in Nat, n \in Nat : RecordTask(v, i, n) \in Write
  BY DEF RecordTask
<1>10. \A c \in Context, left \in SUBSET Nat : Tasks(c, left) \in Write
  BY DEF Tasks
<1>11. {RecordSpec, FixCommit, Refuse, Refused, CloseRun} \subseteq Write
  BY DEF RecordSpec, FixCommit, Refuse, Refused, CloseRun
<1> HIDE DEF Write
<1> QED BY <1>1, <1>2, <1>3, <1>4, <1>5, <1>6, <1>7, <1>8, <1>9, <1>10, <1>11

LEMMA FieldTypes ==
  ASSUME NEW e \in Write
  PROVE  /\ e.op = "move" => e.to \in RunState
         /\ e.op = "enqueue" => e.job \in Job
         /\ e.op \in {"save", "list", "plan", "tasks"} => e.ctx \in Context
         /\ e.op = "plan" => e.revisions \in Nat
         /\ e.op \in {"present", "bootstrap", "task"} => e.plan \in Nat
         /\ e.op = "approve" => e.seen \in Nat
         /\ e.op = "task" => e.idx \in Nat /\ e.total \in Nat
         /\ e.op = "tasks" => e.left \in SUBSET Nat
         /\ e.op \in {"commit", "taskDone"} => e.task \in Nat
BY DEF Write

(* What a handler has loaded.                                              *)
Snapshot ==
  [state : RunState, ctx : Context, spec : BOOLEAN, plan : Nat, tasks : Nat]

LEMMA ContextTypes ==
  ASSUME NEW c \in Context
  PROVE  /\ c.spec \in SpecKind \cup {"none"} /\ c.reclarified \in BOOLEAN
         /\ c.plan \in Nat /\ c.revisions \in Nat /\ c.fixes \in Nat
         /\ c.help \in [task : Nat, rounds : Nat]
         /\ \A k \in SpecKind : [c EXCEPT !.spec = k] \in Context
         /\ [c EXCEPT !.reclarified = TRUE] \in Context
         /\ \A t \in Nat : /\ [c EXCEPT !.help.task = t] \in Context
                           /\ Cleared(c, t) \in Context
         /\ [c EXCEPT !.help.rounds = @ + 1] \in Context
         /\ [c EXCEPT !.fixes = @ + 1] \in Context
         /\ \A v \in Nat, n \in Nat :
              [c EXCEPT !.plan = v, !.revisions = n] \in Context
<1>0. /\ c.spec \in SpecKind \cup {"none"} /\ c.reclarified \in BOOLEAN
      /\ c.plan \in Nat /\ c.revisions \in Nat /\ c.fixes \in Nat
      /\ c.help \in [task : Nat, rounds : Nat]
  BY DEF Context
<1>1. \A k \in SpecKind : [c EXCEPT !.spec = k] \in Context
  BY DEF Context
<1>2. [c EXCEPT !.reclarified = TRUE] \in Context
  BY DEF Context
<1>3. \A t \in Nat : [c EXCEPT !.help.task = t] \in Context
  BY DEF Context
<1>4. \A t \in Nat : Cleared(c, t) \in Context
  BY DEF Context, Cleared, NoHelp
<1>5. [c EXCEPT !.help.rounds = @ + 1] \in Context
  BY DEF Context
<1>6. [c EXCEPT !.fixes = @ + 1] \in Context
  BY DEF Context
<1>7. \A v \in Nat, n \in Nat :
        [c EXCEPT !.plan = v, !.revisions = n] \in Context
  BY DEF Context
<1> QED BY <1>0, <1>1, <1>2, <1>3, <1>4, <1>5, <1>6, <1>7

LEMMA StateTypes ==
  /\ {"received", "acknowledged", "specifying", "specified", "planning",
      "implementing", "reviewing", "awaiting_clarification",
      "awaiting_plan_approval", "awaiting_impl_help", "awaiting_pr_review",
      "unsupported", "failed", "aborted"} \subseteq RunState
  /\ Gates \subseteq RunState
BY DEF RunState, Transient, Gates, Terminal

(* A set that has the writes other than those of the tasks, and the moves  *)
(* to the states in S, has what the handlers write before implementing.    *)
Covers(W, S) ==
  /\ \A s \in S : To(s) \in W
  /\ \A type \in JobType : Enq(type) \in W
  /\ \A type \in JobType, j \in Job : Forward(type, j) \in W
  /\ \A c \in Context : Save(c) \in W
  /\ \A c \in Context, n \in Nat : RecordPlan(c, n) \in W
  /\ \A v \in Nat : Present(v) \in W /\ Approve(v) \in W
  /\ {RecordSpec, FixCommit, Refuse, Refused, CloseRun} \subseteq W

OrdinaryStates ==
  {"received", "acknowledged", "specifying", "specified", "planning",
   "awaiting_clarification", "awaiting_plan_approval", "awaiting_pr_review",
   "unsupported", "failed", "aborted"}

LEMMA HandlersCovered ==
  ASSUME NEW W, NEW S, Covers(W, S), OrdinaryStates \subseteq S,
         NEW j \in Job, NEW r \in Snapshot,
         r.state = "implementing" => ImplementWrites(r) \subseteq W,
         r.state = "awaiting_impl_help" => "implementing" \in S
  PROVE  /\ GuardedWrites(j, r, W)
         /\ \A s : PlanScript(r, s) \/ FixScript(r, s) => s \in Seq(W)
<1>0. r.ctx \in Context /\ r.plan \in Nat /\ j.seen \in Nat
      /\ r.ctx.revisions \in Nat
  BY ContextTypes DEF Snapshot, Job
<1>00. /\ \A s \in OrdinaryStates : To(s) \in W
       /\ \A type \in JobType : Enq(type) \in W
       /\ \A type \in JobType : Forward(type, j) \in W
       /\ \A c \in Context : Save(c) \in W
       /\ \A n \in Nat : RecordPlan(r.ctx, n) \in W
       /\ \A v \in Nat : Approve(v) \in W
       /\ RecordSpec \in W /\ FixCommit \in W /\ Refuse \in W
  BY <1>0 DEF Covers
<1>1. Stops \subseteq W
  BY <1>00 DEF Stops, OrdinaryStates
<1>2. IssueOpenedWrites \subseteq W
  BY <1>00 DEF IssueOpenedWrites, JobType, OrdinaryStates
<1>3. Specs(r.ctx) \subseteq W
  BY <1>0, <1>00, ContextTypes DEF Specs
<1>4. ProduceSpecWrites(r) \subseteq W
  BY <1>1, <1>3, <1>00 DEF ProduceSpecWrites, JobType, OrdinaryStates
<1>5. ClarifyWrites(r) \subseteq W
  BY <1>0, <1>1, <1>00 DEF ClarifyWrites, JobType, OrdinaryStates
<1>6. ResumeClarificationWrites(r) \subseteq W
  BY <1>1, <1>3, <1>00 DEF ResumeClarificationWrites, JobType, OrdinaryStates
<1>7. ReclarifyWrites(r) \subseteq W
  BY <1>0, ContextTypes, <1>00 DEF ReclarifyWrites, JobType, OrdinaryStates
<1>8. DecideWrites(j) \subseteq W
  BY <1>0, <1>00 DEF DecideWrites, JobType, OrdinaryStates
<1>9. r.state = "awaiting_impl_help" =>
        ResumeImplementationWrites(r) \subseteq W
  BY <1>0, <1>00, ContextTypes
  DEF ResumeImplementationWrites, JobType, OrdinaryStates, Covers
<1>10. ReviewWrites \subseteq W
  BY <1>1, <1>00 DEF ReviewWrites, OrdinaryStates
<1>11. FixWrites(j) \subseteq W
  BY <1>1, <1>00 DEF FixWrites, JobType, OrdinaryStates
<1>12. \A n \in Nat : PlanScripts(r.ctx, n) \subseteq Seq(W)
  <2> TAKE n \in Nat
  <2>1. {To("failed"), Refuse, RecordPlan(r.ctx, n), To("planning")}
          \subseteq W
    BY <1>0, <1>00 DEF OrdinaryStates
  <2> QED BY <2>1, Tuples DEF PlanScripts
<1>13. Fixed(r.ctx) \in Seq(W)
  <2>1. /\ FixCommit \in W
        /\ Save([r.ctx EXCEPT !.fixes = @ + 1]) \in W
    BY <1>0, <1>00, ContextTypes
  <2> QED BY <2>1, Tuples DEF Fixed
<1>14. GuardedWrites(j, r, W)
  BY <1>2, <1>4, <1>5, <1>6, <1>7, <1>8, <1>9, <1>10, <1>11 DEF GuardedWrites
<1>15. \A s : PlanScript(r, s) \/ FixScript(r, s) => s \in Seq(W)
  BY <1>0, <1>12, <1>13 DEF PlanScript, FixScript
<1> QED BY <1>14, <1>15

LEMMA HandlersTyped ==
  ASSUME NEW j \in Job, NEW r \in Snapshot
  PROVE  /\ GuardedWrites(j, r, Write)
         /\ \A s : PlanScript(r, s) \/ FixScript(r, s) => s \in Seq(Write)
<1>1. Covers(Write, RunState)
  BY WriteTypes DEF Covers
<1>2. OrdinaryStates \subseteq RunState /\ "implementing" \in RunState
  BY StateTypes DEF OrdinaryStates
<1>3. r.ctx \in Context /\ r.plan \in Nat
  BY DEF Snapshot
<1>4. Stops \subseteq Write
  BY WriteTypes, StateTypes DEF Stops
<1>5. ImplementWrites(r) \subseteq Write
  BY <1>3, <1>4, WriteTypes DEF ImplementWrites
<1> QED BY <1>1, <1>2, <1>5, HandlersCovered

LEMMA InitTyped == Init => TypeOK
<1> SUFFICES ASSUME Init PROVE TypeOK
  OBVIOUS
<1>1. state \in RunState /\ ctx \in Context
  BY DEF Init, RunState, EmptyContext, Context, NoHelp
<1>2. fresh \in Seq(Job) /\ again \in Seq(Job)
  BY DEF Init
<1>3. todo \in [Worker -> Seq(Write)]
  BY Tuples DEF Init
<1>4. job \in [Worker -> Job \cup {NoJob}] /\ spec \in BOOLEAN /\ sweep \in BOOLEAN
  BY DEF Init
<1>5. tasks \in [plan : Nat, n : Nat, total : Nat, done : SUBSET Nat]
  BY DEF Init, NoTasks
<1>6. env \in [opened : BOOLEAN, comments : Nat, throws : Nat, crashes : Nat,
               sweeps : Nat]
  BY DEF Init
<1>7. hist \in [plans : Nat, shown : Nat, agreed : SUBSET Nat,
                released : SUBSET Nat, built : SUBSET Nat, fixes : Nat]
  BY DEF Init, NoHistory
<1>8. plan \in Nat /\ \A w \in Worker : todo[w] = <<>>
  BY DEF Init
<1> QED BY <1>1, <1>2, <1>3, <1>4, <1>5, <1>6, <1>7, <1>8 DEF TypeOK

Happenings ==
  [opened : BOOLEAN, comments : Nat, throws : Nat, crashes : Nat, sweeps : Nat]
LEMMA EnvTyped ==
  ASSUME env \in Happenings
  PROVE  /\ [env EXCEPT !.opened = TRUE] \in Happenings
         /\ [env EXCEPT !.comments = @ + 1] \in Happenings
         /\ [env EXCEPT !.throws = @ + 1] \in Happenings
         /\ [env EXCEPT !.throws = @] \in Happenings
         /\ [env EXCEPT !.crashes = @ + 1] \in Happenings
         /\ [env EXCEPT !.sweeps = @ + 1] \in Happenings
<1>1. [env EXCEPT !.opened = TRUE] \in Happenings
  <2>1. TRUE \in BOOLEAN
    OBVIOUS
  <2> QED BY <2>1 DEF Happenings
<1>2. [env EXCEPT !.comments = @ + 1] \in Happenings
  BY DEF Happenings
<1>3. [env EXCEPT !.throws = @ + 1] \in Happenings
  BY DEF Happenings
<1>4. [env EXCEPT !.throws = @] \in Happenings
  BY DEF Happenings
<1>5. [env EXCEPT !.crashes = @ + 1] \in Happenings
  BY DEF Happenings
<1>6. [env EXCEPT !.sweeps = @ + 1] \in Happenings
  BY DEF Happenings
<1> QED BY <1>1, <1>2, <1>3, <1>4, <1>5, <1>6

LEMMA JobsTyped ==
  ASSUME TypeOK
  PROVE  /\ NewJob("issue_opened", "none", 0) \in Job
         /\ \A body \in Bodies : state \in Gates =>
              NewJob(GateJob[state], body, hist.shown) \in Job
         /\ \A j \in Job : Append(fresh, j) \in Seq(Job)
                           /\ Append(again, j) \in Seq(Job)
<1>1. NewJob("issue_opened", "none", 0) \in Job
  BY DEF NewJob, Job, JobType, Body
<1>2. ASSUME NEW body \in Bodies, state \in Gates
      PROVE  NewJob(GateJob[state], body, hist.shown) \in Job
  <2>1. GateJob[state] \in JobType
    BY <1>2 DEF Gates, GateJob, JobType
  <2>2. body \in Body /\ hist.shown \in Nat
    BY BodiesAssumption DEF TypeOK
  <2> QED BY <2>1, <2>2 DEF NewJob, Job
<1>3. \A j \in Job : Append(fresh, j) \in Seq(Job)
                     /\ Append(again, j) \in Seq(Job)
  BY DEF TypeOK
<1> QED BY <1>1, <1>2, <1>3

(* A worker that proceeds replaces the write it has done by a script, and  *)
(* keeps its job.                                                          *)
LEMMA Proceeds ==
  ASSUME NEW w \in Worker, NEW S, NEW s \in Seq(S), todo[w] \in Seq(S),
         todo[w] # <<>>, todo \in [Worker -> Seq(Write)], Proceed(w, s)
  PROVE  /\ todo'[w] = s \o Tail(todo[w]) /\ todo'[w] \in Seq(S)
         /\ \A v \in Worker : v # w => todo'[v] = todo[v]
         /\ UNCHANGED <<job, sweep, env>>
<1>1. todo'[w] = s \o Tail(todo[w])
  BY DEF Proceed
<1>2. Tail(todo[w]) \in Seq(S)
  BY HeadTailProperties
<1> QED BY <1>1, <1>2, ConcatProperties DEF Proceed

LEMMA ProceedsTyped ==
  ASSUME TypeOK, NEW w \in Worker, NEW s \in Seq(Write), todo[w] # <<>>,
         Proceed(w, s)
  PROVE  /\ todo' \in [Worker -> Seq(Write)]
         /\ UNCHANGED <<job, sweep, env>>
         /\ \A v \in Worker : (~Busy(v) => todo[v] = <<>>)'
<1>1. todo[w] \in Seq(Write) /\ todo \in [Worker -> Seq(Write)]
  BY DEF TypeOK
<1>2. /\ todo'[w] \in Seq(Write) /\ UNCHANGED <<job, sweep, env>>
      /\ \A v \in Worker : v # w => todo'[v] = todo[v]
  BY <1>1, Proceeds
<1>3. todo' \in [Worker -> Seq(Write)]
  BY <1>1, <1>2 DEF Proceed
<1>4. Busy(w)
  BY DEF TypeOK
<1> QED BY <1>2, <1>3, <1>4 DEF TypeOK, Busy

LEMMA DoingTyped ==
  ASSUME TypeOK, NEW w \in Worker, todo[w] # <<>>
  PROVE  /\ Effect(w) \in Write /\ Busy(w) /\ job[w] \in Job
         /\ todo[w] \in Seq(Write) /\ Tail(todo[w]) \in Seq(Write)
<1>1. todo[w] \in Seq(Write)
  BY DEF TypeOK
<1>2. Busy(w) /\ job[w] \in Job
  BY DEF TypeOK, Busy
<1> QED BY <1>1, <1>2, HeadTailProperties DEF Effect

LEMMA LetGoTyped ==
  ASSUME TypeOK, NEW w \in Worker, LetGo(w)
  PROVE  /\ job' \in [Worker -> Job \cup {NoJob}]
         /\ todo' \in [Worker -> Seq(Write)]
         /\ \A v \in Worker : (~Busy(v) => todo[v] = <<>>)'
         /\ todo'[w] = <<>> /\ \A v \in Worker : v # w => todo'[v] = todo[v]
<1>1. <<>> \in Seq(Write)
  BY Tuples
<1> QED BY <1>1 DEF LetGo, TypeOK, Busy

LEMMA StartTyped ==
  ASSUME TypeOK, NEW w \in Worker, NEW j \in Job, Start(w, j)
  PROVE  /\ Loaded(j) \in Snapshot /\ state' = Loaded(j).state
         /\ state' \in RunState
         /\ job' \in [Worker -> Job \cup {NoJob}]
         /\ todo' \in [Worker -> Seq(Write)]
         /\ \A v \in Worker : (~Busy(v) => todo[v] = <<>>)'
         /\ todo'[w] \in dispatch(j, Loaded(j)) /\ todo[w] = <<>>
         /\ \A v \in Worker : v # w => todo'[v] = todo[v]
<1>1. Loaded(j) \in Snapshot
  BY StateTypes DEF Loaded, Snapshot, TypeOK
<1>2. PICK s \in dispatch(j, Loaded(j)) : todo' = [todo EXCEPT ![w] = s]
  BY DEF Start
<1>3. s \in Seq(Write)
  BY <1>1, Dispatched, HandlersTyped
<1>4. [j EXCEPT !.attempts = @ + 1] \in Job
  BY DEF Job
<1>5. job' \in [Worker -> Job \cup {NoJob}] /\ job'[w] \in Job
  BY <1>4 DEF Start, TypeOK
<1>6. NoJob \notin Job
  BY DEF NoJob, Job, JobType
<1>7. \A v \in Worker : (~Busy(v) => todo[v] = <<>>)'
  BY <1>2, <1>5, <1>6 DEF Start, TypeOK, Busy
<1> QED BY <1>1, <1>2, <1>3, <1>5, <1>7 DEF Start, TypeOK, Snapshot

LEMMA RemoveTyped ==
  ASSUME NEW S, NEW s \in Seq(S), NEW i \in DOMAIN s
  PROVE  RemoveAt(s, i) \in Seq(S) /\ s[i] \in S
BY DEF RemoveAt

LEMMA TaskLoopTyped ==
  ASSUME NEW c \in Context, NEW left \in SUBSET Nat
  PROVE  TaskLoop(c, left) \subseteq Seq(Write)
<1>1. Stops \subseteq Write /\ To("reviewing") \in Write
      /\ To("awaiting_impl_help") \in Write /\ Enq("review") \in Write
  BY WriteTypes, StateTypes DEF Stops, JobType
<1>2. ASSUME NEW t \in left
      PROVE  /\ Save([c EXCEPT !.help.task = t]) \in Write
             /\ Save(Cleared(c, t)) \in Write /\ TaskDone(t) \in Write
             /\ Commit(t) \in Write
             /\ Tasks(Cleared(c, t), left \ {t}) \in Write
  <2>1. t \in Nat /\ left \ {t} \in SUBSET Nat
    OBVIOUS
  <2> QED BY <2>1, WriteTypes, ContextTypes
<1>3. TaskWrites(c, left) \subseteq Write
  BY <1>1, <1>2 DEF TaskWrites
<1> QED BY <1>3, TaskScripts, SeqMonotonic

(* Every write keeps the types, whatever the script it is part of.         *)
LEMMA PerformTyped ==
  ASSUME TypeOK, NEW w \in Worker, Perform(w)
  PROVE  TypeOK'
<1> DEFINE e == Effect(w)
<1>0. <<>> \in Seq(Write)
  BY Tuples
<1>1. todo[w] # <<>>
  BY DEF Perform, Doing, Move, ApprovePlan, Enqueue, SaveContext,
     RecordSpecArtifact, RecordPlanArtifact, PresentPlan, InsertTask,
     GetTasks, NextTask, CommitCode, UpdateTask, RefuseRun
<1>2. e \in Write /\ e.op = Head(todo[w]).op
  BY <1>1, DoingTyped DEF Effect
<1> DEFINE HandsTyped ==
             /\ (todo \in [Worker -> Seq(Write)])'
             /\ UNCHANGED <<job, sweep, env>>
             /\ \A v \in Worker : (~Busy(v) => todo[v] = <<>>)'
<1>3. ASSUME NEW s \in Seq(Write), Proceed(w, s)
      PROVE  HandsTyped
  BY <1>1, <1>3, ProceedsTyped
<1> HIDE DEF HandsTyped
<1>4. CASE Move(w)
  <2>1. HandsTyped
    BY <1>0, <1>3, <1>4 DEF Move
  <2>2. state' \in RunState
    BY <1>2, <1>4, FieldTypes DEF Move, Doing
  <2> QED BY <1>4, <2>1, <2>2 DEF Move, TypeOK, queue, HandsTyped
<1>5. CASE ApprovePlan(w)
  <2>1. HandsTyped
    BY <1>0, <1>3, <1>5 DEF ApprovePlan
  <2>2. state' \in RunState
    BY <1>5, StateTypes DEF ApprovePlan
  <2>3. e.seen \in Nat
    BY <1>2, <1>5, FieldTypes DEF ApprovePlan, Doing
  <2>4. hist' \in [plans : Nat, shown : Nat, agreed : SUBSET Nat,
                   released : SUBSET Nat, built : SUBSET Nat, fixes : Nat]
    BY <1>5, <2>3 DEF ApprovePlan, TypeOK
  <2> QED BY <1>5, <2>1, <2>2, <2>4 DEF ApprovePlan, TypeOK, queue, HandsTyped
<1>6. CASE Enqueue(w)
  <2>1. HandsTyped
    BY <1>0, <1>3, <1>6 DEF Enqueue
  <2>2. e.job \in Job
    BY <1>2, <1>6, FieldTypes DEF Enqueue, Doing
  <2>3. fresh' \in Seq(Job)
    BY <1>6, <2>2 DEF Enqueue, TypeOK
  <2> QED BY <1>6, <2>1, <2>3 DEF Enqueue, TypeOK, run, HandsTyped
<1>7. CASE SaveContext(w)
  <2>1. HandsTyped
    BY <1>0, <1>3, <1>7 DEF SaveContext
  <2>2. ctx' \in Context
    BY <1>2, <1>7, FieldTypes DEF SaveContext, Doing
  <2> QED BY <1>7, <2>1, <2>2 DEF SaveContext, TypeOK, queue, HandsTyped
<1>8. CASE RecordSpecArtifact(w)
  <2>1. HandsTyped
    BY <1>0, <1>3, <1>8 DEF RecordSpecArtifact
  <2> QED BY <1>8, <2>1 DEF RecordSpecArtifact, TypeOK, queue, HandsTyped
<1>9. CASE RecordPlanArtifact(w)
  <2>1. /\ plan' \in Nat /\ hist' \in [plans : Nat, shown : Nat,
             agreed : SUBSET Nat, released : SUBSET Nat, built : SUBSET Nat,
             fixes : Nat]
    <3>1. plan' \in Nat /\ hist' = [hist EXCEPT !.plans = plan']
      BY <1>9 DEF RecordPlanArtifact, TypeOK
    <3> QED BY <3>1 DEF TypeOK
  <2>2. e.ctx \in Context /\ e.revisions \in Nat
    BY <1>2, <1>9, FieldTypes DEF RecordPlanArtifact, Doing
  <2>3. PlanGate(e.ctx, e.revisions, plan') \in Seq(Write)
    <3> DEFINE c == [e.ctx EXCEPT !.plan = plan', !.revisions = e.revisions]
    <3>1. Save(c) \in Write
      BY <2>1, <2>2, ContextTypes, WriteTypes
    <3>2. Present(plan') \in Write /\ To("awaiting_plan_approval") \in Write
      BY <2>1, WriteTypes, StateTypes
    <3> HIDE DEF c
    <3>3. <<Save(c), Present(plan'), To("awaiting_plan_approval")>>
            \in Seq(Write)
      BY <3>1, <3>2, Tuples
    <3> QED BY <3>3 DEF PlanGate, c
  <2>4. HandsTyped
    BY <1>3, <1>9, <2>3 DEF RecordPlanArtifact
  <2> QED BY <1>9, <2>1, <2>4 DEF RecordPlanArtifact, TypeOK, queue, HandsTyped
<1>10. CASE PresentPlan(w)
  <2>1. HandsTyped
    BY <1>0, <1>3, <1>10 DEF PresentPlan
  <2>2. e.plan \in Nat
    BY <1>2, <1>10, FieldTypes DEF PresentPlan, Doing
  <2> QED BY <1>10, <2>1, <2>2 DEF PresentPlan, TypeOK, queue, run, HandsTyped
<1>11. CASE InsertTask(w)
  <2>1. HandsTyped
    BY <1>0, <1>3, <1>11 DEF InsertTask
  <2>2. e.idx \in Nat /\ e.plan \in Nat /\ e.total \in Nat
    BY <1>2, <1>11, FieldTypes DEF InsertTask, Doing
  <2> QED BY <1>11, <2>1, <2>2 DEF InsertTask, TypeOK, queue, HandsTyped
<1>12. CASE GetTasks(w)
  <2>1. e.ctx \in Context
    BY <1>2, <1>12, FieldTypes DEF GetTasks, Doing
  <2>2. (1 .. tasks.n) \ tasks.done \in SUBSET Nat
    BY DEF TypeOK
  <2>3. <<Tasks(e.ctx, (1 .. tasks.n) \ tasks.done)>> \in Seq(Write)
    BY <2>1, <2>2, WriteTypes, Tuples
  <2>4. HandsTyped
    BY <1>3, <1>12, <2>3 DEF GetTasks
  <2> QED BY <1>12, <2>4 DEF GetTasks, TypeOK, queue, run, HandsTyped
<1>13. CASE NextTask(w)
  <2>1. e.ctx \in Context /\ e.left \in SUBSET Nat
    BY <1>2, <1>13, FieldTypes DEF NextTask, Doing
  <2>3. TaskLoop(e.ctx, e.left) \subseteq Seq(Write)
    BY <2>1, TaskLoopTyped
  <2>4. HandsTyped
    BY <1>3, <1>13, <2>3 DEF NextTask
  <2> QED BY <1>13, <2>4 DEF NextTask, TypeOK, queue, run, HandsTyped
<1>14. CASE CommitCode(w)
  <2>1. HandsTyped
    BY <1>0, <1>3, <1>14 DEF CommitCode
  <2>2. Doing(w, "bootstrap") => e.plan \in Nat
    BY <1>2, FieldTypes DEF Doing
  <2>3. hist' \in [plans : Nat, shown : Nat, agreed : SUBSET Nat,
                   released : SUBSET Nat, built : SUBSET Nat, fixes : Nat]
    <3>1. CASE Doing(w, "commit")
               /\ hist' = [hist EXCEPT !.built = @ \cup {tasks.plan}]
      BY <3>1 DEF TypeOK
    <3>2. CASE Doing(w, "bootstrap")
               /\ hist' = [hist EXCEPT !.built = @ \cup {e.plan}]
      BY <2>2, <3>2 DEF TypeOK
    <3>3. CASE hist' = [hist EXCEPT !.fixes = @ + 1]
      <4>1. hist.fixes + 1 \in Nat
        BY DEF TypeOK
      <4> QED BY <3>3, <4>1 DEF TypeOK
    <3> QED BY <1>14, <3>1, <3>2, <3>3 DEF CommitCode
  <2> QED BY <1>14, <2>1, <2>3 DEF CommitCode, TypeOK, queue, run, HandsTyped
<1>15. CASE UpdateTask(w)
  <2>1. HandsTyped
    BY <1>0, <1>3, <1>15 DEF UpdateTask
  <2>2. e.task \in Nat
    BY <1>2, <1>15, FieldTypes DEF UpdateTask, Doing
  <2> QED BY <1>15, <2>1, <2>2 DEF UpdateTask, TypeOK, queue, HandsTyped
<1>16. CASE RefuseRun(w)
  <2>1. <<Refused>> \in Seq(Write)
    BY WriteTypes, Tuples
  <2>2. HandsTyped
    BY <1>3, <1>16, <2>1 DEF RefuseRun
  <2> QED BY <1>16, <2>2, StateTypes DEF RefuseRun, TypeOK, queue, HandsTyped
<1> QED
  BY <1>4, <1>5, <1>6, <1>7, <1>8, <1>9, <1>10, <1>11, <1>12, <1>13, <1>14,
     <1>15, <1>16 DEF Perform

LEMMA StepTyped == TypeOK /\ [Next]_vars => TypeOK'
<1> SUFFICES ASSUME TypeOK, [Next]_vars PROVE TypeOK'
  OBVIOUS
<1>0. env \in Happenings
  BY DEF TypeOK, Happenings
<1>1. CASE IssueOpened
  <2>1. env' \in Happenings /\ fresh' \in Seq(Job)
    BY <1>0, <1>1, EnvTyped, JobsTyped DEF IssueOpened
  <2> QED BY <1>1, <2>1 DEF IssueOpened, TypeOK, run, hands, Busy, Happenings
<1>2. ASSUME NEW body \in Bodies, Comment(body)
      PROVE  TypeOK'
  <2>1. env' \in Happenings /\ fresh' \in Seq(Job)
    BY <1>0, <1>2, EnvTyped, JobsTyped DEF Comment
  <2> QED BY <1>2, <2>1 DEF Comment, TypeOK, run, hands, Busy, Happenings
<1>3. ASSUME NEW w \in Worker, ClaimFresh(w)
      PROVE  TypeOK'
  <2>1. Head(fresh) \in Job /\ Tail(fresh) \in Seq(Job)
    BY <1>3, HeadTailProperties DEF ClaimFresh, TypeOK
  <2>2. Start(w, Head(fresh))
    BY <1>3 DEF ClaimFresh
  <2> QED BY <1>3, <2>1, <2>2, StartTyped DEF ClaimFresh, Start, TypeOK
<1>4. ASSUME NEW w \in Worker, ClaimAgain(w)
      PROVE  TypeOK'
  <2>1. PICK i \in DOMAIN again :
          Start(w, again[i]) /\ again' = RemoveAt(again, i) /\ UNCHANGED fresh
    BY <1>4 DEF ClaimAgain
  <2>2. again[i] \in Job /\ again' \in Seq(Job)
    BY <2>1, RemoveTyped DEF TypeOK
  <2> QED BY <2>1, <2>2, StartTyped DEF Start, TypeOK
<1>5. ASSUME NEW w \in Worker, MarkJobDone(w)
      PROVE  TypeOK'
  BY <1>5, LetGoTyped DEF MarkJobDone, TypeOK, run, queue
<1>6. ASSUME NEW w \in Worker, CloseDeadLettered(w)
      PROVE  TypeOK'
  BY <1>6, LetGoTyped, StateTypes DEF CloseDeadLettered, TypeOK, queue
<1>7. ASSUME NEW w \in Worker, Throw(w)
      PROVE  TypeOK'
  <2>1. job[w] \in Job
    BY <1>7 DEF Throw, TypeOK, Busy
  <2>2. env' \in [opened : BOOLEAN, comments : Nat, throws : Nat,
                  crashes : Nat, sweeps : Nat]
    BY <1>0, <1>7, EnvTyped DEF Throw, Happenings
  <2>3. CASE LetGo(w) /\ again' \in {again, Append(again, job[w])}
    <3>1. again' \in Seq(Job)
      BY <2>1, <2>3, JobsTyped DEF TypeOK
    <3> QED BY <1>7, <2>2, <2>3, <3>1, LetGoTyped DEF Throw, TypeOK, run
  <2>4. CASE /\ todo' = [todo EXCEPT ![w] = <<CloseRun>>]
             /\ UNCHANGED <<job, again>>
    <3>1. <<CloseRun>> \in Seq(Write)
      BY WriteTypes, Tuples
    <3>2. todo' \in [Worker -> Seq(Write)]
      BY <2>4, <3>1 DEF TypeOK
    <3>3. \A v \in Worker : (~Busy(v) => todo[v] = <<>>)'
      BY <1>7, <2>4 DEF Throw, TypeOK, Busy
    <3> QED BY <1>7, <2>2, <2>4, <3>2, <3>3 DEF Throw, TypeOK, run
  <2> QED BY <1>7, <2>3, <2>4 DEF Throw
<1>8. ASSUME NEW w \in Worker, Crash(w)
      PROVE  TypeOK'
  <2>1. job[w] \in Job
    BY <1>8 DEF Crash, TypeOK, Busy
  <2>2. again' \in Seq(Job)
    BY <1>8, <2>1, JobsTyped DEF Crash, TypeOK
  <2>3. env' \in [opened : BOOLEAN, comments : Nat, throws : Nat,
                  crashes : Nat, sweeps : Nat]
    BY <1>0, <1>8, EnvTyped DEF Crash, Happenings
  <2> QED BY <1>8, <2>2, <2>3, LetGoTyped DEF Crash, TypeOK, run
<1>9. CASE SweepPick
  <2>1. env' \in Happenings
    BY <1>0, <1>9, EnvTyped DEF SweepPick
  <2> QED BY <1>9, <2>1 DEF SweepPick, TypeOK, run, queue, hands, Busy,
             Happenings
<1>10. CASE SweepClose
  BY <1>10, StateTypes DEF SweepClose, TypeOK, queue, hands, Busy
<1>11. CASE SweepMiss
  BY <1>11 DEF SweepMiss, TypeOK, run, queue, hands, Busy
<1>12. CASE UNCHANGED vars
  BY <1>12 DEF vars, TypeOK, run, queue, hands, Busy
<1> QED
  BY <1>1, <1>2, <1>3, <1>4, <1>5, <1>6, <1>7, <1>8, <1>9, <1>10, <1>11,
     <1>12, PerformTyped DEF Next, Work

(* The rows, the queue, the scripts in progress and the history keep their *)
(* types, whatever interleaves and whatever fails.                         *)
THEOREM PipelineTypeCorrect == Spec => []TypeOK
BY InitTyped, StepTyped, PTL DEF Spec

-----------------------------------------------------------------------------
(* Nothing is built before an approval, by any number of workers: until    *)
(* then nobody has set out to write anything that leads there.             *)
Building == {"implementing", "awaiting_impl_help"}
Harmless ==
  {e \in Write :
     /\ e.op \notin {"task", "list", "tasks", "commit", "bootstrap"}
     /\ e.op = "move" => e.to \notin Building}
ApprovedFirst ==
  hist.released = {} =>
    /\ hist.built = {}
    /\ state \notin Building
    /\ \A w \in Worker : todo[w] \in Seq(Harmless)

LEMMA HarmlessWrites == Covers(Harmless, RunState \ Building)
<1>1. \A s \in RunState \ Building : To(s) \in Harmless
  BY WriteTypes DEF Harmless, To
<1>2. \A type \in JobType : Enq(type) \in Harmless
  BY WriteTypes DEF Harmless, Enq
<1>3. \A type \in JobType, j \in Job : Forward(type, j) \in Harmless
  BY WriteTypes DEF Harmless, Forward
<1>4. \A c \in Context : Save(c) \in Harmless
  BY WriteTypes DEF Harmless, Save
<1>5. \A c \in Context, n \in Nat : RecordPlan(c, n) \in Harmless
  BY WriteTypes DEF Harmless, RecordPlan
<1>6. \A v \in Nat : Present(v) \in Harmless /\ Approve(v) \in Harmless
  BY WriteTypes DEF Harmless, Present, Approve
<1>7. {RecordSpec, FixCommit, Refuse, Refused, CloseRun} \subseteq Harmless
  BY WriteTypes
  DEF Harmless, RecordSpec, FixCommit, Refuse, Refused, CloseRun
<1> QED BY <1>1, <1>2, <1>3, <1>4, <1>5, <1>6, <1>7 DEF Covers

LEMMA HarmlessStates ==
  OrdinaryStates \cup {"reviewing"} \subseteq RunState \ Building
BY StateTypes DEF Building, OrdinaryStates

LEMMA HandlersHarmless ==
  ASSUME NEW j \in Job, NEW r \in Snapshot, r.state \notin Building
  PROVE  /\ GuardedWrites(j, r, Harmless)
         /\ \A s : PlanScript(r, s) \/ FixScript(r, s) => s \in Seq(Harmless)
BY HarmlessWrites, HarmlessStates, HandlersCovered DEF Building

LEMMA PerformHarmless ==
  ASSUME TypeOK, ApprovedFirst, NEW w \in Worker, Perform(w)
  PROVE  ApprovedFirst'
<1> DEFINE e == Effect(w)
<1>0. <<>> \in Seq(Harmless)
  BY Tuples
<1>1. todo[w] # <<>> /\ todo \in [Worker -> Seq(Write)]
  BY DEF Perform, Doing, Move, ApprovePlan, Enqueue, SaveContext,
     RecordSpecArtifact, RecordPlanArtifact, PresentPlan, InsertTask,
     GetTasks, NextTask, CommitCode, UpdateTask, RefuseRun, TypeOK
<1>2. hist.released \subseteq hist'.released
  BY DEF Perform, Move, ApprovePlan, Enqueue, SaveContext,
     RecordSpecArtifact, RecordPlanArtifact, PresentPlan, InsertTask,
     GetTasks, NextTask, CommitCode, UpdateTask, RefuseRun, TypeOK
<1> SUFFICES ASSUME hist'.released = {}
             PROVE  /\ hist'.built = {}
                    /\ state' \notin Building
                    /\ \A v \in Worker : todo'[v] \in Seq(Harmless)
  BY DEF ApprovedFirst
<1>3. /\ hist.built = {} /\ state \notin Building
      /\ \A v \in Worker : todo[v] \in Seq(Harmless)
  BY <1>2 DEF ApprovedFirst
<1>4. e \in Harmless /\ e.op = Head(todo[w]).op
  BY <1>1, <1>3, HeadTailProperties DEF Effect
<1>5. ~ApprovePlan(w)
  BY DEF ApprovePlan, TypeOK
<1>6. /\ ~InsertTask(w) /\ ~GetTasks(w) /\ ~NextTask(w)
      /\ ~Doing(w, "commit") /\ ~Doing(w, "bootstrap")
  BY <1>4 DEF Harmless, InsertTask, GetTasks, NextTask, Doing
<1>7. ASSUME NEW s \in Seq(Harmless), Proceed(w, s)
      PROVE  \A v \in Worker : todo'[v] \in Seq(Harmless)
  BY <1>1, <1>3, <1>7, Proceeds
<1>8. CASE Move(w)
  BY <1>0, <1>3, <1>4, <1>7, <1>8 DEF Move, Doing, Harmless
<1>9. CASE RecordPlanArtifact(w)
  <2>1. plan' \in Nat /\ e.ctx \in Context /\ e.revisions \in Nat
    BY <1>4, <1>9, FieldTypes DEF RecordPlanArtifact, Doing, Harmless, TypeOK
  <2> DEFINE c == [e.ctx EXCEPT !.plan = plan', !.revisions = e.revisions]
  <2>2. Save(c) \in Harmless
    BY <2>1, ContextTypes, HarmlessWrites DEF Covers
  <2>3. Present(plan') \in Harmless /\ To("awaiting_plan_approval") \in Harmless
    BY <2>1, HarmlessWrites, HarmlessStates DEF Covers, OrdinaryStates
  <2>4. PlanGate(e.ctx, e.revisions, plan') \in Seq(Harmless)
    <3> HIDE DEF c
    <3>1. <<Save(c), Present(plan'), To("awaiting_plan_approval")>>
            \in Seq(Harmless)
      BY <2>2, <2>3, Tuples
    <3> QED BY <3>1 DEF PlanGate, c
  <2>5. hist'.built = hist.built /\ state' = state
    BY <1>9 DEF RecordPlanArtifact, TypeOK
  <2> QED BY <1>3, <1>7, <1>9, <2>4, <2>5 DEF RecordPlanArtifact
<1>10. CASE RefuseRun(w)
  <2>1. <<Refused>> \in Seq(Harmless)
    BY HarmlessWrites, Tuples DEF Covers
  <2> QED BY <1>3, <1>7, <1>10, <2>1 DEF RefuseRun, Building
<1>11. CASE \/ Enqueue(w) \/ SaveContext(w) \/ RecordSpecArtifact(w)
            \/ PresentPlan(w) \/ CommitCode(w) \/ UpdateTask(w)
  <2>1. Proceed(w, <<>>) /\ state' = state /\ hist'.built = hist.built
    BY <1>6, <1>11 DEF Enqueue, SaveContext, RecordSpecArtifact, PresentPlan,
       CommitCode, UpdateTask, run, TypeOK
  <2> QED BY <1>0, <1>3, <1>7, <2>1
<1> QED BY <1>5, <1>6, <1>8, <1>9, <1>10, <1>11 DEF Perform

LEMMA StepApprovedFirst == TypeOK /\ ApprovedFirst /\ [Next]_vars => ApprovedFirst'
<1> SUFFICES ASSUME TypeOK, ApprovedFirst, [Next]_vars PROVE ApprovedFirst'
  OBVIOUS
<1>1. ASSUME NEW w \in Worker, NEW j \in Job, Start(w, j)
      PROVE  ApprovedFirst'
  <2>1. /\ Loaded(j) \in Snapshot /\ state' = Loaded(j).state
        /\ todo'[w] \in dispatch(j, Loaded(j))
        /\ \A v \in Worker : v # w => todo'[v] = todo[v]
        /\ hist' = hist
    BY <1>1, StartTyped DEF Start
  <2>2. state \notin Building => state' \notin Building
    BY <2>1 DEF Loaded, Building
  <2>3. state' \notin Building => todo'[w] \in Seq(Harmless)
    BY <2>1, HandlersHarmless, Dispatched
  <2> QED BY <2>1, <2>2, <2>3 DEF ApprovedFirst
<1>2. ASSUME UNCHANGED hist, state' \in {state, "failed", "aborted"},
             \A w \in Worker : todo'[w] \in {todo[w], <<>>, <<CloseRun>>}
      PROVE  ApprovedFirst'
  <2>1. <<>> \in Seq(Harmless) /\ <<CloseRun>> \in Seq(Harmless)
    BY HarmlessWrites, Tuples DEF Covers
  <2>2. state \notin Building => state' \notin Building
    BY <1>2 DEF Building
  <2> QED BY <1>2, <2>1, <2>2 DEF ApprovedFirst
<1>3. ASSUME NEW w \in Worker, ClaimFresh(w) \/ ClaimAgain(w)
      PROVE  ApprovedFirst'
  <2>1. ASSUME ClaimFresh(w)
        PROVE  Head(fresh) \in Job
    BY <2>1, HeadTailProperties DEF ClaimFresh, TypeOK
  <2>2. \A i \in DOMAIN again : again[i] \in Job
    BY RemoveTyped DEF TypeOK
  <2> QED BY <1>1, <1>3, <2>1, <2>2 DEF ClaimFresh, ClaimAgain
<1>4. ASSUME NEW w \in Worker,
             MarkJobDone(w) \/ CloseDeadLettered(w) \/ Crash(w) \/ Throw(w)
      PROVE  ApprovedFirst'
  <2>1. \A v \in Worker : todo'[v] \in {todo[v], <<>>, <<CloseRun>>}
    BY <1>4 DEF MarkJobDone, CloseDeadLettered, Crash, Throw, LetGo, TypeOK
  <2>2. hist' = hist /\ state' \in {state, "failed"}
    BY <1>4 DEF MarkJobDone, CloseDeadLettered, Crash, Throw, run
  <2> QED BY <1>2, <2>1, <2>2
<1>5. CASE \/ IssueOpened \/ \E body \in Bodies : Comment(body)
           \/ SweepPick \/ SweepClose \/ SweepMiss \/ UNCHANGED vars
  BY <1>2, <1>5 DEF IssueOpened, Comment, SweepPick, SweepClose, SweepMiss,
     vars, run, hands
<1> QED BY <1>3, <1>4, <1>5, PerformHarmless DEF Next, Work

LEMMA InitApprovedFirst == Init => ApprovedFirst
<1>1. <<>> \in Seq(Harmless)
  BY Tuples
<1> QED BY <1>1 DEF Init, ApprovedFirst, Building, NoHistory

(* Nothing is built before somebody approved something: however many       *)
(* workers there are, whatever throws or dies, and whatever the sweeper    *)
(* closes meanwhile.                                                       *)
THEOREM NothingBuiltUnapprovedAlways == Spec => []NothingBuiltUnapproved
<1>1. ApprovedFirst => NothingBuiltUnapproved
  BY DEF ApprovedFirst, NothingBuiltUnapproved
<1> QED
  BY <1>1, InitTyped, StepTyped, InitApprovedFirst, StepApprovedFirst, PTL
  DEF Spec

-----------------------------------------------------------------------------
(* One worker.  What is true of the run ...                                *)
Settled == {"awaiting_plan_approval", "implementing", "awaiting_impl_help",
            "reviewing", "awaiting_pr_review"}
Early == {"none", "received", "acknowledged", "specifying",
          "awaiting_clarification", "specified"}
Specified == {"awaiting_clarification", "specified", "planning"} \cup Settled
Lost == env.crashes + env.throws

(* ... c being the context, or about to be.                                *)
PlanFits(c) ==
  /\ c.plan = plan
  /\ plan # 0 => c.spec = "ready"
  /\ plan <= 1 + c.revisions /\ c.revisions <= PlanRevisionCap
FixFits(c) == c.fixes <= FixRoundCap /\ hist.fixes <= c.fixes + Lost

PlanSettled == plan # 0 /\ PlanFits(ctx) /\ hist.shown = plan
Unplanned == plan = 0 /\ ctx.plan = 0
Allowed == plan \in hist.released

StateFits ==
  /\ state \in Settled => PlanSettled
  /\ state \in Early => Unplanned
  /\ state \in Specified => spec
  /\ state \in Building => Allowed
PlanInv ==
  /\ plan # 0 \/ state = "planning" => ctx.spec = "ready"
  /\ plan # 0 \/ ctx.plan # 0 => spec
  /\ plan = hist.plans /\ plan <= 1 + PlanRevisionCap
  /\ ctx.revisions <= PlanRevisionCap /\ ctx.fixes <= FixRoundCap
BuildInv ==
  /\ tasks.n > 0 => tasks.plan \in hist.released
  /\ hist.built \subseteq hist.released

(* A fix that was committed is recorded, or about to be, or was lost.      *)
FixToRecord(w) ==
  /\ Len(todo[w]) = 1 /\ todo[w][1].op = "save"
  /\ FixFits(todo[w][1].ctx) /\ hist.fixes <= ctx.fixes + 1 + Lost
FixInv == hist.fixes <= ctx.fixes + Lost \/ \E w \in Worker : FixToRecord(w)

(* ... and what the worker may still write, in whatever order ...          *)
Sound(e) ==
  /\ e.op = "move" =>
       /\ e.to \in Settled => PlanSettled
       /\ e.to \in Early => Unplanned
       /\ e.to \in Specified => spec
       /\ e.to \in Building => Allowed
       /\ e.to # "planning"
  /\ e.op = "approve" => PlanSettled /\ spec
  /\ e.op \in {"save", "list", "tasks"} =>
       /\ PlanFits(e.ctx) /\ FixFits(e.ctx)
       /\ state = "planning" => plan # 0
  /\ e.op \in {"list", "tasks"} => PlanSettled /\ Allowed /\ spec
  /\ e.op \notin {"plan", "present", "fix"}
  /\ e.op \in {"task", "bootstrap"} => e.plan \in hist.released
  /\ e.op = "commit" => tasks.plan \in hist.released
  /\ e.op = "tasks" => (e.left # {} => tasks.plan \in hist.released)
Due == {e \in Write : Sound(e)}

(* ... or in this one: on the way to the plan gate, and fixing.            *)
Plans(e) ==
  /\ e.op = "plan" /\ e.ctx.spec = "ready" /\ FixFits(e.ctx)
  /\ plan <= e.revisions /\ e.revisions <= PlanRevisionCap
SetsOut(s) ==
  /\ Len(s) = 2 /\ s[1] = To("planning")
  /\ s[2] \in Stops \/ Plans(s[2])
  /\ spec /\ ctx.spec = "ready"
Planning(s) ==
  /\ Len(s) = 1 /\ Plans(s[1])
  /\ spec /\ ctx.spec = "ready" /\ state \notin Settled \cup Early
ToPresent(s, i) ==
  /\ Len(s) = i + 1 /\ s[i] = Present(plan)
  /\ s[i + 1] = To("awaiting_plan_approval")
  /\ plan # 0 /\ spec
Presenting(s) ==
  \/ /\ s # <<>> /\ s[1].op = "save" /\ ToPresent(s, 2)
     /\ PlanFits(s[1].ctx) /\ FixFits(s[1].ctx)
  \/ ToPresent(s, 1) /\ PlanFits(ctx)
Fixing(s) ==
  /\ Len(s) = 2 /\ s[1] = FixCommit /\ s[2].op = "save" /\ PlanFits(s[2].ctx)
  /\ s[2].ctx.fixes = ctx.fixes + 1 /\ s[2].ctx.fixes <= FixRoundCap
  /\ hist.fixes <= ctx.fixes + Lost /\ plan # 0
ScriptFits(s) ==
  s \in Seq(Due) \/ SetsOut(s) \/ Planning(s) \/ Presenting(s) \/ Fixing(s)

RunInv == StateFits /\ PlanInv /\ BuildInv
GateInv ==
  TypeOK /\ RunInv /\ FixInv /\ \A w \in Worker : ScriptFits(todo[w])
OneWorker == \A v \in Worker, w \in Worker : v = w

LEMMA Numbers ==
  ASSUME TypeOK
  PROVE  /\ plan \in Nat /\ hist.fixes \in Nat /\ Lost \in Nat
         /\ hist.plans \in Nat /\ ctx \in Context
         /\ PlanRevisionCap \in Nat /\ FixRoundCap \in Nat
<1>1. env.crashes \in Nat /\ env.throws \in Nat
  BY DEF TypeOK
<1>2. Lost \in Nat
  BY <1>1 DEF Lost
<1>3. /\ plan \in Nat /\ ctx \in Context
      /\ hist.fixes \in Nat /\ hist.plans \in Nat
  BY DEF TypeOK
<1> QED BY <1>2, <1>3, CapsAssumption

LEMMA FitsKept ==
  ASSUME TypeOK, TypeOK', NEW c \in Context, plan' = plan,
         hist'.fixes = hist.fixes, Lost <= Lost'
  PROVE  (PlanFits(c) => PlanFits(c)') /\ (FixFits(c) => FixFits(c)')
<1>1. c.fixes \in Nat
  BY ContextTypes
<1>2. hist.fixes \in Nat /\ Lost \in Nat /\ Lost' \in Nat
  <2>1. env'.crashes \in Nat /\ env'.throws \in Nat
    BY DEF TypeOK
  <2> QED BY <2>1, Numbers DEF Lost
<1>3. FixFits(c) => FixFits(c)'
  <2>1. SUFFICES ASSUME hist.fixes <= c.fixes + Lost
                 PROVE  hist'.fixes <= c.fixes + Lost'
    BY DEF FixFits
  <2> HIDE DEF Lost
  <2> QED BY <1>1, <1>2, <2>1
<1>4. PlanFits(c) => PlanFits(c)'
  BY DEF PlanFits
<1> QED BY <1>3, <1>4

(* What may be written stays so while the plan stays.                      *)
LEMMA DueKept ==
  ASSUME TypeOK, TypeOK', plan' = plan, hist'.fixes = hist.fixes,
         Lost <= Lost', PlanSettled => PlanSettled',
         Unplanned => Unplanned', spec => spec',
         hist.released \subseteq hist'.released,
         state' = "planning" => state = "planning" \/ plan # 0,
         tasks.plan \in hist.released => tasks'.plan \in hist'.released
  PROVE  Due \subseteq Due' /\ Seq(Due) \subseteq Seq(Due')
<1>1. ASSUME NEW e \in Write, Sound(e)
      PROVE  Sound(e)'
  <2>1. Allowed => Allowed'
    BY DEF Allowed
  <2>2. e.op = "move" =>
          /\ e.to \in Settled => PlanSettled'
          /\ e.to \in Early => Unplanned'
          /\ e.to \in Specified => spec'
          /\ e.to \in Building => Allowed'
          /\ e.to # "planning"
    BY <1>1, <2>1 DEF Sound
  <2>3. e.op = "approve" => PlanSettled' /\ spec'
    BY <1>1 DEF Sound
  <2>4. e.op \in {"save", "list", "tasks"} =>
          /\ PlanFits(e.ctx)' /\ FixFits(e.ctx)'
          /\ state' = "planning" => plan' # 0
    BY <1>1, FieldTypes, FitsKept DEF Sound
  <2>5. e.op \in {"list", "tasks"} => PlanSettled' /\ Allowed' /\ spec'
    BY <1>1, <2>1 DEF Sound
  <2>6. /\ e.op \notin {"plan", "present", "fix"}
        /\ e.op \in {"task", "bootstrap"} => e.plan \in hist'.released
        /\ e.op = "commit" => tasks'.plan \in hist'.released
        /\ e.op = "tasks" => (e.left # {} => tasks'.plan \in hist'.released)
    BY <1>1 DEF Sound
  <2> QED BY <2>2, <2>3, <2>4, <2>5, <2>6 DEF Sound
<1>2. Due \subseteq Due'
  BY <1>1 DEF Due
<1> QED BY <1>2, SeqMonotonic

(* The writes that may be due.                                             *)
LEMMA DueWrites ==
  /\ {To("failed"), To("aborted"), To("unsupported")} \subseteq Due
  /\ Stops \subseteq Due
  /\ {RecordSpec, Refuse, Refused, CloseRun} \subseteq Due
  /\ \A type \in JobType : Enq(type) \in Due
  /\ \A type \in JobType, j \in Job : Forward(type, j) \in Due
  /\ \A t \in Nat : TaskDone(t) \in Due
  /\ \A s \in Early \ {"none"} : Unplanned /\ (s \in Specified => spec) =>
       To(s) \in Due
  /\ \A s \in Settled : PlanSettled /\ spec /\ (s \in Building => Allowed) =>
       To(s) \in Due
  /\ \A c \in Context : PlanFits(c) /\ FixFits(c)
                        /\ (state = "planning" => plan # 0) => Save(c) \in Due
<1>1. {To("failed"), To("aborted"), To("unsupported")} \subseteq Due
  BY WriteTypes, StateTypes
  DEF Due, Sound, To, Settled, Early, Specified, Building
<1>2. {RecordSpec, Refuse, Refused, CloseRun} \subseteq Due
  BY WriteTypes DEF Due, Sound, RecordSpec, Refuse, Refused, CloseRun
<1>3. \A type \in JobType : Enq(type) \in Due
  BY WriteTypes DEF Due, Sound, Enq
<1>4. \A type \in JobType, j \in Job : Forward(type, j) \in Due
  BY WriteTypes DEF Due, Sound, Forward
<1>5. \A t \in Nat : TaskDone(t) \in Due
  BY WriteTypes DEF Due, Sound, TaskDone
<1>6. ASSUME NEW s \in Early \ {"none"}, Unplanned, s \in Specified => spec
      PROVE  To(s) \in Due
  <2>1. s \in RunState /\ s \notin Settled /\ s \notin Building
        /\ s # "planning"
    BY StateTypes DEF Early, Settled, Building
  <2>2. To(s) \in Write /\ To(s).op = "move" /\ To(s).to = s
    BY <2>1, WriteTypes DEF To
  <2> QED BY <1>6, <2>1, <2>2 DEF Due, Sound
<1>7. ASSUME NEW s \in Settled, PlanSettled, spec, s \in Building => Allowed
      PROVE  To(s) \in Due
  <2>1. s \in RunState /\ s \notin Early /\ s # "planning"
    BY StateTypes DEF Early, Settled
  <2>2. To(s) \in Write /\ To(s).op = "move" /\ To(s).to = s
    BY <2>1, WriteTypes DEF To
  <2> QED BY <1>7, <2>1, <2>2 DEF Due, Sound
<1>8. ASSUME NEW c \in Context, PlanFits(c), FixFits(c),
             state = "planning" => plan # 0
      PROVE  Save(c) \in Due
  <2>1. Save(c) \in Write /\ Save(c).op = "save" /\ Save(c).ctx = c
    BY WriteTypes DEF Save
  <2> QED BY <1>8, <2>1 DEF Due, Sound
<1> QED
  BY <1>1, <1>2, <1>3, <1>4, <1>5, <1>6, <1>7, <1>8 DEF Stops

LEMMA DueBuilding ==
  /\ \A v \in Nat : PlanSettled /\ spec => Approve(v) \in Due
  /\ \A v \in Nat : v \in hist.released => Bootstrap(v) \in Due
  /\ \A v \in Nat, i \in Nat, n \in Nat :
       v \in hist.released => RecordTask(v, i, n) \in Due
  /\ \A t \in Nat : tasks.plan \in hist.released => Commit(t) \in Due
  /\ \A c \in Context : PlanFits(c) /\ FixFits(c) /\ PlanSettled /\ Allowed
                        /\ spec => ListTasks(c) \in Due
  /\ \A c \in Context, left \in SUBSET Nat :
       PlanFits(c) /\ FixFits(c) /\ PlanSettled /\ Allowed /\ spec
       /\ (left # {} => tasks.plan \in hist.released) => Tasks(c, left) \in Due
<1>1. \A v \in Nat : PlanSettled /\ spec => Approve(v) \in Due
  BY WriteTypes DEF Due, Sound, Approve
<1>2. \A v \in Nat : v \in hist.released => Bootstrap(v) \in Due
  BY WriteTypes DEF Due, Sound, Bootstrap
<1>3. \A v \in Nat, i \in Nat, n \in Nat :
        v \in hist.released => RecordTask(v, i, n) \in Due
  BY WriteTypes DEF Due, Sound, RecordTask
<1>4. \A t \in Nat : tasks.plan \in hist.released => Commit(t) \in Due
  BY WriteTypes DEF Due, Sound, Commit
<1>5. ASSUME NEW c \in Context, PlanFits(c), FixFits(c), PlanSettled, Allowed,
             spec
      PROVE  ListTasks(c) \in Due
  <2>1. /\ ListTasks(c) \in Write /\ ListTasks(c).op = "list"
        /\ ListTasks(c).ctx = c /\ plan # 0
    BY <1>5, WriteTypes DEF ListTasks, PlanSettled
  <2> QED BY <1>5, <2>1 DEF Due, Sound
<1>6. ASSUME NEW c \in Context, NEW left \in SUBSET Nat, PlanFits(c),
             FixFits(c), PlanSettled, Allowed, spec,
             left # {} => tasks.plan \in hist.released
      PROVE  Tasks(c, left) \in Due
  <2>1. /\ Tasks(c, left) \in Write /\ Tasks(c, left).op = "tasks"
        /\ Tasks(c, left).ctx = c /\ Tasks(c, left).left = left /\ plan # 0
    BY <1>6, WriteTypes DEF Tasks, PlanSettled
  <2> QED BY <1>6, <2>1 DEF Due, Sound
<1> QED BY <1>1, <1>2, <1>3, <1>4, <1>5, <1>6

-----------------------------------------------------------------------------
(* A handler that loads the run sets out on what is due.                   *)
LEMMA LoadedDue ==
  ASSUME TypeOK, RunInv, hist.fixes <= ctx.fixes + Lost, NEW j \in Job
  PROVE  GuardedWrites(j, Loaded(j), Due)
<1> DEFINE r == Loaded(j)
<1>0. /\ r.ctx = ctx /\ r.spec = spec /\ r.plan = plan /\ ctx \in Context
      /\ r.state = "received" => state \in {"none", "received"}
      /\ r.state # "received" => r.state = state
      /\ plan \in Nat /\ spec \in BOOLEAN /\ j.seen \in Nat
  BY DEF Loaded, TypeOK, Job
<1> HIDE DEF r
<1>1. ~spec => Unplanned /\ state # "planning"
  BY DEF RunInv, StateFits, PlanInv, Unplanned, Specified
<1>2. /\ r.state \in Early => Unplanned
      /\ r.state \in Settled => PlanSettled
      /\ r.state \in Specified => spec
      /\ r.state \in Building => Allowed
  BY <1>0 DEF RunInv, StateFits, Early, Settled, Specified, Building
<1>3. FixFits(ctx)
  BY DEF RunInv, PlanInv, FixFits
<1>4. ASSUME Unplanned, NEW c \in Context, c.plan = ctx.plan,
             c.revisions = ctx.revisions, c.fixes = ctx.fixes,
             state # "planning"
      PROVE  Save(c) \in Due
  <2>1. plan = 0 /\ c.plan = 0 /\ c.revisions \in Nat
    BY <1>4, ContextTypes DEF Unplanned
  <2>2. PlanFits(c)
    BY <1>4, <2>1 DEF PlanFits, RunInv, PlanInv
  <2>3. FixFits(c)
    BY <1>3, <1>4 DEF FixFits
  <2> QED BY <1>4, <2>2, <2>3, DueWrites
<1>5. Unplanned /\ state # "planning" => Specs(ctx) \subseteq Due
  <2>1. ASSUME NEW k \in SpecKind, Unplanned, state # "planning"
        PROVE  Save([ctx EXCEPT !.spec = k]) \in Due
    <3> DEFINE c == [ctx EXCEPT !.spec = k]
    <3>1. /\ c \in Context /\ c.plan = ctx.plan
          /\ c.revisions = ctx.revisions /\ c.fixes = ctx.fixes
      BY <1>0, ContextTypes DEF Context
    <3> HIDE DEF c
    <3>2. Save(c) \in Due
      BY <1>4, <2>1, <3>1
    <3> QED BY <3>2 DEF c
  <2> QED BY <2>1 DEF Specs
<1>6. r.state = "received" => IssueOpenedWrites \subseteq Due
  BY <1>2, DueWrites DEF IssueOpenedWrites, Early, Specified, JobType, Settled
<1>7. ~r.spec => ProduceSpecWrites(r) \subseteq Due
  <2>1. SUFFICES ASSUME ~spec PROVE ProduceSpecWrites(r) \subseteq Due
    BY <1>0
  <2>2. Specs(r.ctx) \subseteq Due
    BY <1>0, <1>1, <1>5, <2>1
  <2>3. {To("specifying"), Enq("clarify"), To("unsupported"), RecordSpec}
          \subseteq Due
    BY <1>1, <2>1, DueWrites DEF Early, Specified, JobType, Settled
  <2> QED BY <2>2, <2>3, DueWrites DEF ProduceSpecWrites
<1>8. r.state = "specifying" /\ r.spec => ClarifyWrites(r) \subseteq Due
  <2>1. SUFFICES ASSUME r.state = "specifying", spec
                 PROVE  ClarifyWrites(r) \subseteq Due
    BY <1>0
  <2>2. Unplanned /\ state # "planning"
    BY <1>0, <1>2, <2>1 DEF Early
  <2>3. Save(r.ctx) \in Due
    BY <1>0, <1>4, <2>2
  <2>4. {To("specified"), To("awaiting_clarification"), Enq("produce_plan")}
          \subseteq Due
    BY <2>1, <2>2, DueWrites DEF Early, JobType
  <2> QED BY <2>3, <2>4, DueWrites DEF ClarifyWrites
<1>9. r.state = "awaiting_clarification" /\ r.spec =>
        ResumeClarificationWrites(r) \subseteq Due
  <2>1. SUFFICES ASSUME r.state = "awaiting_clarification", spec
                 PROVE  ResumeClarificationWrites(r) \subseteq Due
    BY <1>0
  <2>2. Unplanned /\ state # "planning"
    BY <1>0, <1>2, <2>1 DEF Early
  <2>3. Specs(r.ctx) \subseteq Due
    BY <1>0, <1>5, <2>2
  <2>4. {RecordSpec, To("specified"), Enq("produce_plan")} \subseteq Due
    BY <2>1, <2>2, DueWrites DEF Early, JobType
  <2> QED BY <2>3, <2>4, DueWrites DEF ResumeClarificationWrites
<1>10. r.state = "specified" /\ r.plan = 0 => ReclarifyWrites(r) \subseteq Due
  <2>1. SUFFICES ASSUME r.state = "specified"
                 PROVE  ReclarifyWrites(r) \subseteq Due
    OBVIOUS
  <2>2. Unplanned /\ state # "planning"
    BY <1>0, <1>2, <2>1 DEF Early
  <2>3. Save([r.ctx EXCEPT !.reclarified = TRUE]) \in Due
    <3> DEFINE c == [ctx EXCEPT !.reclarified = TRUE]
    <3>1. /\ c \in Context /\ c.plan = ctx.plan
          /\ c.revisions = ctx.revisions /\ c.fixes = ctx.fixes
      BY <1>0, ContextTypes DEF Context
    <3> HIDE DEF c
    <3>2. Save(c) \in Due
      BY <1>4, <2>2, <3>1
    <3> QED BY <1>0, <3>2 DEF c
  <2>4. {To("specifying"), Enq("clarify"), To("failed")} \subseteq Due
    BY <2>2, DueWrites DEF Early, Specified, Settled, JobType
  <2> QED BY <2>3, <2>4 DEF ReclarifyWrites
<1>11. PlanSettled => PlanFits(ctx) /\ plan # 0
  BY DEF PlanSettled
<1>12. r.state \in Settled => PlanSettled /\ spec
  BY <1>2 DEF Specified
<1>13. r.state = "awaiting_plan_approval" => DecideWrites(j) \subseteq Due
  <2>1. SUFFICES ASSUME PlanSettled, spec PROVE DecideWrites(j) \subseteq Due
    BY <1>12 DEF Settled
  <2>2. {Approve(j.seen), Enq("implement"), To("aborted")} \subseteq Due
    BY <1>0, <2>1, DueBuilding, DueWrites DEF JobType
  <2> QED BY <2>2 DEF DecideWrites
<1>14. r.state = "implementing" => ImplementWrites(r) \subseteq Due
  <2>1. SUFFICES ASSUME PlanSettled, spec, Allowed
                 PROVE  ImplementWrites(r) \subseteq Due
    BY <1>2, <1>12 DEF Settled, Building
  <2>2. \A i \in Nat, n \in Nat : RecordTask(r.plan, i, n) \in Due
    BY <1>0, <2>1, DueBuilding DEF Allowed
  <2>3. Bootstrap(r.plan) \in Due /\ ListTasks(r.ctx) \in Due
    BY <1>0, <1>3, <1>11, <2>1, DueBuilding DEF Allowed
  <2> QED BY <2>2, <2>3, DueWrites DEF ImplementWrites
<1>15. r.state = "awaiting_impl_help" =>
         ResumeImplementationWrites(r) \subseteq Due
  <2>1. SUFFICES ASSUME PlanSettled, spec, Allowed
                 PROVE  ResumeImplementationWrites(r) \subseteq Due
    BY <1>2, <1>12 DEF Settled, Building
  <2>2. Save([r.ctx EXCEPT !.help.rounds = @ + 1]) \in Due
    <3> DEFINE c == [ctx EXCEPT !.help.rounds = @ + 1]
    <3>1. /\ c \in Context /\ c.plan = ctx.plan /\ c.spec = ctx.spec
          /\ c.revisions = ctx.revisions /\ c.fixes = ctx.fixes
      BY <1>0, ContextTypes DEF Context
    <3> HIDE DEF c
    <3>2. PlanFits(c) /\ FixFits(c)
      BY <1>3, <1>11, <2>1, <3>1 DEF PlanFits, FixFits
    <3>3. Save(c) \in Due
      BY <1>11, <2>1, <3>1, <3>2, DueWrites
    <3> QED BY <1>0, <3>3 DEF c
  <2>3. {To("aborted"), To("failed"), To("implementing"), Enq("implement")}
          \subseteq Due
    BY <2>1, DueWrites DEF Settled, JobType
  <2> QED BY <2>2, <2>3 DEF ResumeImplementationWrites
<1>16. r.state = "reviewing" => ReviewWrites \subseteq Due
  <2>1. SUFFICES ASSUME PlanSettled, spec PROVE ReviewWrites \subseteq Due
    BY <1>12 DEF Settled
  <2>2. To("awaiting_pr_review") \in Due
    BY <2>1, DueWrites DEF Settled, Building
  <2> QED BY <2>2, DueWrites DEF ReviewWrites
<1>17. r.state = "awaiting_pr_review" => FixWrites(j) \subseteq Due
  <2>1. SUFFICES ASSUME PlanSettled, spec PROVE FixWrites(j) \subseteq Due
    BY <1>12 DEF Settled
  <2>2. To("awaiting_plan_approval") \in Due
    BY <2>1, DueWrites DEF Settled, Building
  <2>3. Forward("resume_plan_decision", j) \in Due
    BY DueWrites DEF JobType
  <2> QED BY <2>2, <2>3, DueWrites DEF FixWrites
<1>18. GuardedWrites(j, r, Due)
  BY <1>6, <1>7, <1>8, <1>9, <1>10, <1>13, <1>14, <1>15, <1>16, <1>17
  DEF GuardedWrites
<1> QED BY <1>18 DEF r

(* The write at the head of a script decides which write is performed.     *)
LEMMA PerformOf ==
  ASSUME NEW w \in Worker, Perform(w)
  PROVE  /\ todo[w] # <<>> /\ Effect(w) = Head(todo[w])
         /\ Effect(w).op = "move" => Move(w)
         /\ Effect(w).op = "save" => SaveContext(w)
         /\ Effect(w).op = "plan" => RecordPlanArtifact(w)
         /\ Effect(w).op = "present" => PresentPlan(w)
         /\ Effect(w).op = "task" => InsertTask(w)
         /\ Effect(w).op = "list" => GetTasks(w)
         /\ Effect(w).op = "tasks" => NextTask(w)
         /\ Effect(w).op = "taskDone" => UpdateTask(w)
         /\ Effect(w).op = "refuse" => RefuseRun(w)
         /\ Effect(w).op = "approve" => ApprovePlan(w)
         /\ Effect(w).op \in {"commit", "bootstrap", "fix"} => CommitCode(w)
         /\ Effect(w).op \in {"enqueue"} => Enqueue(w)
         /\ Effect(w).op = "spec" => RecordSpecArtifact(w)
         /\ Effect(w).op = "fix" =>
              CommitCode(w) /\ hist' = [hist EXCEPT !.fixes = @ + 1]
         /\ Effect(w).op \in
              {"move", "approve", "enqueue", "save", "spec", "plan", "present",
               "task", "list", "tasks", "commit", "bootstrap", "fix",
               "taskDone", "refuse"}
BY DEF Perform, Effect, Doing, Move, ApprovePlan, Enqueue, SaveContext,
   RecordSpecArtifact, RecordPlanArtifact, PresentPlan, InsertTask,
   GetTasks, NextTask, CommitCode, UpdateTask, RefuseRun

LEMMA Tails ==
  ASSUME NEW S, NEW s \in Seq(S), s # <<>>
  PROVE  /\ Head(s) = s[1] /\ s[1] \in S /\ Len(s) \in Nat \ {0}
         /\ Tail(s) \in Seq(S) /\ Len(Tail(s)) = Len(s) - 1
         /\ \A i \in 1 .. (Len(s) - 1) : Tail(s)[i] = s[i + 1]
         /\ <<>> \o Tail(s) = Tail(s)
<1>1. /\ Head(s) = s[1] /\ s[1] \in S /\ Len(s) \in Nat \ {0}
      /\ Tail(s) \in Seq(S) /\ Len(Tail(s)) = Len(s) - 1
      /\ \A i \in 1 .. (Len(s) - 1) : Tail(s)[i] = s[i + 1]
  BY HeadTailProperties
<1>2. <<>> \o Tail(s) = Tail(s)
  BY <1>1, ConcatEmptySeq
<1> QED BY <1>1, <1>2

(* The only worker goes on with the rest of its script.                    *)
LEMMA GoesOn ==
  ASSUME TypeOK, OneWorker, NEW w \in Worker, todo[w] # <<>>,
         Proceed(w, <<>>)
  PROVE  /\ todo'[w] = Tail(todo[w]) /\ \A v \in Worker : v = w
         /\ env' = env /\ Lost' = Lost
<1>1. todo[w] \in Seq(Write) /\ todo \in [Worker -> Seq(Write)]
  BY DEF TypeOK
<1>2. todo'[w] = <<>> \o Tail(todo[w]) /\ env' = env
  BY <1>1 DEF Proceed
<1> QED BY <1>1, <1>2, Tails DEF OneWorker, Lost

(* Whatever is due may be written in any order.                            *)
LEMMA PerformDue ==
  ASSUME TypeOK, TypeOK', RunInv, FixInv, OneWorker, NEW w \in Worker,
         todo[w] \in Seq(Due), Perform(w)
  PROVE  RunInv' /\ FixInv' /\ \A v \in Worker : todo'[v] \in Seq(Due')
<1> DEFINE e == Effect(w)
           Goal == RunInv' /\ FixInv' /\ \A v \in Worker : todo'[v] \in Seq(Due')
<1>0. /\ todo[w] # <<>> /\ e = todo[w][1] /\ e = Head(todo[w]) /\ e \in Due
      /\ e \in Write /\ Sound(e) /\ todo \in [Worker -> Seq(Write)]
      /\ <<>> \in Seq(Due)
  <2>1. todo[w] # <<>> /\ e = Head(todo[w])
    BY PerformOf
  <2>2. Head(todo[w]) = todo[w][1] /\ todo[w][1] \in Due
    BY <2>1, Tails
  <2> QED BY <2>1, <2>2, Tuples DEF Due, TypeOK
<1>1. ASSUME NEW s \in Seq(Due), Proceed(w, s), Due \subseteq Due'
      PROVE  \A v \in Worker : todo'[v] \in Seq(Due')
  <2>1. todo'[w] \in Seq(Due)
    BY <1>0, <1>1, Proceeds
  <2>2. todo'[w] \in Seq(Due')
    BY <1>1, <2>1, SeqMonotonic
  <2> QED BY <2>2 DEF OneWorker
<1>2. Lost' = Lost /\ Lost \in Nat /\ Lost <= Lost'
  <2>1. env' = env
    BY DEF Perform, Move, ApprovePlan, Enqueue, SaveContext,
       RecordSpecArtifact, RecordPlanArtifact, PresentPlan, InsertTask,
       GetTasks, NextTask, CommitCode, UpdateTask, RefuseRun, Proceed
  <2>2. Lost' = Lost
    BY <2>1 DEF Lost
  <2> QED BY <2>2, Numbers
<1>3. e.op # "save" => hist.fixes <= ctx.fixes + Lost
  BY <1>0 DEF FixInv, FixToRecord, OneWorker
<1>4. ASSUME e.op # "save", ctx' = ctx, hist'.fixes = hist.fixes
      PROVE  FixInv'
  BY <1>2, <1>3, <1>4 DEF FixInv
<1> HIDE DEF e
<1>5. CASE Move(w)
  <2>1. /\ e.op = "move" /\ state' = e.to /\ Proceed(w, <<>>)
        /\ UNCHANGED <<ctx, spec, plan, tasks, hist>>
    BY <1>5 DEF Move, Doing, e, Effect
  <2>2. Due \subseteq Due'
    BY <1>0, <1>2, <2>1, DueKept DEF PlanSettled, PlanFits, Unplanned, Sound
  <2>3. StateFits'
    BY <1>0, <2>1
    DEF Sound, StateFits, PlanSettled, PlanFits, Unplanned, Allowed
  <2>4. PlanInv' /\ BuildInv'
    BY <1>0, <2>1 DEF RunInv, PlanInv, BuildInv, Sound
  <2> QED BY <1>0, <1>1, <1>4, <2>1, <2>2, <2>3, <2>4 DEF RunInv
<1>6. CASE ApprovePlan(w)
  <2>1. /\ e.op = "approve" /\ state' = "implementing" /\ Proceed(w, <<>>)
        /\ UNCHANGED <<ctx, spec, plan, tasks>>
        /\ hist'.released = hist.released \cup {plan}
        /\ hist'.plans = hist.plans /\ hist'.shown = hist.shown
        /\ hist'.built = hist.built /\ hist'.fixes = hist.fixes
    BY <1>6 DEF ApprovePlan, Doing, e, Effect, TypeOK
  <2>2. PlanSettled /\ spec /\ PlanSettled'
    BY <1>0, <2>1 DEF Sound, PlanSettled, PlanFits
  <2>3. Due \subseteq Due'
    BY <1>2, <2>1, <2>2, DueKept DEF Unplanned
  <2>4. StateFits'
    BY <2>1, <2>2 DEF StateFits, Early, Allowed
  <2>5. PlanInv' /\ BuildInv'
    BY <2>1 DEF RunInv, PlanInv, BuildInv
  <2> QED BY <1>0, <1>1, <1>4, <2>1, <2>3, <2>4, <2>5 DEF RunInv
<1>7. CASE SaveContext(w)
  <2>1. /\ e.op = "save" /\ ctx' = e.ctx /\ Proceed(w, <<>>)
        /\ UNCHANGED <<state, spec, plan, tasks, hist>>
    BY <1>7 DEF SaveContext, Doing, e, Effect
  <2>2. PlanFits(e.ctx) /\ FixFits(e.ctx) /\ (state = "planning" => plan # 0)
    BY <1>0, <2>1 DEF Sound
  <2>3. (PlanSettled => PlanSettled') /\ (Unplanned => Unplanned')
    BY <2>1, <2>2 DEF PlanSettled, PlanFits, Unplanned
  <2>4. Due \subseteq Due'
    BY <1>2, <2>1, <2>3, DueKept
  <2>5. StateFits'
    BY <2>1, <2>3 DEF RunInv, StateFits, Allowed
  <2>6. PlanInv' /\ BuildInv'
    BY <2>1, <2>2 DEF RunInv, PlanInv, BuildInv, PlanFits, FixFits
  <2>7. FixInv'
    BY <1>2, <2>1, <2>2 DEF FixInv, FixFits
  <2> QED BY <1>0, <1>1, <2>1, <2>4, <2>5, <2>6, <2>7 DEF RunInv
<1>8. CASE RecordSpecArtifact(w)
  <2>1. /\ e.op = "spec" /\ spec' = TRUE /\ Proceed(w, <<>>)
        /\ UNCHANGED <<state, ctx, plan, tasks, hist>>
    BY <1>8 DEF RecordSpecArtifact, Doing, e, Effect
  <2>2. Due \subseteq Due'
    BY <1>2, <2>1, DueKept DEF PlanSettled, PlanFits, Unplanned
  <2>3. StateFits'
    BY <2>1
    DEF RunInv, StateFits, PlanSettled, PlanFits, Unplanned, Allowed
  <2>4. PlanInv' /\ BuildInv'
    BY <2>1 DEF RunInv, PlanInv, BuildInv
  <2> QED BY <1>0, <1>1, <1>4, <2>1, <2>2, <2>3, <2>4 DEF RunInv
<1>9. CASE InsertTask(w)
  <2>1. /\ e.op = "task" /\ tasks'.plan = e.plan /\ Proceed(w, <<>>)
        /\ UNCHANGED <<state, ctx, spec, plan, hist>>
    BY <1>9 DEF InsertTask, Doing, e, Effect, TypeOK
  <2>2. e.plan \in hist.released
    BY <1>0, <2>1 DEF Sound
  <2>3. Due \subseteq Due'
    BY <1>2, <2>1, <2>2, DueKept DEF PlanSettled, PlanFits, Unplanned
  <2>4. StateFits'
    BY <2>1
    DEF RunInv, StateFits, PlanSettled, PlanFits, Unplanned, Allowed
  <2>5. PlanInv' /\ BuildInv'
    BY <2>1, <2>2 DEF RunInv, PlanInv, BuildInv
  <2> QED BY <1>0, <1>1, <1>4, <2>1, <2>3, <2>4, <2>5 DEF RunInv
<1>10. CASE CommitCode(w)
  <2>1. /\ Proceed(w, <<>>)
        /\ UNCHANGED <<state, ctx, spec, plan, tasks>>
        /\ \E v : /\ hist'.built = hist.built \cup {v}
                  /\ \/ e.op = "commit" /\ v = tasks.plan
                     \/ e.op = "bootstrap" /\ v = e.plan
        /\ hist'.plans = hist.plans /\ hist'.shown = hist.shown
        /\ hist'.released = hist.released /\ hist'.fixes = hist.fixes
    <3>1. e.op # "fix"
      BY <1>0 DEF Sound
    <3> QED BY <1>10, <3>1 DEF CommitCode, Doing, e, Effect, TypeOK, run
  <2>2. hist'.built \subseteq hist'.released /\ e.op # "save"
    BY <1>0, <2>1 DEF Sound, RunInv, BuildInv
  <2>3. Due \subseteq Due'
    BY <1>2, <2>1, DueKept DEF PlanSettled, PlanFits, Unplanned
  <2>4. StateFits'
    BY <2>1
    DEF RunInv, StateFits, PlanSettled, PlanFits, Unplanned, Allowed
  <2>5. PlanInv' /\ BuildInv'
    BY <2>1, <2>2 DEF RunInv, PlanInv, BuildInv
  <2> QED BY <1>0, <1>1, <1>4, <2>1, <2>2, <2>3, <2>4, <2>5 DEF RunInv
<1>11. CASE UpdateTask(w)
  <2>1. /\ e.op = "taskDone" /\ Proceed(w, <<>>)
        /\ tasks'.n = tasks.n /\ tasks'.plan = tasks.plan
        /\ UNCHANGED <<state, ctx, spec, plan, hist>>
    BY <1>11 DEF UpdateTask, Doing, e, Effect, TypeOK
  <2>2. Due \subseteq Due'
    BY <1>2, <2>1, DueKept DEF PlanSettled, PlanFits, Unplanned
  <2>3. StateFits'
    BY <2>1
    DEF RunInv, StateFits, PlanSettled, PlanFits, Unplanned, Allowed
  <2>4. PlanInv' /\ BuildInv'
    BY <2>1 DEF RunInv, PlanInv, BuildInv
  <2> QED BY <1>0, <1>1, <1>4, <2>1, <2>2, <2>3, <2>4 DEF RunInv
<1>12. ASSUME NEW s \in Seq(Due), Proceed(w, s), UNCHANGED <<run, hist>>,
              e.op # "save"
       PROVE  Goal
  <2>1. Due \subseteq Due'
    BY <1>2, <1>12, DueKept DEF run, PlanSettled, PlanFits, Unplanned
  <2>2. RunInv'
    BY <1>12 DEF RunInv, StateFits, PlanInv, BuildInv, run, PlanSettled,
       PlanFits, Unplanned, Allowed
  <2> QED BY <1>1, <1>4, <1>12, <2>1, <2>2 DEF run
<1>13. CASE Enqueue(w)
  BY <1>0, <1>12, <1>13 DEF Enqueue, Doing, e, Effect
<1>14. CASE GetTasks(w)
  <2>1. /\ e.op = "list" /\ UNCHANGED <<run, hist>>
        /\ Proceed(w, <<Tasks(e.ctx, (1 .. tasks.n) \ tasks.done)>>)
    BY <1>14 DEF GetTasks, Doing, e, Effect
  <2> DEFINE left == (1 .. tasks.n) \ tasks.done
  <2>2. left \in SUBSET Nat /\ (left # {} => tasks.n > 0)
    <3>1. tasks.n \in Nat
      BY DEF TypeOK
    <3> QED BY <3>1
  <2>3. left # {} => tasks.plan \in hist.released
    BY <2>2 DEF RunInv, BuildInv
  <2>4. /\ e.ctx \in Context /\ PlanFits(e.ctx) /\ FixFits(e.ctx)
        /\ PlanSettled /\ Allowed /\ spec
    BY <1>0, <2>1, FieldTypes DEF Sound
  <2>5. Tasks(e.ctx, left) \in Due
    <3> HIDE DEF left
    <3> QED BY <2>2, <2>3, <2>4, DueBuilding
  <2>6. <<Tasks(e.ctx, left)>> \in Seq(Due)
    BY <2>5, Tuples
  <2> QED BY <1>12, <2>1, <2>6
<1>15. CASE NextTask(w)
  <2>1. /\ e.op = "tasks" /\ UNCHANGED <<run, hist>>
        /\ \E s \in TaskLoop(e.ctx, e.left) : Proceed(w, s)
    BY <1>15 DEF NextTask, Doing, e, Effect
  <2>2. /\ e.ctx \in Context /\ PlanFits(e.ctx) /\ FixFits(e.ctx)
        /\ PlanSettled /\ Allowed /\ spec /\ plan # 0
        /\ e.left \in SUBSET Nat
        /\ e.left # {} => tasks.plan \in hist.released
    BY <1>0, <2>1, FieldTypes DEF Sound, PlanSettled
  <2>3. /\ {To("reviewing"), Enq("review"), To("awaiting_impl_help")}
             \subseteq Due
        /\ Stops \subseteq Due
    BY <2>2, DueWrites DEF Settled, JobType
  <2>4. ASSUME NEW t \in e.left
        PROVE  /\ Save([e.ctx EXCEPT !.help.task = t]) \in Due
               /\ Save(Cleared(e.ctx, t)) \in Due /\ TaskDone(t) \in Due
               /\ Commit(t) \in Due
               /\ Tasks(Cleared(e.ctx, t), e.left \ {t}) \in Due
    <3>1. t \in Nat /\ e.left \ {t} \in SUBSET Nat /\ e.left # {}
      BY <2>2, <2>4
    <3> DEFINE c1 == [e.ctx EXCEPT !.help.task = t]
               c2 == Cleared(e.ctx, t)
    <3>2. /\ c1 \in Context /\ c2 \in Context
          /\ c1.plan = e.ctx.plan /\ c1.spec = e.ctx.spec
          /\ c1.revisions = e.ctx.revisions /\ c1.fixes = e.ctx.fixes
          /\ c2.plan = e.ctx.plan /\ c2.spec = e.ctx.spec
          /\ c2.revisions = e.ctx.revisions /\ c2.fixes = e.ctx.fixes
      <4>1. c1 \in Context /\ c2 \in Context
        BY <2>2, <3>1, ContextTypes
      <4>2. /\ c1.plan = e.ctx.plan /\ c1.spec = e.ctx.spec
            /\ c1.revisions = e.ctx.revisions /\ c1.fixes = e.ctx.fixes
        BY <2>2 DEF Context
      <4>3. /\ c2.plan = e.ctx.plan /\ c2.spec = e.ctx.spec
            /\ c2.revisions = e.ctx.revisions /\ c2.fixes = e.ctx.fixes
        BY <2>2 DEF Context, Cleared
      <4> QED BY <4>1, <4>2, <4>3
    <3> HIDE DEF c1, c2
    <3>3. /\ PlanFits(c1) /\ FixFits(c1) /\ PlanFits(c2) /\ FixFits(c2)
      BY <2>2, <3>2 DEF PlanFits, FixFits
    <3>4. Save(c1) \in Due /\ Save(c2) \in Due
      BY <2>2, <3>2, <3>3, DueWrites
    <3>5. TaskDone(t) \in Due /\ Commit(t) \in Due
      BY <2>2, <3>1, DueWrites, DueBuilding
    <3>6. Tasks(c2, e.left \ {t}) \in Due
      BY <2>2, <3>1, <3>2, <3>3, DueBuilding
    <3> QED BY <3>4, <3>5, <3>6 DEF c1, c2
  <2>5. TaskWrites(e.ctx, e.left) \subseteq Due
    BY <2>3, <2>4 DEF TaskWrites
  <2>6. TaskLoop(e.ctx, e.left) \subseteq Seq(Due)
    BY <2>5, TaskScripts, SeqMonotonic
  <2> QED BY <1>12, <2>1, <2>6
<1>16. CASE RefuseRun(w)
  <2>1. /\ e.op = "refuse" /\ state' = "failed" /\ Proceed(w, <<Refused>>)
        /\ UNCHANGED <<ctx, spec, plan, tasks, hist>>
    BY <1>16 DEF RefuseRun, Doing, e, Effect
  <2>2. Due \subseteq Due'
    BY <1>2, <2>1, DueKept DEF PlanSettled, PlanFits, Unplanned
  <2>3. StateFits'
    BY <2>1 DEF StateFits, Settled, Early, Specified, Building
  <2>4. PlanInv' /\ BuildInv'
    BY <2>1 DEF RunInv, PlanInv, BuildInv
  <2>5. <<Refused>> \in Seq(Due)
    BY DueWrites, Tuples
  <2> QED BY <1>1, <1>4, <2>1, <2>2, <2>3, <2>4, <2>5 DEF RunInv
<1>17. ~RecordPlanArtifact(w) /\ ~PresentPlan(w)
  BY <1>0 DEF RecordPlanArtifact, PresentPlan, Doing, Sound
<1> QED
  BY <1>5, <1>6, <1>7, <1>8, <1>9, <1>10, <1>11, <1>13, <1>14, <1>15, <1>16,
     <1>17 DEF Perform

LEMMA Single ==
  ASSUME NEW S, NEW s \in Seq(S), Len(s) = 1
  PROVE  /\ s # <<>> /\ Tail(s) = <<>>
         /\ \A T : s[1] \in T => s \in Seq(T)
<1>1. s # <<>> /\ Len(Tail(s)) = 0 /\ Tail(s) \in Seq(S)
  BY Tails
<1>2. Tail(s) = <<>>
  BY <1>1, EmptySeq
<1>3. ASSUME NEW T, s[1] \in T
      PROVE  s \in Seq(T)
  <2>1. \A i \in 1 .. Len(s) : s[i] \in T
    BY <1>3
  <2> QED BY <2>1, SeqDef
<1> QED BY <1>1, <1>2, <1>3

LEMMA DueStops ==
  ASSUME NEW e \in Stops
  PROVE  e \in Due /\ e \in Due'
<1>1. /\ e \in Write /\ e.op \in {"move", "refuse"}
      /\ e.op = "move" => e.to = "failed"
  BY WriteTypes, StateTypes DEF Stops, To, Refuse
<1> QED BY <1>1 DEF Due, Sound, Settled, Early, Specified, Building

(* On the way to the plan gate, and fixing, the order matters.             *)
LEMMA PerformSetsOut ==
  ASSUME TypeOK, TypeOK', RunInv, FixInv, OneWorker, NEW w \in Worker,
         SetsOut(todo[w]), Perform(w)
  PROVE  RunInv' /\ FixInv' /\ \A v \in Worker : ScriptFits(todo[v])'
<1>1. todo[w] # <<>> /\ Effect(w) = To("planning") /\ todo[w] \in Seq(Write)
  <2>1. todo[w] \in Seq(Write)
    BY DEF TypeOK
  <2>2. todo[w] # <<>>
    BY DEF SetsOut
  <2>3. Effect(w) = todo[w][1]
    BY <2>1, <2>2, Tails DEF Effect
  <2> QED BY <2>1, <2>2, <2>3 DEF SetsOut
<1>2. /\ state' = "planning" /\ Proceed(w, <<>>)
      /\ UNCHANGED <<ctx, spec, plan, tasks, hist>>
  BY <1>1, PerformOf DEF Move, To
<1>3. /\ todo'[w] = Tail(todo[w]) /\ \A v \in Worker : v = w
      /\ Lost' = Lost
  BY <1>1, <1>2, GoesOn
<1>4. todo'[w] \in Seq(Write) /\ Len(todo'[w]) = 1
      /\ todo'[w][1] = todo[w][2]
  BY <1>1, <1>3, Tails DEF SetsOut
<1>5. hist.fixes <= ctx.fixes + Lost
  BY <1>1, <1>3, Tails DEF FixInv, FixToRecord, SetsOut
<1>6. RunInv'
  <2>1. spec /\ ctx.spec = "ready"
    BY DEF SetsOut
  <2> QED BY <1>2, <2>1 DEF RunInv, StateFits, PlanInv, BuildInv, Settled, Early,
             Building
<1>7. FixInv'
  BY <1>2, <1>3, <1>5 DEF FixInv
<1>8. CASE todo[w][2] \in Stops
  <2>1. todo'[w][1] \in Due'
    BY <1>4, <1>8, DueStops
  <2>2. todo'[w] \in Seq(Due')
    BY <1>4, <2>1, Single
  <2> QED BY <1>3, <1>6, <1>7, <2>2 DEF ScriptFits
<1>9. CASE Plans(todo[w][2])
  <2>1. Plans(todo[w][1])'
    BY <1>2, <1>3, <1>4, <1>9 DEF Plans, FixFits
  <2>2. Planning(todo[w])'
    BY <1>2, <1>4, <2>1 DEF Planning, SetsOut, Settled, Early
  <2> QED BY <1>3, <1>6, <1>7, <2>2 DEF ScriptFits
<1> QED BY <1>8, <1>9 DEF SetsOut

LEMMA PerformPlanning ==
  ASSUME TypeOK, TypeOK', RunInv, FixInv, OneWorker, NEW w \in Worker,
         Planning(todo[w]), Perform(w)
  PROVE  RunInv' /\ FixInv' /\ \A v \in Worker : ScriptFits(todo[v])'
<1> DEFINE e == Effect(w)
<1>1. /\ todo[w] # <<>> /\ e = todo[w][1] /\ todo[w] \in Seq(Write)
      /\ e \in Write
  <2>1. todo[w] \in Seq(Write)
    BY DEF TypeOK
  <2>2. todo[w] # <<>>
    BY DEF Planning
  <2> QED BY <2>1, <2>2, Tails DEF Effect
<1>2. /\ e.op = "plan" /\ e.ctx.spec = "ready" /\ FixFits(e.ctx)
      /\ plan <= e.revisions /\ e.revisions <= PlanRevisionCap
      /\ spec /\ ctx.spec = "ready" /\ state \notin Settled \cup Early
  BY <1>1 DEF Planning, Plans
<1>3. /\ plan' = hist.plans + 1 /\ hist' = [hist EXCEPT !.plans = plan']
      /\ Proceed(w, PlanGate(e.ctx, e.revisions, plan'))
      /\ UNCHANGED <<state, ctx, spec, tasks>>
  BY <1>2, PerformOf DEF RecordPlanArtifact
<1>4. /\ hist'.plans = plan' /\ hist'.fixes = hist.fixes
      /\ hist'.released = hist.released /\ hist'.built = hist.built
  BY <1>3 DEF TypeOK
<1>5. /\ e.ctx \in Context /\ e.revisions \in Nat /\ plan' \in Nat
      /\ plan \in Nat /\ hist.plans = plan /\ PlanRevisionCap \in Nat
  BY <1>1, <1>2, FieldTypes, Numbers DEF TypeOK, RunInv, PlanInv
<1>6. PICK c \in Context :
        /\ c = [e.ctx EXCEPT !.plan = plan', !.revisions = e.revisions]
        /\ c.plan = plan' /\ c.revisions = e.revisions
        /\ c.spec = e.ctx.spec /\ c.fixes = e.ctx.fixes
  <2> DEFINE c == [e.ctx EXCEPT !.plan = plan', !.revisions = e.revisions]
  <2> HIDE DEF e
  <2>1. c \in Context
    BY <1>5, ContextTypes
  <2>2. /\ c.plan = plan' /\ c.revisions = e.revisions
        /\ c.spec = e.ctx.spec /\ c.fixes = e.ctx.fixes
    BY <1>5 DEF Context
  <2> QED BY <2>1, <2>2
<1> HIDE DEF e
<1>7. todo'[w] = <<Save(c), Present(plan'), To("awaiting_plan_approval")>>
                 \o Tail(todo[w])
      /\ env' = env
  BY <1>1, <1>3, <1>6 DEF Proceed, PlanGate, TypeOK, e
<1>8. Tail(todo[w]) = <<>>
  BY <1>1, Single DEF Planning
<1>9. /\ Len(todo'[w]) = 3 /\ todo'[w][1] = Save(c)
      /\ todo'[w][2] = Present(plan')
      /\ todo'[w][3] = To("awaiting_plan_approval")
  <2> DEFINE g == <<Save(c), Present(plan'), To("awaiting_plan_approval")>>
  <2>1. g \in Seq({Save(c), Present(plan'), To("awaiting_plan_approval")})
    BY Tuples
  <2>2. g \o <<>> = g
    <3> HIDE DEF g
    <3> QED BY <2>1, ConcatEmptySeq
  <2>3. todo'[w] = g
    BY <1>7, <1>8, <2>2
  <2> QED BY <2>3
<1>10. Lost' = Lost
  BY <1>7 DEF Lost
<1>11. /\ PlanFits(c)' /\ FixFits(c)'
       /\ plan' # 0 /\ plan' <= 1 + PlanRevisionCap
  <2>1. plan' # 0 /\ plan' <= 1 + e.revisions /\ plan' <= 1 + PlanRevisionCap
    BY <1>2, <1>3, <1>5
  <2>2. PlanFits(c)'
    BY <1>2, <1>6, <2>1 DEF PlanFits
  <2>3. FixFits(c)'
    BY <1>2, <1>4, <1>6, <1>10 DEF FixFits
  <2> QED BY <2>1, <2>2, <2>3
<1>12. Presenting(todo[w])'
  <2>1. todo'[w] # <<>> /\ todo'[w][1].op = "save" /\ todo'[w][1].ctx = c
    BY <1>9 DEF Save
  <2>2. ToPresent(todo[w], 2)'
    BY <1>2, <1>3, <1>9, <1>11 DEF ToPresent
  <2> QED BY <1>11, <2>1, <2>2 DEF Presenting, PlanFits, FixFits
<1>13. RunInv'
  <2>1. StateFits'
    BY <1>2, <1>3
    DEF StateFits, Settled, Early, Specified, Building
  <2>2. PlanInv'
    BY <1>2, <1>3, <1>4, <1>11 DEF PlanInv, RunInv
  <2>3. BuildInv'
    BY <1>3, <1>4 DEF BuildInv, RunInv
  <2> QED BY <2>1, <2>2, <2>3 DEF RunInv
<1>14. FixInv'
  <2>1. hist.fixes <= ctx.fixes + Lost
    BY <1>1, <1>2 DEF FixInv, FixToRecord, OneWorker
  <2> QED BY <1>3, <1>4, <1>10, <2>1 DEF FixInv
<1> QED BY <1>12, <1>13, <1>14 DEF ScriptFits, OneWorker

LEMMA PerformPresenting ==
  ASSUME TypeOK, TypeOK', RunInv, FixInv, OneWorker, NEW w \in Worker,
         Presenting(todo[w]), Perform(w)
  PROVE  RunInv' /\ FixInv' /\ \A v \in Worker : ScriptFits(todo[v])'
<1> DEFINE e == Effect(w)
<1>1. /\ todo[w] # <<>> /\ e = todo[w][1] /\ todo[w] \in Seq(Write)
      /\ e \in Write
  <2>1. todo[w] \in Seq(Write)
    BY DEF TypeOK
  <2>2. todo[w] # <<>>
    BY DEF Presenting, ToPresent
  <2> QED BY <2>1, <2>2, Tails DEF Effect
<1>2. plan # 0 /\ spec /\ plan \in Nat
  BY DEF Presenting, ToPresent, TypeOK
<1>3. CASE /\ e.op = "save" /\ ToPresent(todo[w], 2)
           /\ PlanFits(e.ctx) /\ FixFits(e.ctx)
  <2>1. /\ ctx' = e.ctx /\ Proceed(w, <<>>)
        /\ UNCHANGED <<state, spec, plan, tasks, hist>>
    BY <1>3, PerformOf DEF SaveContext
  <2>2. /\ todo'[w] = Tail(todo[w]) /\ \A v \in Worker : v = w
        /\ Lost' = Lost
    BY <1>1, <2>1, GoesOn
  <2>3. /\ Len(todo'[w]) = 2 /\ todo'[w][1] = todo[w][2]
        /\ todo'[w][2] = todo[w][3]
    BY <1>1, <1>3, <2>2, Tails DEF ToPresent
  <2>4. PlanFits(ctx)' /\ (FixFits(e.ctx) => FixFits(ctx)')
    <3> HIDE DEF e
    <3> QED BY <1>3, <2>1, <2>2 DEF PlanFits, FixFits
  <2>5. Presenting(todo[w])'
    BY <1>3, <2>1, <2>3, <2>4 DEF Presenting, ToPresent, Present
  <2>6. StateFits'
    BY <1>2, <2>1, <2>4
    DEF RunInv, StateFits, PlanSettled, Unplanned, Allowed
  <2>7. PlanInv' /\ BuildInv'
    BY <1>2, <1>3, <2>1, <2>4
    DEF RunInv, PlanInv, BuildInv, PlanFits, FixFits
  <2>8. FixInv'
    BY <1>3, <2>4 DEF FixInv, FixFits
  <2> QED BY <2>2, <2>5, <2>6, <2>7, <2>8 DEF RunInv, ScriptFits
<1>4. CASE ToPresent(todo[w], 1) /\ PlanFits(ctx)
  <2>1. e = Present(plan) /\ e.op = "present" /\ e.plan = plan
    BY <1>1, <1>4 DEF ToPresent, Present
  <2>2. /\ hist' = [hist EXCEPT !.shown = plan] /\ Proceed(w, <<>>)
        /\ UNCHANGED <<state, ctx, spec, plan, tasks>>
    BY <2>1, PerformOf DEF PresentPlan, run
  <2>3. /\ hist'.shown = plan /\ hist'.plans = hist.plans
        /\ hist'.fixes = hist.fixes /\ hist'.released = hist.released
        /\ hist'.built = hist.built
    BY <2>2 DEF TypeOK
  <2>4. /\ todo'[w] = Tail(todo[w]) /\ \A v \in Worker : v = w
        /\ Lost' = Lost
    BY <1>1, <2>2, GoesOn
  <2>5. /\ Len(todo'[w]) = 1 /\ todo'[w][1] = To("awaiting_plan_approval")
        /\ todo'[w] \in Seq(Write)
    BY <1>1, <1>4, <2>4, Tails DEF ToPresent
  <2>6. PlanSettled' /\ spec'
    BY <1>2, <1>4, <2>2, <2>3 DEF PlanSettled, PlanFits
  <2>7. To("awaiting_plan_approval") \in Due'
    <3>1. /\ To("awaiting_plan_approval") \in Write
          /\ To("awaiting_plan_approval").op = "move"
          /\ To("awaiting_plan_approval").to = "awaiting_plan_approval"
      BY WriteTypes, StateTypes DEF To
    <3> QED BY <2>6, <3>1 DEF Due, Sound, Early, Building
  <2>8. todo'[w] \in Seq(Due')
    BY <2>5, <2>7, Single
  <2>9. RunInv'
    <3>1. StateFits'
      BY <2>2, <2>3, <2>6 DEF RunInv, StateFits, Unplanned, Allowed
    <3>2. PlanInv' /\ BuildInv'
      BY <2>2, <2>3 DEF RunInv, PlanInv, BuildInv
    <3> QED BY <3>1, <3>2 DEF RunInv
  <2>10. FixInv'
    BY <1>1, <2>1, <2>2, <2>3, <2>4 DEF FixInv, FixToRecord
  <2> QED BY <2>4, <2>8, <2>9, <2>10 DEF ScriptFits
<1> QED BY <1>1, <1>3, <1>4 DEF Presenting

LEMMA PerformFixing ==
  ASSUME TypeOK, TypeOK', RunInv, FixInv, OneWorker, NEW w \in Worker,
         Fixing(todo[w]), Perform(w)
  PROVE  RunInv' /\ FixInv' /\ \A v \in Worker : ScriptFits(todo[v])'
<1>1. /\ todo[w] # <<>> /\ Effect(w) = FixCommit /\ todo[w] \in Seq(Write)
      /\ todo[w][2] \in Write
  <2>1. todo[w] \in Seq(Write)
    BY DEF TypeOK
  <2>2. todo[w] # <<>>
    BY DEF Fixing
  <2>3. Effect(w) = todo[w][1] /\ todo[w][2] \in Write
    BY <2>1, <2>2, Tails DEF Effect, Fixing
  <2> QED BY <2>1, <2>2, <2>3 DEF Fixing
<1>2. /\ hist' = [hist EXCEPT !.fixes = @ + 1] /\ Proceed(w, <<>>)
      /\ UNCHANGED <<state, ctx, spec, plan, tasks>>
  BY <1>1, PerformOf DEF FixCommit, CommitCode, run
<1>3. /\ hist'.fixes = hist.fixes + 1 /\ hist'.plans = hist.plans
      /\ hist'.shown = hist.shown /\ hist'.released = hist.released
      /\ hist'.built = hist.built
  BY <1>2 DEF TypeOK
<1>4. /\ todo'[w] = Tail(todo[w]) /\ \A v \in Worker : v = w
      /\ Lost' = Lost
  BY <1>1, <1>2, GoesOn
<1>5. /\ Len(todo'[w]) = 1 /\ todo'[w][1] = todo[w][2]
      /\ todo'[w] \in Seq(Write)
  BY <1>1, <1>4, Tails DEF Fixing
<1>6. PICK f \in Write : f = todo[w][2]
  BY <1>1
<1>7. /\ f.op = "save" /\ f.ctx.fixes = ctx.fixes + 1 /\ PlanFits(f.ctx)
      /\ f.ctx.fixes <= FixRoundCap /\ hist.fixes <= ctx.fixes + Lost
      /\ plan # 0
  BY <1>6 DEF Fixing
<1>8. /\ hist.fixes \in Nat /\ Lost \in Nat /\ ctx.fixes \in Nat
  BY Numbers, ContextTypes
<1>9. FixFits(f.ctx)' /\ PlanFits(f.ctx)'
      /\ hist'.fixes <= ctx'.fixes + 1 + Lost'
  <2>1. hist'.fixes <= ctx'.fixes + 1 + Lost'
    BY <1>2, <1>3, <1>4, <1>7, <1>8
  <2>2. FixFits(f.ctx)'
    BY <1>2, <1>7, <1>8, <2>1 DEF FixFits
  <2> QED BY <1>2, <1>7, <2>1, <2>2 DEF PlanFits
<1>10. FixInv'
  <2>1. FixToRecord(w)'
    BY <1>5, <1>6, <1>7, <1>9 DEF FixToRecord, FixFits
  <2> QED BY <2>1 DEF FixInv
<1>11. todo'[w] \in Seq(Due')
  <2>1. f \in Due'
    BY <1>2, <1>7, <1>9 DEF Due, Sound
  <2> QED BY <1>5, <1>6, <2>1, Single
<1>12. RunInv'
  BY <1>2, <1>3 DEF RunInv, StateFits, PlanInv, BuildInv, PlanSettled,
     PlanFits, Unplanned, Allowed
<1> QED BY <1>4, <1>10, <1>11, <1>12 DEF ScriptFits

LEMMA StartFits ==
  ASSUME TypeOK, TypeOK', RunInv, FixInv, OneWorker, NEW w \in Worker,
         NEW j \in Job, Start(w, j)
  PROVE  RunInv' /\ FixInv' /\ \A v \in Worker : ScriptFits(todo[v])'
<1> DEFINE r == Loaded(j)
<1>1. /\ todo'[w] \in dispatch(j, r) /\ todo[w] = <<>> /\ state' = r.state
      /\ UNCHANGED <<ctx, spec, plan, tasks, env, hist>>
  BY StartTyped DEF Start
<1>2. /\ r.ctx = ctx /\ r.spec = spec /\ r.plan = plan /\ ctx \in Context
      /\ state' = state \/ (state = "none" /\ state' = "received")
      /\ state' # "received" => r.state = state
      /\ plan \in Nat /\ ctx.revisions \in Nat /\ ctx.fixes \in Nat
      /\ PlanRevisionCap \in Nat /\ FixRoundCap \in Nat
  BY <1>1, Numbers, ContextTypes DEF Loaded
<1>3. hist.fixes <= ctx.fixes + Lost
  BY <1>1 DEF FixInv, FixToRecord, OneWorker
<1>4. Lost' = Lost /\ Lost \in Nat /\ Lost <= Lost'
  <2>1. Lost' = Lost
    BY <1>1 DEF Lost
  <2> QED BY <2>1, Numbers
<1>5. Due \subseteq Due' /\ Seq(Due) \subseteq Seq(Due')
  BY <1>1, <1>2, <1>4, DueKept DEF PlanSettled, PlanFits, Unplanned
<1>6. RunInv'
  BY <1>1, <1>2 DEF RunInv, StateFits, PlanInv, BuildInv, PlanSettled,
     PlanFits, Unplanned, Allowed, Settled, Early, Specified, Building
<1>7. FixInv'
  BY <1>1, <1>3, <1>4 DEF FixInv
<1>8. PICK s \in dispatch(j, r) : s = todo'[w]
  BY <1>1
<1>9. s \in Seq(Due) \/ PlanScript(r, s) \/ FixScript(r, s)
  BY <1>3, <1>8, LoadedDue, Dispatched
<1> HIDE DEF r
<1>10. CASE s \in Seq(Due)
  BY <1>5, <1>6, <1>7, <1>8, <1>10 DEF ScriptFits, OneWorker
<1>11. CASE PlanScript(r, s)
  <2>1. PICK n \in Nat :
          /\ s \in PlanScripts(ctx, n)
          /\ plan <= n /\ n <= PlanRevisionCap /\ spec /\ ctx.spec = "ready"
    <3>1. CASE /\ r.state = "specified" /\ plan = 0 /\ ctx.spec = "ready"
               /\ s \in PlanScripts(ctx, ctx.revisions)
      <4>1. spec /\ ctx.revisions <= PlanRevisionCap
        BY <1>1, <1>2, <3>1 DEF RunInv, StateFits, PlanInv, Specified
      <4> QED BY <1>2, <3>1, <4>1
    <3>2. CASE /\ r.state = "awaiting_plan_approval" /\ ~RevisionsSpent(ctx)
               /\ s \in PlanScripts(ctx, ctx.revisions + 1)
      <4>1. PlanSettled /\ spec
        BY <1>1, <1>2, <3>2 DEF RunInv, StateFits, Specified, Settled
      <4>2. plan <= ctx.revisions + 1 /\ ctx.spec = "ready"
        BY <1>2, <4>1 DEF PlanSettled, PlanFits
      <4>3. ctx.revisions + 1 <= PlanRevisionCap /\ ctx.revisions + 1 \in Nat
        BY <1>2, <3>2 DEF RevisionsSpent
      <4> QED BY <3>2, <4>1, <4>2, <4>3
    <3> QED BY <1>2, <1>11, <3>1, <3>2 DEF PlanScript
  <2>2. PICK x \in Stops \cup {RecordPlan(ctx, n)} : s = <<To("planning"), x>>
    BY <2>1 DEF PlanScripts, Stops
  <2>3. FixFits(ctx)
    BY <1>3 DEF FixFits, RunInv, PlanInv
  <2>4. /\ Len(s) = 2 /\ s[1] = To("planning") /\ s[2] = x
    BY <2>2
  <2>5. x \in Stops \/ Plans(x)'
    <3>1. CASE x = RecordPlan(ctx, n)
      <4>1. x.op = "plan" /\ x.ctx = ctx /\ x.revisions = n
        BY <3>1 DEF RecordPlan
      <4>2. FixFits(x.ctx)'
        BY <1>1, <1>4, <2>3, <4>1 DEF FixFits
      <4> QED BY <1>1, <2>1, <4>1, <4>2 DEF Plans
    <3> QED BY <2>2, <3>1
  <2>6. SetsOut(todo[w])'
    <3>1. (Plans(x) => Plans(todo[w][2]))'
      BY <1>8, <2>4
    <3> QED BY <1>1, <1>8, <2>1, <2>4, <2>5, <3>1 DEF SetsOut
  <2> QED BY <1>6, <1>7, <2>6 DEF ScriptFits, OneWorker
<1>12. CASE FixScript(r, s)
  <2>1. /\ r.state = "awaiting_pr_review" /\ ~FixRoundsSpent(ctx)
        /\ s = Fixed(ctx)
    BY <1>2, <1>12 DEF FixScript
  <2>2. PICK f \in Context :
          /\ f = [ctx EXCEPT !.fixes = @ + 1]
          /\ f.plan = ctx.plan /\ f.spec = ctx.spec
          /\ f.revisions = ctx.revisions /\ f.fixes = ctx.fixes + 1
    <3> DEFINE c == [ctx EXCEPT !.fixes = @ + 1]
    <3>1. c \in Context
      BY <1>2, ContextTypes
    <3>2. /\ c.plan = ctx.plan /\ c.spec = ctx.spec
          /\ c.revisions = ctx.revisions /\ c.fixes = ctx.fixes + 1
      BY <1>2 DEF Context
    <3> QED BY <3>1, <3>2
  <2>3. s = <<FixCommit, Save(f)>>
    BY <2>1, <2>2 DEF Fixed
  <2>4. /\ Len(s) = 2 /\ s[1] = FixCommit /\ s[2] = Save(f)
        /\ s[2].op = "save" /\ s[2].ctx = f
    BY <2>3 DEF Save
  <2>5. PlanSettled
    BY <1>1, <1>2, <2>1 DEF RunInv, StateFits, Settled
  <2>6. /\ PlanFits(f)' /\ plan' # 0
        /\ f.fixes = ctx'.fixes + 1 /\ f.fixes <= FixRoundCap
        /\ hist'.fixes <= ctx'.fixes + Lost'
    BY <1>1, <1>2, <1>3, <1>4, <2>1, <2>2, <2>5
    DEF PlanSettled, PlanFits, FixRoundsSpent
  <2>7. Fixing(todo[w])'
    <3>1. PlanFits(todo[w][2].ctx)'
      BY <1>8, <2>4, <2>6 DEF PlanFits
    <3> QED BY <1>8, <2>4, <2>6, <3>1 DEF Fixing
  <2> QED BY <1>6, <1>7, <2>7 DEF ScriptFits, OneWorker
<1> QED BY <1>9, <1>10, <1>11, <1>12

(* People, the sweeper, and the ways a script ends before its time.        *)
LEMMA OthersFit ==
  ASSUME TypeOK, TypeOK', GateInv, OneWorker,
         UNCHANGED <<ctx, spec, plan, tasks, hist>>,
         state' \in {state, "failed", "aborted"}, Lost <= Lost',
         \A w \in Worker :
           \/ todo'[w] = todo[w]
           \/ /\ todo'[w] \in {<<>>, <<CloseRun>>}
              /\ \/ todo[w] = <<>> \/ todo[w][1].op # "save"
                 \/ Lost + 1 <= Lost'
  PROVE  RunInv' /\ FixInv' /\ \A w \in Worker : ScriptFits(todo[w])'
<1>1. RunInv /\ FixInv /\ \A w \in Worker : ScriptFits(todo[w])
  BY DEF GateInv
<1>2. /\ Lost \in Nat /\ Lost' \in Nat /\ hist.fixes \in Nat
      /\ ctx.fixes \in Nat /\ todo \in [Worker -> Seq(Write)]
      /\ todo' \in [Worker -> Seq(Write)]
  <2>1. env'.crashes \in Nat /\ env'.throws \in Nat
    BY DEF TypeOK
  <2>2. Lost' \in Nat
    BY <2>1 DEF Lost
  <2>3. todo \in [Worker -> Seq(Write)] /\ todo' \in [Worker -> Seq(Write)]
    BY DEF TypeOK
  <2> QED BY <2>2, <2>3, Numbers, ContextTypes
<1>3. Due \subseteq Due' /\ Seq(Due) \subseteq Seq(Due')
  BY DueKept DEF PlanSettled, PlanFits, Unplanned
<1>4. RunInv'
  BY <1>1 DEF RunInv, StateFits, PlanInv, BuildInv, PlanSettled,
     PlanFits, Unplanned, Allowed, Settled, Early, Specified, Building
<1>5. \A c \in Context : (PlanFits(c) => PlanFits(c)')
                         /\ (FixFits(c) => FixFits(c)')
  BY FitsKept
<1>6. ASSUME NEW w \in Worker
      PROVE  ScriptFits(todo[w])'
  <2>1. CASE todo'[w] \in {<<>>, <<CloseRun>>}
    <3>1. CloseRun \in Due' /\ <<>> \in Seq(Due')
      BY <1>3, DueWrites, Tuples
    <3>2. <<CloseRun>> \in Seq(Due')
      BY <3>1, Tuples
    <3> QED BY <2>1, <3>1, <3>2 DEF ScriptFits
  <2>2. CASE todo'[w] = todo[w]
    <3>1. PICK s \in Seq(Write) : s = todo[w] /\ s = todo'[w]
      BY <1>2, <2>2
    <3>2. \A i \in 1 .. Len(s) : s[i] \in Write
      OBVIOUS
    <3>3. ASSUME NEW e \in Write, Plans(e)
          PROVE  Plans(e)'
      BY <1>5, <3>3, FieldTypes DEF Plans
    <3>4. CASE s \in Seq(Due)
      BY <1>3, <3>1, <3>4 DEF ScriptFits
    <3>5. CASE SetsOut(s)
      <4>1. Len(s) = 2 /\ s[2] \in Write /\ (Plans(s[2]) => Plans(s[2])')
        BY <3>2, <3>3, <3>5 DEF SetsOut
      <4>2. SetsOut(s)'
        BY <3>5, <4>1 DEF SetsOut
      <4> QED BY <3>1, <4>2 DEF ScriptFits
    <3>6. CASE Planning(s)
      <4>1. Len(s) = 1 /\ s[1] \in Write /\ Plans(s[1])'
        BY <3>2, <3>3, <3>6 DEF Planning
      <4>2. Planning(s)'
        BY <3>6, <4>1 DEF Planning, Settled, Early
      <4> QED BY <3>1, <4>2 DEF ScriptFits
    <3>7. CASE Presenting(s)
      <4>1. s # <<>> /\ s[1] \in Write
        BY <3>2, <3>7, Tails DEF Presenting, ToPresent
      <4>2. s[1].op = "save" => s[1].ctx \in Context
        BY <4>1, FieldTypes
      <4>3. /\ ToPresent(s, 1) => ToPresent(s, 1)'
            /\ ToPresent(s, 2) => ToPresent(s, 2)'
            /\ PlanFits(ctx) => PlanFits(ctx)'
        BY DEF ToPresent, PlanFits
      <4>4. Presenting(s)'
        BY <1>5, <3>7, <4>2, <4>3 DEF Presenting
      <4> QED BY <3>1, <4>4 DEF ScriptFits
    <3>8. CASE Fixing(s)
      <4>1. s[2] \in Write /\ s[2].op = "save" /\ s[2].ctx \in Context
        BY <3>2, <3>8, FieldTypes DEF Fixing
      <4>2. PlanFits(s[2].ctx)' /\ hist'.fixes <= ctx'.fixes + Lost'
        BY <1>2, <1>5, <3>8, <4>1 DEF Fixing
      <4>3. Fixing(s)'
        BY <3>8, <4>2 DEF Fixing
      <4> QED BY <3>1, <4>3 DEF ScriptFits
    <3> QED BY <1>1, <3>1, <3>4, <3>5, <3>6, <3>7, <3>8 DEF ScriptFits
  <2> QED BY <2>1, <2>2
<1>7. FixInv'
  <2>1. CASE hist.fixes <= ctx.fixes + Lost
    BY <1>2, <2>1 DEF FixInv
  <2>2. ASSUME NEW w \in Worker, FixToRecord(w)
        PROVE  FixInv'
    <3>1. /\ todo[w] # <<>> /\ todo[w][1].op = "save" /\ Len(todo[w]) = 1
          /\ FixFits(todo[w][1].ctx) /\ hist.fixes <= ctx.fixes + 1 + Lost
      BY <1>2, <2>2, Single DEF FixToRecord
    <3>2. CASE todo'[w] = todo[w]
      <4>1. PICK f \in Write : f = todo[w][1]
        BY <1>2, <3>1, Tails
      <4>2. f.ctx \in Context /\ FixFits(f.ctx)
        BY <3>1, <4>1, FieldTypes
      <4>3. FixFits(f.ctx)' /\ hist'.fixes <= ctx'.fixes + 1 + Lost'
        BY <1>2, <1>5, <3>1, <4>2
      <4>4. FixToRecord(w)'
        BY <3>1, <3>2, <4>1, <4>3 DEF FixToRecord, FixFits
      <4> QED BY <4>4 DEF FixInv
    <3>3. CASE Lost + 1 <= Lost'
      BY <1>2, <3>1, <3>3 DEF FixInv
    <3> QED BY <3>1, <3>2, <3>3
  <2> QED BY <1>1, <2>1, <2>2 DEF FixInv
<1> QED BY <1>4, <1>6, <1>7

LEMMA InitGate == Init => GateInv
<1> SUFFICES ASSUME Init PROVE GateInv
  OBVIOUS
<1>1. TypeOK
  BY InitTyped
<1>2. RunInv
  BY CapsAssumption DEF Init, RunInv, StateFits, PlanInv, BuildInv, Unplanned,
     Settled, Early, Specified, Building, EmptyContext, NoHistory, NoTasks
<1>3. FixInv
  <2>1. hist.fixes = 0 /\ ctx.fixes = 0
    BY DEF Init, EmptyContext, NoHistory
  <2> QED BY <1>1, <2>1, Numbers DEF FixInv
<1>4. \A w \in Worker : ScriptFits(todo[w])
  BY Tuples DEF Init, ScriptFits
<1> QED BY <1>1, <1>2, <1>3, <1>4 DEF GateInv

(* A script is cut short only once it is done, by a task that is there     *)
(* already, or by something that is counted as lost.                       *)
LetsGo(w) ==
  MarkJobDone(w) \/ CloseDeadLettered(w) \/ Crash(w) \/ Throw(w)
Elsewhere ==
  \/ IssueOpened \/ \E body \in Bodies : Comment(body)
  \/ SweepPick \/ SweepClose \/ SweepMiss \/ UNCHANGED vars

LEMMA Endings ==
  ASSUME TypeOK, NEW w \in Worker, LetsGo(w)
  PROVE  /\ UNCHANGED <<ctx, spec, plan, tasks, hist>>
         /\ state' \in {state, "failed"} /\ Lost <= Lost'
         /\ todo'[w] \in {<<>>, <<CloseRun>>}
         /\ \A v \in Worker : v # w => todo'[v] = todo[v]
         /\ \/ todo[w] = <<>> \/ todo[w][1].op \in {"refused", "close"}
            \/ TaskExists(w) /\ todo[w][1].op = "task"
            \/ Lost + 1 <= Lost'
<1>1. /\ UNCHANGED <<ctx, spec, plan, tasks, hist>>
      /\ state' \in {state, "failed"}
  BY DEF LetsGo, MarkJobDone, CloseDeadLettered, Crash, Throw, run
<1>2. /\ todo'[w] \in {<<>>, <<CloseRun>>}
      /\ \A v \in Worker : v # w => todo'[v] = todo[v]
  BY DEF LetsGo, MarkJobDone, CloseDeadLettered, Crash, Throw, LetGo, TypeOK
<1>3. \/ /\ env' = env
         /\ \/ todo[w] = <<>> \/ todo[w][1].op \in {"refused", "close"}
            \/ TaskExists(w) /\ todo[w][1].op = "task"
      \/ env' = [env EXCEPT !.crashes = @ + 1]
      \/ env' = [env EXCEPT !.throws = @ + 1]
  <2>1. todo[w] # <<>> => Head(todo[w]) = todo[w][1]
    BY Tails DEF TypeOK
  <2>2. CASE MarkJobDone(w) \/ CloseDeadLettered(w)
    BY <2>1, <2>2 DEF MarkJobDone, CloseDeadLettered, Finished, Doing
  <2>3. CASE Crash(w)
    BY <2>3 DEF Crash
  <2>4. CASE Throw(w)
    <3>1. CASE TaskExists(w)
      <4>1. env' = [env EXCEPT !.throws = @] /\ todo[w][1].op = "task"
        BY <2>1, <2>4, <3>1 DEF Throw, TaskExists, Doing
      <4> QED BY <3>1, <4>1 DEF TypeOK
    <3>2. CASE ~TaskExists(w)
      BY <2>4, <3>2 DEF Throw
    <3> QED BY <3>1, <3>2
  <2> QED BY <2>2, <2>3, <2>4 DEF LetsGo
<1>4. env.crashes \in Nat /\ env.throws \in Nat /\ Lost \in Nat
  BY Numbers DEF TypeOK
<1>5. \/ /\ Lost' = Lost
         /\ \/ todo[w] = <<>> \/ todo[w][1].op \in {"refused", "close"}
            \/ TaskExists(w) /\ todo[w][1].op = "task"
      \/ Lost' = Lost + 1
  <2>1. CASE env' = [env EXCEPT !.crashes = @ + 1]
    <3>1. env'.crashes = env.crashes + 1 /\ env'.throws = env.throws
      BY <2>1 DEF TypeOK
    <3> QED BY <1>4, <3>1 DEF Lost
  <2>2. CASE env' = [env EXCEPT !.throws = @ + 1]
    <3>1. env'.crashes = env.crashes /\ env'.throws = env.throws + 1
      BY <2>2 DEF TypeOK
    <3> QED BY <1>4, <3>1 DEF Lost
  <2> QED BY <1>3, <2>1, <2>2 DEF Lost
<1>6. Lost <= Lost' /\ (Lost' = Lost + 1 => Lost + 1 <= Lost')
  BY <1>4, <1>5
<1> QED BY <1>1, <1>2, <1>5, <1>6

LEMMA OthersElsewhere ==
  ASSUME TypeOK, Elsewhere
  PROVE  /\ UNCHANGED <<ctx, spec, plan, tasks, hist, todo>>
         /\ state' \in {state, "aborted"} /\ Lost <= Lost'
<1>1. /\ UNCHANGED <<ctx, spec, plan, tasks, hist, todo>>
      /\ state' \in {state, "aborted"}
  BY DEF Elsewhere, IssueOpened, Comment, SweepPick, SweepClose, SweepMiss,
     vars, run, hands
<1>2. env'.crashes = env.crashes /\ env'.throws = env.throws
  BY DEF Elsewhere, IssueOpened, Comment, SweepPick, SweepClose, SweepMiss,
     vars, TypeOK
<1>3. Lost' = Lost /\ Lost \in Nat
  BY <1>2, Numbers DEF Lost
<1> QED BY <1>1, <1>3

LEMMA ClaimsStart ==
  ASSUME TypeOK, NEW w \in Worker, ClaimFresh(w) \/ ClaimAgain(w)
  PROVE  \E j \in Job : Start(w, j)
<1>1. ASSUME ClaimFresh(w)
      PROVE  Head(fresh) \in Job
  BY <1>1, HeadTailProperties DEF ClaimFresh, TypeOK
<1>2. \A i \in DOMAIN again : again[i] \in Job
  BY RemoveTyped DEF TypeOK
<1> QED BY <1>1, <1>2 DEF ClaimFresh, ClaimAgain

LEMMA Steps ==
  ASSUME [Next]_vars
  PROVE  \/ \E w \in Worker : Perform(w) \/ LetsGo(w)
         \/ \E w \in Worker : ClaimFresh(w) \/ ClaimAgain(w)
         \/ Elsewhere
BY DEF Next, Work, LetsGo, Elsewhere

LEMMA StepGate == OneWorker /\ GateInv /\ [Next]_vars => GateInv'
<1> SUFFICES ASSUME OneWorker, GateInv, [Next]_vars PROVE GateInv'
  OBVIOUS
<1>1. /\ TypeOK /\ TypeOK' /\ RunInv /\ FixInv
      /\ \A w \in Worker : ScriptFits(todo[w])
  BY StepTyped DEF GateInv
<1> DEFINE Goal == RunInv' /\ FixInv' /\ \A w \in Worker : ScriptFits(todo[w])'
<1> SUFFICES Goal
  BY <1>1 DEF GateInv
<1> HIDE DEF Goal
<1>2. ASSUME NEW w \in Worker, Perform(w)
      PROVE  Goal
  <2>1. CASE todo[w] \in Seq(Due)
    BY <1>1, <1>2, <2>1, PerformDue DEF Goal, ScriptFits
  <2>2. CASE SetsOut(todo[w])
    BY <1>1, <1>2, <2>2, PerformSetsOut DEF Goal
  <2>3. CASE Planning(todo[w])
    BY <1>1, <1>2, <2>3, PerformPlanning DEF Goal
  <2>4. CASE Presenting(todo[w])
    BY <1>1, <1>2, <2>4, PerformPresenting DEF Goal
  <2>5. CASE Fixing(todo[w])
    BY <1>1, <1>2, <2>5, PerformFixing DEF Goal
  <2> QED BY <1>1, <2>1, <2>2, <2>3, <2>4, <2>5 DEF ScriptFits
<1>3. ASSUME NEW w \in Worker, ClaimFresh(w) \/ ClaimAgain(w)
      PROVE  Goal
  BY <1>1, <1>3, ClaimsStart, StartFits DEF Goal
<1>4. ASSUME NEW w \in Worker, LetsGo(w)
      PROVE  Goal
  <2>1. /\ UNCHANGED <<ctx, spec, plan, tasks, hist>>
        /\ state' \in {state, "failed"} /\ Lost <= Lost'
        /\ todo'[w] \in {<<>>, <<CloseRun>>}
        /\ \A v \in Worker : v # w => todo'[v] = todo[v]
        /\ todo[w] = <<>> \/ todo[w][1].op # "save" \/ Lost + 1 <= Lost'
    BY <1>1, <1>4, Endings
  <2>2. \A v \in Worker :
          \/ todo'[v] = todo[v]
          \/ /\ todo'[v] \in {<<>>, <<CloseRun>>}
             /\ \/ todo[v] = <<>> \/ todo[v][1].op # "save"
                \/ Lost + 1 <= Lost'
    BY <2>1
  <2> QED BY <1>1, <2>1, <2>2, OthersFit DEF Goal
<1>5. CASE Elsewhere
  <2>1. /\ UNCHANGED <<ctx, spec, plan, tasks, hist, todo>>
        /\ state' \in {state, "aborted"} /\ Lost <= Lost'
    BY <1>1, <1>5, OthersElsewhere
  <2> QED BY <1>1, <2>1, OthersFit DEF Goal
<1> QED BY <1>2, <1>3, <1>4, <1>5, Steps

(* Whatever throws, dies or is swept away, the one worker builds a plan    *)
(* only after an approval that was acted on while it was the current one.  *)
THEOREM BuiltWasReleasedAlways ==
  ASSUME OneWorker PROVE Spec => []BuiltWasReleased
<1>1. GateInv => BuiltWasReleased
  BY DEF GateInv, RunInv, BuildInv, BuiltWasReleased
<1>2. OneWorker
  OBVIOUS
<1>3. GateInv /\ [Next]_vars => GateInv'
  BY <1>2, StepGate
<1> QED BY <1>1, <1>3, InitGate, PTL DEF Spec

(* A run waiting at the plan gate waits for an answer about the plan the   *)
(* artifact, the context and the last comment all mean.                    *)
THEOREM PresentedIsCurrentAlways ==
  ASSUME OneWorker PROVE Spec => []PresentedIsCurrent
<1>1. GateInv => PresentedIsCurrent
  BY DEF GateInv, RunInv, StateFits, PlanSettled, PlanFits, Settled,
     PresentedIsCurrent
<1>2. OneWorker
  OBVIOUS
<1>3. GateInv /\ [Next]_vars => GateInv'
  BY <1>2, StepGate
<1> QED BY <1>1, <1>3, InitGate, PTL DEF Spec

(* Nothing is planned before the spec is ready: no open question, and      *)
(* criteria to meet.                                                       *)
THEOREM ReadyBeforePlanAlways ==
  ASSUME OneWorker PROVE Spec => []ReadyBeforePlan
<1>1. GateInv => ReadyBeforePlan
  BY DEF GateInv, RunInv, PlanInv, ReadyBeforePlan
<1>2. OneWorker
  OBVIOUS
<1>3. GateInv /\ [Next]_vars => GateInv'
  BY <1>2, StepGate
<1> QED BY <1>1, <1>3, InitGate, PTL DEF Spec

(* The caps on plans and fixes hold, whatever the cap and however often    *)
(* jobs are retried; each crash or error can lose the record of one fix.   *)
THEOREM CapsHoldAlways ==
  ASSUME OneWorker PROVE Spec => []CapsHold
<1>1. GateInv => CapsHold
  <2> SUFFICES ASSUME GateInv PROVE CapsHold
    OBVIOUS
  <2>1. TypeOK /\ RunInv /\ FixInv
    BY DEF GateInv
  <2>2. RevisionsBounded
    BY <2>1 DEF RunInv, PlanInv, RevisionsBounded
  <2>3. /\ hist.fixes \in Nat /\ Lost \in Nat /\ ctx.fixes \in Nat
        /\ FixRoundCap \in Nat /\ env.crashes \in Nat /\ env.throws \in Nat
    BY <2>1, Numbers, ContextTypes DEF TypeOK
  <2>4. hist.fixes <= FixRoundCap + Lost
    <3>1. CASE hist.fixes <= ctx.fixes + Lost
      BY <2>1, <2>3, <3>1 DEF RunInv, PlanInv
    <3>2. ASSUME NEW w \in Worker, FixToRecord(w)
          PROVE  hist.fixes <= FixRoundCap + Lost
      <4>1. PICK c \in Context : FixFits(c)
        <5>1. /\ todo[w] \in Seq(Write) /\ Len(todo[w]) = 1
              /\ todo[w][1].op = "save" /\ FixFits(todo[w][1].ctx)
          BY <2>1, <3>2 DEF FixToRecord, TypeOK
        <5>2. todo[w][1] \in Write
          BY <5>1, Single, Tails
        <5> QED BY <5>1, <5>2, FieldTypes
      <4>2. c.fixes \in Nat
        BY ContextTypes
      <4> QED BY <2>3, <4>1, <4>2 DEF FixFits
    <3> QED BY <2>1, <3>1, <3>2 DEF FixInv
  <2>5. FixesBounded
    BY <2>3, <2>4 DEF FixesBounded, Lost
  <2> QED BY <2>2, <2>5 DEF CapsHold
<1>2. OneWorker
  OBVIOUS
<1>3. GateInv /\ [Next]_vars => GateInv'
  BY <1>2, StepGate
<1> QED BY <1>1, <1>3, InitGate, PTL DEF Spec

-----------------------------------------------------------------------------
(* Reviews.  What the worker may still write, as far as the tasks are      *)
(* concerned: nothing about them, ...                                      *)
Plain ==
  {e \in Write : /\ e.op \notin {"task", "list", "tasks", "taskDone"}
                 /\ e.op = "move" => e.to # "reviewing"}

(* ... the rest of a plan's tasks, all behind the n there are, up to the   *)
(* last one, ...                                                           *)
Listing(s, n) ==
  /\ Len(s) > 0 /\ s[Len(s)].op = "list"
  /\ \A i \in 1 .. (Len(s) - 1) :
       \/ i = 1 /\ s[i].op = "bootstrap"
       \/ /\ s[i].op = "task" /\ s[i].idx > n
          /\ s[i].idx + Len(s) = s[i].total + 1 + i
          /\ \A k \in 1 .. (i - 1) : s[k].op = "task" => s[k].idx < s[i].idx

(* ... a task of the n there are and then those left, which together are   *)
(* the ones not done, or ...                                               *)
Looping(s, n, undone) ==
  /\ Len(s) > 0 /\ s[Len(s)].op = "tasks" /\ s[Len(s)].left \subseteq 1 .. n
  /\ \A i \in 1 .. (Len(s) - 1) :
       /\ s[i].op \in {"commit", "save", "taskDone"}
       /\ s[i].op = "taskDone" => s[i].task \in 1 .. n
  /\ \A t \in undone :
       \/ t \in s[Len(s)].left
       \/ \E i \in 1 .. (Len(s) - 1) : s[i].op = "taskDone" /\ s[i].task = t

(* ... that all are done.                                                  *)
Undone == (1 .. tasks.n) \ tasks.done
Reviews(s) ==
  /\ Len(s) = 2 /\ s[1] = To("reviewing") /\ s[2] = Enq("review")
  /\ Undone = {}
TasksFit(s) ==
  \/ s \in Seq(Plain)
  \/ Listing(s, tasks.n) /\ state # "reviewing"
  \/ Looping(s, tasks.n, Undone)
  \/ Reviews(s)

(* Tasks are missing only while they are being recorded, or if that was    *)
(* cut short.                                                              *)
RowsFit ==
  /\ tasks.done \subseteq 1 .. tasks.n
  /\ state = "reviewing" => Undone = {}
ListFits ==
  \/ tasks.n = tasks.total \/ Lost > 0
  \/ \E w \in Worker : todo[w] # <<>> /\ todo[w][1].op = "task"
ReviewInv ==
  /\ TypeOK /\ RowsFit /\ ListFits
  /\ \A w \in Worker : TasksFit(todo[w])

LEMMA PlainWrites == Covers(Plain, RunState \ {"reviewing"})
<1>1. \A s \in RunState \ {"reviewing"} : To(s) \in Plain
  BY WriteTypes DEF Plain, To
<1>2. \A type \in JobType : Enq(type) \in Plain
  BY WriteTypes DEF Plain, Enq
<1>3. \A type \in JobType, j \in Job : Forward(type, j) \in Plain
  BY WriteTypes DEF Plain, Forward
<1>4. \A c \in Context : Save(c) \in Plain
  BY WriteTypes DEF Plain, Save
<1>5. \A c \in Context, n \in Nat : RecordPlan(c, n) \in Plain
  BY WriteTypes DEF Plain, RecordPlan
<1>6. \A v \in Nat : Present(v) \in Plain /\ Approve(v) \in Plain
  BY WriteTypes DEF Plain, Present, Approve
<1>7. {RecordSpec, FixCommit, Refuse, Refused, CloseRun} \subseteq Plain
  BY WriteTypes DEF Plain, RecordSpec, FixCommit, Refuse, Refused, CloseRun
<1> QED BY <1>1, <1>2, <1>3, <1>4, <1>5, <1>6, <1>7 DEF Covers

LEMMA PlainStops ==
  Stops \subseteq Plain /\ Stopped \subseteq Seq(Plain) /\ Fail \in Seq(Plain)
<1>1. "failed" \in RunState \ {"reviewing"}
  BY StateTypes
<1>2. Stops \subseteq Plain
  BY <1>1, PlainWrites DEF Covers, Stops
<1> QED BY <1>2, StoppedScripts

(* One write before a script, and one behind it.                           *)
LEMMA Prefixed ==
  ASSUME NEW W, NEW s \in Seq(W), NEW a \in W
  PROVE  /\ <<a>> \o s \in Seq(W) /\ Len(<<a>> \o s) = Len(s) + 1
         /\ (<<a>> \o s)[1] = a
         /\ \A i \in 1 .. Len(s) : (<<a>> \o s)[i + 1] = s[i]
<1> DEFINE h == <<a>>
           q == h \o s
<1>1. h \in Seq(W) /\ Len(h) = 1 /\ h[1] = a /\ Len(s) \in Nat
  OBVIOUS
<1> HIDE DEF h
<1>2. /\ q \in Seq(W) /\ Len(q) = Len(h) + Len(s)
      /\ \A i \in 1 .. (Len(h) + Len(s)) :
           q[i] = IF i <= Len(h) THEN h[i] ELSE s[i - Len(h)]
  BY <1>1, ConcatProperties
<1> HIDE DEF q
<1>3. Len(q) = Len(s) + 1 /\ q[1] = a /\ \A i \in 1 .. Len(s) : q[i + 1] = s[i]
  BY <1>1, <1>2
<1> QED BY <1>2, <1>3 DEF q, h

LEMMA Suffixed ==
  ASSUME NEW W, NEW s \in Seq(W), NEW a \in W
  PROVE  /\ s \o <<a>> \in Seq(W) /\ Len(s \o <<a>>) = Len(s) + 1
         /\ (s \o <<a>>)[Len(s) + 1] = a
         /\ \A i \in 1 .. Len(s) : (s \o <<a>>)[i] = s[i]
<1> DEFINE h == <<a>>
           q == s \o h
<1>1. h \in Seq(W) /\ Len(h) = 1 /\ h[1] = a /\ Len(s) \in Nat
  OBVIOUS
<1> HIDE DEF h
<1>2. /\ q \in Seq(W) /\ Len(q) = Len(s) + Len(h)
      /\ \A i \in 1 .. (Len(s) + Len(h)) :
           q[i] = IF i <= Len(s) THEN s[i] ELSE h[i - Len(s)]
  BY <1>1, ConcatProperties
<1> HIDE DEF q
<1>3. /\ Len(q) = Len(s) + 1 /\ q[Len(s) + 1] = a
      /\ \A i \in 1 .. Len(s) : q[i] = s[i]
  BY <1>1, <1>2
<1> QED BY <1>2, <1>3 DEF q, h

(* The tasks of a plan, in a row.                                          *)
LEMMA AllRecorded ==
  ASSUME NEW v \in Nat, NEW n \in Nat, NEW c \in Context
  PROVE  LET s == RecordTasks(v, n) \o <<ListTasks(c)>>
         IN  /\ s \in Seq(Write) /\ Len(s) = n + 1 /\ s[n + 1] = ListTasks(c)
             /\ \A i \in 1 .. n : s[i] = RecordTask(v, i, n)
<1> DEFINE e(i) == RecordTask(v, i, n)
           a == [i \in 1 .. n |-> e(i)]
           b == <<ListTasks(c)>>
<1>1. \A i \in 1 .. n : e(i) \in Write
  BY WriteTypes
<1>2. b \in Seq(Write) /\ Len(b) = 1 /\ b[1] = ListTasks(c)
  BY WriteTypes, Tuples
<1> HIDE DEF e, b
<1>3. a \in Seq(Write) /\ Len(a) = n /\ \A i \in 1 .. n : a[i] = e(i)
  BY <1>1
<1> HIDE DEF a
<1>4. /\ a \o b \in Seq(Write) /\ Len(a \o b) = n + 1
      /\ \A i \in 1 .. (n + 1) :
           (a \o b)[i] = IF i <= n THEN a[i] ELSE b[i - n]
  <2>1. /\ a \o b \in Seq(Write) /\ Len(a \o b) = Len(a) + Len(b)
        /\ \A i \in 1 .. (Len(a) + Len(b)) :
             (a \o b)[i] = IF i <= Len(a) THEN a[i] ELSE b[i - Len(a)]
    BY <1>2, <1>3, ConcatProperties
  <2> QED BY <1>2, <1>3, <2>1
<1>5. (a \o b)[n + 1] = ListTasks(c) /\ \A i \in 1 .. n : (a \o b)[i] = e(i)
  BY <1>2, <1>3, <1>4
<1>6. RecordTasks(v, n) = a
  BY DEF RecordTasks, a, e
<1> QED BY <1>4, <1>5, <1>6 DEF e, b

LEMMA BootedListing ==
  ASSUME NEW s \in Seq(Write), NEW d \in Seq(Write), NEW n \in Nat,
         Len(s) = Len(d) + 1, \A i \in 1 .. Len(d) : s[i + 1] = d[i],
         s[1].op = "bootstrap", Listing(d, n), d[1].op # "bootstrap"
  PROVE  Listing(s, n)
<1>1. Len(d) \in Nat \ {0} /\ s[Len(s)].op = "list"
  BY DEF Listing
<1>2. ASSUME NEW i \in 1 .. (Len(s) - 1), i # 1
      PROVE  /\ s[i].op = "task" /\ s[i].idx > n
             /\ s[i].idx + Len(s) = s[i].total + 1 + i
             /\ \A k \in 1 .. (i - 1) :
                  s[k].op = "task" => s[k].idx < s[i].idx
  <2> DEFINE j == i - 1
  <2>1. /\ j \in 1 .. (Len(d) - 1) /\ j \in 1 .. Len(d) /\ i = j + 1
        /\ d[j] \in Write
    BY <1>1, <1>2
  <2>s. s[i] = d[j]
    BY <2>1
  <2> HIDE DEF j
  <2>2. /\ d[j].op = "task" /\ d[j].idx > n
        /\ d[j].idx + Len(d) = d[j].total + 1 + j
        /\ \A k \in 1 .. (j - 1) : d[k].op = "task" => d[k].idx < d[j].idx
    BY <2>1 DEF Listing
  <2>3. d[j].idx \in Nat /\ d[j].total \in Nat
    BY <2>1, <2>2, FieldTypes
  <2>4. s[i].idx + Len(s) = s[i].total + 1 + i
    <3>1. PICK x \in Nat, y \in Nat, l \in Nat :
            x = s[i].idx /\ y = s[i].total /\ l = Len(d)
      BY <1>1, <2>3, <2>s
    <3>2. x + l = y + 1 + j
      BY <2>2, <2>s, <3>1
    <3>3. PICK m \in Nat : m = j /\ i = m + 1
      BY <2>1
    <3>4. x + l = y + 1 + m
      BY <3>2, <3>3
    <3>5. x + (l + 1) = y + 1 + (m + 1)
      BY <3>4
    <3> QED BY <3>1, <3>3, <3>5
  <2>5. ASSUME NEW k \in 1 .. (i - 1), s[k].op = "task"
        PROVE  s[k].idx < s[i].idx
    <3>1. /\ k # 1 /\ k - 1 \in 1 .. (j - 1) /\ k - 1 \in 1 .. Len(d)
          /\ k = (k - 1) + 1
      BY <1>1, <2>1, <2>5
    <3>2. s[k] = d[k - 1]
      BY <3>1
    <3> QED BY <2>1, <2>2, <2>5, <2>s, <3>1, <3>2
  <2> QED BY <2>1, <2>2, <2>4, <2>5, <2>s
<1> QED BY <1>1, <1>2 DEF Listing

ImplementStops(r) ==
  {<<>>} \cup Stopped \cup {<<Bootstrap(r.plan)>> \o d : d \in Stopped}

LEMMA ImplementShapes ==
  ASSUME NEW r \in Snapshot, NEW s \in handleImplement(r)
  PROVE  s \in ImplementStops(r) \/ (s \in Seq(Write) /\ Listing(s, r.tasks))
<1>0. r.plan \in Nat /\ r.ctx \in Context /\ r.tasks \in Nat
  BY DEF Snapshot
<1>1. \/ s = <<>> \/ s \in {<<Refuse>>, Fail}
      \/ \E b \in {<<>>, <<Bootstrap(r.plan)>>}, d \in Decompositions(r) :
           s = b \o d
  BY DEF handleImplement, Skip
<1>2. CASE s = <<>> \/ s \in {<<Refuse>>, Fail}
  BY <1>2 DEF Stopped, ImplementStops
<1>3. ASSUME NEW b \in {<<>>, <<Bootstrap(r.plan)>>},
             NEW d \in Decompositions(r), s = b \o d
      PROVE  s \in ImplementStops(r)
             \/ (s \in Seq(Write) /\ Listing(s, r.tasks))
  <2>0. /\ Bootstrap(r.plan) \in Write /\ Bootstrap(r.plan).op = "bootstrap"
        /\ Bootstrap(r.plan) \in Plain
    BY <1>0, WriteTypes DEF Bootstrap, Plain
  <2>1. CASE d \in Stopped
    <3>1. d \in Seq(Plain)
      BY <2>1, PlainStops
    <3>2. <<>> \o d = d
      BY <3>1, ConcatEmptySeq
    <3> QED BY <1>3, <2>1, <3>2 DEF ImplementStops
  <2>2. CASE d \in Seq(Write) /\ Listing(d, r.tasks) /\ d[1].op # "bootstrap"
    <3>1. CASE b = <<>>
      BY <1>3, <2>2, <3>1, ConcatEmptySeq
    <3>2. CASE b = <<Bootstrap(r.plan)>>
      <4>1. b \in Seq(Write) /\ Len(b) = 1 /\ b[1] = Bootstrap(r.plan)
        BY <2>0, <3>2, Tuples
      <4>2. /\ s \in Seq(Write) /\ Len(s) = Len(b) + Len(d)
            /\ \A i \in 1 .. (Len(b) + Len(d)) :
                 s[i] = IF i <= Len(b) THEN b[i] ELSE d[i - Len(b)]
        <5>1. /\ b \o d \in Seq(Write) /\ Len(b \o d) = Len(b) + Len(d)
              /\ \A i \in 1 .. Len(b) + Len(d) :
                   (b \o d)[i] = IF i <= Len(b) THEN b[i] ELSE d[i - Len(b)]
          <6>1. b \in Seq(Write) /\ d \in Seq(Write)
            BY <2>2, <4>1
          <6> HIDE <1>3
          <6> QED BY ONLY <6>1, ConcatProperties
        <5> QED BY <1>3, <5>1
      <4>3. Len(d) \in Nat
        BY <2>2
      <4>4. /\ Len(s) = Len(d) + 1 /\ s[1] = Bootstrap(r.plan)
            /\ \A i \in 1 .. Len(d) : s[i + 1] = d[i]
        BY <4>1, <4>2, <4>3
      <4> QED BY <1>0, <2>0, <2>2, <4>2, <4>4, BootedListing
    <3> QED BY <3>1, <3>2
  <2>3. ListTasks(r.ctx).op = "list" /\ ListTasks(r.ctx) \in Write
    BY <1>0, WriteTypes DEF ListTasks
  <2>4. CASE d = <<ListTasks(r.ctx)>>
    <3>1. d \in Seq(Write) /\ Len(d) = 1 /\ d[1] = ListTasks(r.ctx)
      BY <2>3, <2>4, Tuples
    <3> QED BY <2>2, <2>3, <3>1 DEF Listing
  <2>5. ASSUME NEW n \in 0 .. MaxTasks, r.tasks = 0,
               d = RecordTasks(r.plan, n) \o <<ListTasks(r.ctx)>>
        PROVE  d \in Seq(Write) /\ Listing(d, r.tasks) /\ d[1].op # "bootstrap"
    <3>0. n \in Nat
      BY TasksAssumption
    <3>1. /\ d \in Seq(Write) /\ Len(d) = n + 1 /\ d[n + 1] = ListTasks(r.ctx)
          /\ \A i \in 1 .. n : d[i] = RecordTask(r.plan, i, n)
      BY <1>0, <2>5, <3>0, AllRecorded
    <3>2. \A i \in 1 .. n : d[i].op = "task" /\ d[i].idx = i /\ d[i].total = n
      <4> TAKE i \in 1 .. n
      <4>1. d[i] = RecordTask(r.plan, i, n)
        BY <3>1
      <4> QED BY <4>1 DEF RecordTask
    <3>3. n = 0 => d[1] = ListTasks(r.ctx)
      BY <3>1
    <3>4. Listing(d, r.tasks)
      BY <2>3, <2>5, <3>0, <3>1, <3>2 DEF Listing
    <3>5. d[1].op # "bootstrap"
      BY <2>3, <3>0, <3>2, <3>3
    <3> QED BY <3>1, <3>4, <3>5
  <2>6. \/ d \in Stopped \/ d = <<ListTasks(r.ctx)>>
        \/ /\ r.tasks = 0
           /\ \E n \in 0 .. MaxTasks :
                d = RecordTasks(r.plan, n) \o <<ListTasks(r.ctx)>>
    BY <1>0 DEF Decompositions
  <2> QED BY <2>1, <2>2, <2>4, <2>5, <2>6
<1> QED BY <1>1, <1>2, <1>3

LEMMA ImplementStopsPlain ==
  ASSUME NEW r \in Snapshot
  PROVE  ImplementStops(r) \subseteq Seq(Plain)
<1>1. Bootstrap(r.plan) \in Plain
  BY WriteTypes DEF Snapshot, Bootstrap, Plain
<1>2. \A d \in Stopped : <<Bootstrap(r.plan)>> \o d \in Seq(Plain)
  BY <1>1, PlainStops, Prefixed
<1> QED BY <1>2, PlainStops, Tuples DEF ImplementStops

LEMMA HandlersPlain ==
  ASSUME NEW j \in Job, NEW r \in Snapshot, NEW s \in dispatch(j, r)
  PROVE  \/ s \in Seq(Plain)
         \/ /\ r.state = "implementing"
            /\ s \in Seq(Write) /\ Listing(s, r.tasks)
<1>1. OrdinaryStates \cup {"implementing"} \subseteq RunState \ {"reviewing"}
  BY StateTypes DEF OrdinaryStates
<1>2. CASE r.state # "implementing"
  <2>1. /\ GuardedWrites(j, r, Plain)
        /\ \A q : PlanScript(r, q) \/ FixScript(r, q) => q \in Seq(Plain)
    BY <1>1, <1>2, PlainWrites, HandlersCovered
  <2> QED BY <2>1, Dispatched
<1>3. CASE r.state = "implementing"
  <2>1. \/ s = <<>> \/ s \in handleProduceSpec(r) \/ s \in handleImplement(r)
    <3>1. j.type \in JobType
      BY DEF Job
    <3> QED BY <1>3, <3>1 DEF dispatch, JobType, handleIssueOpened,
          handleClarify, handleResumeClarification, handleProducePlan,
          handleResumePlanDecision, handleResumeImplementation, handleReview,
          handleFix, Skip
  <2>2. CASE s \in handleProduceSpec(r)
    <3>1. Specs(r.ctx) \subseteq Plain
      <4>1. r.ctx \in Context
        BY DEF Snapshot
      <4> QED BY <4>1, PlainWrites, ContextTypes DEF Specs, Covers
    <3>2. {To("specifying"), To("unsupported"), RecordSpec, Enq("clarify")}
            \subseteq Plain
      BY <1>1, PlainWrites DEF Covers, OrdinaryStates, JobType
    <3>3. ProduceSpecWrites(r) \subseteq Plain
      BY <3>1, <3>2, PlainStops DEF ProduceSpecWrites
    <3> QED BY <2>2, <3>3, ProduceSpecScripts, SeqMonotonic, Tuples
  <2> QED BY <1>3, <2>1, <2>2, ImplementShapes, ImplementStopsPlain, Tuples
<1> QED BY <1>2, <1>3

(* What is left of a list, or of a round of the loop, once its first write *)
(* is done.                                                                *)
LEMMA ListingTail ==
  ASSUME NEW s \in Seq(Write), NEW n \in Nat, Listing(s, n), Len(s) > 1,
         NEW m \in Nat, m = n \/ (s[1].op = "task" /\ m = s[1].idx)
  PROVE  Listing(Tail(s), m)
<1> DEFINE t == Tail(s)
<1>1. /\ s # <<>> /\ Len(s) \in Nat \ {0} /\ Len(t) = Len(s) - 1
      /\ \A i \in 1 .. (Len(s) - 1) : t[i] = s[i + 1]
  <2>1. s # <<>>
    OBVIOUS
  <2> QED BY <2>1, Tails
<1> HIDE DEF t
<1>2. PICK l \in Nat : Len(s) = l + 1 /\ l > 0
  BY <1>1
<1>3. Len(t) = l /\ t[l] = s[l + 1] /\ s[l + 1].op = "list"
  BY <1>1, <1>2 DEF Listing
<1>4. ASSUME NEW i \in 1 .. (l - 1)
      PROVE  /\ t[i].op = "task" /\ t[i].idx > m
             /\ t[i].idx + l = t[i].total + 1 + i
             /\ \A k \in 1 .. (i - 1) :
                  t[k].op = "task" => t[k].idx < t[i].idx
  <2>1. i + 1 \in 1 .. (Len(s) - 1) /\ i + 1 # 1 /\ t[i] = s[i + 1]
        /\ i + 1 \in 1 .. Len(s)
    BY <1>1, <1>2
  <2>2. /\ s[i + 1].op = "task" /\ s[i + 1].idx > n
        /\ s[i + 1].idx + Len(s) = s[i + 1].total + 1 + (i + 1)
        /\ \A k \in 1 .. ((i + 1) - 1) :
             s[k].op = "task" => s[k].idx < s[i + 1].idx
    BY <2>1 DEF Listing
  <2>3. PICK x \in Nat, y \in Nat : x = t[i].idx /\ y = t[i].total
    BY <2>1, <2>2, FieldTypes
  <2>4. x + (l + 1) = y + 1 + (i + 1)
    BY <1>2, <2>1, <2>2, <2>3
  <2>5. x + l = y + 1 + i
    BY <2>4
  <2>6. x > m
    <3>1. CASE m = n
      BY <2>1, <2>2, <2>3, <3>1
    <3>2. CASE s[1].op = "task" /\ m = s[1].idx
      <4>1. 1 \in 1 .. ((i + 1) - 1)
        OBVIOUS
      <4>2. m < x
        BY <2>1, <2>2, <2>3, <3>2, <4>1
      <4> QED BY <4>2
    <3> QED BY <3>1, <3>2
  <2>7. ASSUME NEW k \in 1 .. (i - 1), t[k].op = "task"
        PROVE  t[k].idx < t[i].idx
    <3>1. k + 1 \in 1 .. ((i + 1) - 1) /\ k \in 1 .. (Len(s) - 1)
      BY <1>2
    <3>2. t[k] = s[k + 1]
      BY <1>1, <3>1
    <3> QED BY <2>1, <2>2, <2>7, <3>1, <3>2
  <2> QED BY <2>1, <2>2, <2>3, <2>5, <2>6, <2>7
<1> QED BY <1>2, <1>3, <1>4 DEF Listing, t

LEMMA LoopingTail ==
  ASSUME NEW s \in Seq(Write), NEW n, NEW U, NEW V \in SUBSET U,
         Looping(s, n, U), Len(s) > 1,
         s[1].op = "taskDone" => s[1].task \notin V
  PROVE  Looping(Tail(s), n, V)
<1> DEFINE t == Tail(s)
<1>1. /\ s # <<>> /\ Len(s) \in Nat \ {0} /\ Len(t) = Len(s) - 1
      /\ \A i \in 1 .. (Len(s) - 1) : t[i] = s[i + 1]
  <2>1. s # <<>>
    OBVIOUS
  <2> QED BY <2>1, Tails
<1> HIDE DEF t
<1>2. PICK l \in Nat : Len(s) = l + 1 /\ l > 0
  BY <1>1
<1>3. Len(t) = l /\ t[l] = s[l + 1]
  BY <1>1, <1>2
<1>4. \A i \in 1 .. (l - 1) : t[i] = s[i + 1] /\ i + 1 \in 1 .. (Len(s) - 1)
  BY <1>1, <1>2
<1>5. ASSUME NEW u \in V
      PROVE  \/ u \in t[l].left
             \/ \E i \in 1 .. (l - 1) : t[i].op = "taskDone" /\ t[i].task = u
  <2>1. CASE u \in s[Len(s)].left
    BY <1>2, <1>3, <2>1
  <2>2. ASSUME NEW k \in 1 .. (Len(s) - 1),
               s[k].op = "taskDone" /\ s[k].task = u
        PROVE  \E i \in 1 .. (l - 1) : t[i].op = "taskDone" /\ t[i].task = u
    <3>1. k # 1
      BY <2>2
    <3>2. PICK i \in 1 .. (l - 1) : k = i + 1
      <4>1. k - 1 \in 1 .. (l - 1) /\ k = (k - 1) + 1
        BY <1>2, <3>1
      <4> QED BY <4>1
    <3> QED BY <1>4, <2>2, <3>2
  <2> QED BY <2>1, <2>2 DEF Looping
<1> QED BY <1>2, <1>3, <1>4, <1>5 DEF Looping, t

(* A task that lands is marked done on the way to the next round, with or  *)
(* without a commit before it.                                             *)
LEMMA LandedLoops ==
  ASSUME NEW c \in Context, NEW left \in SUBSET Nat, NEW t \in left,
         NEW n \in Nat, left \subseteq 1 .. n, NEW U \in SUBSET left
  PROVE  Landed(c, t, left) \in Seq(Write) /\ Looping(Landed(c, t, left), n, U)
<1> DEFINE d == TaskDone(t)
           k == Tasks(Cleared(c, t), left \ {t})
           v == ClearHelp(c, t)
           h == <<d>> \o v
           s == h \o <<k>>
<1>1. /\ d \in Write /\ d.op = "taskDone" /\ d.task = t /\ t \in 1 .. n
      /\ k \in Write /\ k.op = "tasks" /\ k.left = left \ {t}
      /\ k.left \subseteq 1 .. n
  <2>1. Cleared(c, t) \in Context
    BY ContextTypes
  <2>2. d \in Write /\ k \in Write
    BY <2>1, WriteTypes
  <2>3. d.op = "taskDone" /\ d.task = t /\ k.op = "tasks" /\ k.left = left \ {t}
    BY DEF TaskDone, Tasks
  <2> QED BY <2>2, <2>3
<1>2. v \in Seq(Write) /\ \A i \in 1 .. Len(v) : v[i].op = "save"
  <2>1. Save(Cleared(c, t)) \in Write /\ Save(Cleared(c, t)).op = "save"
    BY ContextTypes, WriteTypes DEF Save
  <2>2. CASE v = <<>>
    BY <2>2
  <2>3. CASE v = <<Save(Cleared(c, t))>>
    BY <2>1, <2>3
  <2> QED BY <2>2, <2>3 DEF ClearHelp
<1>3. Landed(c, t, left) = s
  BY DEF Landed
<1> HIDE DEF d, k, v
<1>4. /\ h \in Seq(Write) /\ Len(h) = Len(v) + 1 /\ h[1] = d
      /\ \A i \in 1 .. Len(v) : h[i + 1] = v[i]
  BY <1>1, <1>2, Prefixed
<1> HIDE DEF h
<1>5. /\ s \in Seq(Write) /\ Len(s) = Len(h) + 1 /\ s[Len(h) + 1] = k
      /\ \A i \in 1 .. Len(h) : s[i] = h[i]
  BY <1>1, <1>4, Suffixed
<1> HIDE DEF s
<1>6. PICK l \in Nat : Len(v) = l
  BY <1>2
<1>7. Len(h) = l + 1 /\ Len(s) = l + 2 /\ s[l + 2] = k /\ s[1] = d
  BY <1>4, <1>5, <1>6
<1>8. ASSUME NEW i \in 1 .. (l + 1)
      PROVE  /\ s[i].op \in {"commit", "save", "taskDone"}
             /\ s[i].op = "taskDone" => s[i].task \in 1 .. n
  <2>1. CASE i = 1
    BY <1>1, <1>7, <2>1
  <2>2. CASE i # 1
    <3>1. PICK j \in 1 .. l : i = j + 1
      <4>1. i - 1 \in 1 .. l /\ i = (i - 1) + 1
        BY <1>6, <2>2
      <4> QED BY <4>1
    <3>2. s[i] = v[j]
      BY <1>4, <1>5, <1>6, <1>7, <3>1
    <3> QED BY <1>2, <1>6, <3>1, <3>2
  <2> QED BY <2>1, <2>2
<1>9. \A u \in U : u \in k.left \/ (s[1].op = "taskDone" /\ s[1].task = u)
  BY <1>1, <1>7
<1>10. Looping(s, n, U)
  <2>1. Len(s) - 1 = l + 1 /\ 1 \in 1 .. (l + 1) /\ Len(s) > 0
        /\ s[Len(s)] = k
    BY <1>6, <1>7
  <2> QED BY <1>1, <1>8, <1>9, <2>1 DEF Looping
<1> QED BY <1>3, <1>5, <1>10

LEMMA CommitLoops ==
  ASSUME NEW s \in Seq(Write), NEW n, NEW U, Looping(s, n, U),
         NEW t \in Nat
  PROVE  Looping(<<Commit(t)>> \o s, n, U)
<1> DEFINE q == <<Commit(t)>> \o s
<1>1. Commit(t) \in Write /\ Commit(t).op = "commit"
  BY WriteTypes DEF Commit
<1>2. /\ Len(q) = Len(s) + 1 /\ q[1] = Commit(t)
      /\ \A i \in 1 .. Len(s) : q[i + 1] = s[i]
  BY <1>1, Prefixed
<1> HIDE DEF q
<1>3. PICK l \in Nat : Len(s) = l /\ l > 0
  BY DEF Looping
<1>4. Len(q) = l + 1 /\ q[l + 1] = s[l]
  BY <1>2, <1>3
<1>5. ASSUME NEW i \in 1 .. l
      PROVE  /\ q[i].op \in {"commit", "save", "taskDone"}
             /\ q[i].op = "taskDone" => q[i].task \in 1 .. n
  <2>1. CASE i = 1
    BY <1>1, <1>2, <2>1
  <2>2. CASE i # 1
    <3>1. PICK j \in 1 .. (l - 1) : i = j + 1
      <4>1. i - 1 \in 1 .. (l - 1) /\ i = (i - 1) + 1
        BY <1>3, <2>2
      <4> QED BY <4>1
    <3>2. q[i] = s[j]
      BY <1>2, <1>3, <3>1
    <3> QED BY <1>3, <3>1, <3>2 DEF Looping
  <2> QED BY <2>1, <2>2
<1>6. ASSUME NEW u \in U
      PROVE  \/ u \in q[l + 1].left
             \/ \E i \in 1 .. l : q[i].op = "taskDone" /\ q[i].task = u
  <2>1. CASE u \in s[l].left
    BY <1>4, <2>1
  <2>2. ASSUME NEW j \in 1 .. (l - 1), s[j].op = "taskDone" /\ s[j].task = u
        PROVE  \E i \in 1 .. l : q[i].op = "taskDone" /\ q[i].task = u
    <3>1. j + 1 \in 1 .. l /\ q[j + 1] = s[j]
      BY <1>2, <1>3
    <3> QED BY <2>2, <3>1
  <2> QED BY <1>3, <2>1, <2>2 DEF Looping
<1>7. s[l].op = "tasks" /\ s[l].left \subseteq 1 .. n
  BY <1>3 DEF Looping
<1>8. Len(q) > 0 /\ Len(q) - 1 = l
  BY <1>3, <1>4
<1>9. Looping(q, n, U)
  BY <1>4, <1>5, <1>6, <1>7, <1>8 DEF Looping
<1> QED BY <1>9 DEF q

(* One round of the loop ends it, or goes on with the tasks left.          *)
LEMMA RoundShapes ==
  ASSUME NEW c \in Context, NEW left \in SUBSET Nat, NEW n \in Nat,
         left \subseteq 1 .. n, NEW U \in SUBSET left,
         NEW s \in TaskLoop(c, left)
  PROVE  \/ s \in Seq(Plain) \/ Looping(s, n, U)
         \/ s = <<To("reviewing"), Enq("review")>> /\ U = {}
<1>1. CASE left = {}
  BY <1>1 DEF TaskLoop
<1>2. CASE s \in Stopped
  BY <1>2, PlainStops
<1>3. ASSUME NEW t \in left,
             s = <<Save([c EXCEPT !.help.task = t]), To("awaiting_impl_help")>>
      PROVE  s \in Seq(Plain)
  <2>1. [c EXCEPT !.help.task = t] \in Context
    BY ContextTypes
  <2>2. Save([c EXCEPT !.help.task = t]) \in Plain
    BY <2>1, PlainWrites DEF Covers
  <2>3. To("awaiting_impl_help") \in Plain
    BY PlainWrites, StateTypes DEF Covers
  <2> QED BY <1>3, <2>2, <2>3, Tuples
<1>4. left # {} => \/ s \in Stopped
                   \/ \E t \in left :
                        \/ s = <<Save([c EXCEPT !.help.task = t]),
                                 To("awaiting_impl_help")>>
                        \/ s = Landed(c, t, left)
                        \/ s = <<Commit(t)>> \o Landed(c, t, left)
  BY DEF TaskLoop, FirstOf
<1>5. ASSUME NEW t \in left,
             s \in {Landed(c, t, left), <<Commit(t)>> \o Landed(c, t, left)}
      PROVE  Looping(s, n, U)
  BY <1>5, LandedLoops, CommitLoops
<1> QED BY <1>1, <1>2, <1>3, <1>4, <1>5

(* The first write tells which of the shapes a script has.                 *)
LEMMA FirstWrite ==
  ASSUME TypeOK, NEW w \in Worker, todo[w] # <<>>, TasksFit(todo[w])
  PROVE  /\ Head(todo[w]) = todo[w][1] /\ todo[w] \in Seq(Write)
         /\ Len(todo[w]) \in Nat \ {0} /\ todo[w][1] \in Write
         /\ todo[w] \in Seq(Plain) => todo[w][1] \in Plain
         /\ todo[w][1].op = "task" =>
              Listing(todo[w], tasks.n) /\ state # "reviewing"
              /\ todo[w][1].idx > tasks.n /\ Len(todo[w]) > 1
<1> DEFINE s == todo[w]
<1>1. /\ s \in Seq(Write) /\ Head(s) = s[1] /\ Len(s) \in Nat \ {0}
      /\ s[1] \in Write
  BY Tails DEF TypeOK
<1>2. s \in Seq(Plain) => s[1] \in Plain
  BY Tails
<1> HIDE DEF s
<1>3. Len(s) > 1 => 1 \in 1 .. (Len(s) - 1)
  BY <1>1
<1>4. ASSUME s[1].op = "task"
      PROVE  Listing(s, tasks.n) /\ state # "reviewing"
             /\ s[1].idx > tasks.n /\ Len(s) > 1
  <2>1. ~(s \in Seq(Plain))
    BY <1>2, <1>4 DEF Plain
  <2>2. ~Looping(s, tasks.n, Undone)
    BY <1>1, <1>3, <1>4 DEF Looping
  <2>3. ~Reviews(s)
    BY <1>4 DEF Reviews, To
  <2>4. Listing(s, tasks.n) /\ state # "reviewing"
    BY <2>1, <2>2, <2>3 DEF TasksFit, s
  <2> QED BY <1>1, <1>3, <1>4, <2>4 DEF Listing
<1> QED BY <1>1, <1>2, <1>4 DEF s

(* Tasks are missing only behind a write that adds one.                    *)
LEMMA NoneMissing ==
  ASSUME ReviewInv, OneWorker, NEW w \in Worker,
         todo[w] = <<>> \/ todo[w][1].op # "task"
  PROVE  tasks.n = tasks.total \/ Lost > 0
BY DEF ReviewInv, ListFits, OneWorker

(* A step that leaves the tasks alone.                                     *)
LEMMA TasksAlone ==
  ASSUME TypeOK, TypeOK', ReviewInv, OneWorker, NEW w \in Worker,
         todo[w] = <<>> \/ todo[w][1].op # "task",
         UNCHANGED <<tasks, env>>, state' = "reviewing" => state = "reviewing",
         \/ todo'[w] \in Seq(Plain)
         \/ Listing(todo'[w], tasks.n) /\ state' # "reviewing"
         \/ Looping(todo'[w], tasks.n, Undone)
         \/ todo'[w] = <<To("reviewing"), Enq("review")>> /\ Undone = {}
  PROVE  ReviewInv'
<1>1. Undone' = Undone /\ Lost' = Lost /\ tasks'.n = tasks.n
  BY DEF Undone, Lost
<1>2. RowsFit'
  BY <1>1 DEF ReviewInv, RowsFit
<1>3. ListFits'
  BY <1>1, NoneMissing DEF ListFits
<1>4. TasksFit(todo[w])'
  <2>1. CASE todo'[w] = <<To("reviewing"), Enq("review")>> /\ Undone = {}
    <3>1. /\ Len(todo'[w]) = 2 /\ todo'[w][1] = To("reviewing")
          /\ todo'[w][2] = Enq("review")
      BY <2>1
    <3> QED BY <1>1, <2>1, <3>1 DEF TasksFit, Reviews
  <2>2. Looping(todo'[w], tasks.n, Undone) =>
          Looping(todo'[w], tasks'.n, Undone')
    BY <1>1
  <2>3. Listing(todo'[w], tasks.n) => Listing(todo'[w], tasks'.n)
    BY <1>1
  <2> QED BY <2>1, <2>2, <2>3 DEF TasksFit
<1> QED BY <1>2, <1>3, <1>4 DEF ReviewInv, OneWorker

LEMMA PerformPlain ==
  ASSUME TypeOK, TypeOK', ReviewInv, OneWorker, NEW w \in Worker,
         todo[w] \in Seq(Plain), Perform(w)
  PROVE  ReviewInv'
<1> DEFINE e == Effect(w)
<1>1. /\ todo[w] # <<>> /\ e = Head(todo[w])
      /\ todo \in [Worker -> Seq(Write)]
  BY PerformOf DEF TypeOK
<1>2. /\ e = todo[w][1] /\ e \in Plain /\ e \in Write
      /\ e.op \notin {"task", "list", "tasks", "taskDone"}
      /\ e.op = "move" => e.to # "reviewing"
  BY <1>1, Tails DEF Plain
<1>3. ASSUME NEW s \in Seq(Plain), Proceed(w, s), tasks' = tasks,
             state' = "reviewing" => state = "reviewing"
      PROVE  ReviewInv'
  <2>1. todo'[w] \in Seq(Plain) /\ env' = env
    BY <1>1, <1>3, Proceeds
  <2> QED BY <1>2, <1>3, <2>1, TasksAlone
<1>4. <<>> \in Seq(Plain)
  BY Tuples
<1>5. CASE e.op = "move"
  <2>1. Proceed(w, <<>>) /\ tasks' = tasks /\ state' = e.to
    BY <1>5, PerformOf DEF Move
  <2> QED BY <1>2, <1>3, <1>4, <1>5, <2>1
<1>6. CASE e.op \in {"approve", "enqueue", "save", "spec", "present", "commit",
                     "bootstrap", "fix"}
  <2>1. /\ Proceed(w, <<>>) /\ tasks' = tasks
        /\ state' = state \/ state' = "implementing"
    BY <1>6, PerformOf
    DEF ApprovePlan, Enqueue, SaveContext, RecordSpecArtifact, PresentPlan,
        CommitCode, run
  <2> QED BY <1>3, <1>4, <2>1
<1>7. CASE e.op = "plan"
  <2>1. /\ Proceed(w, PlanGate(e.ctx, e.revisions, plan'))
        /\ tasks' = tasks /\ state' = state
    BY <1>7, PerformOf DEF RecordPlanArtifact
  <2> DEFINE c == [e.ctx EXCEPT !.plan = plan', !.revisions = e.revisions]
  <2>2. plan' \in Nat /\ c \in Context
    BY <1>2, <1>7, FieldTypes, ContextTypes DEF TypeOK
  <2>3. /\ Save(c) \in Plain /\ Present(plan') \in Plain
        /\ To("awaiting_plan_approval") \in Plain
    BY <2>2, PlainWrites, StateTypes DEF Covers
  <2>4. PlanGate(e.ctx, e.revisions, plan') \in Seq(Plain)
    <3> HIDE DEF c
    <3>1. <<Save(c), Present(plan'), To("awaiting_plan_approval")>>
            \in Seq(Plain)
      BY <2>3, Tuples
    <3> QED BY <3>1 DEF PlanGate, c
  <2> QED BY <1>3, <2>1, <2>4
<1>8. CASE e.op = "refuse"
  <2>1. Proceed(w, <<Refused>>) /\ tasks' = tasks /\ state' = "failed"
    BY <1>8, PerformOf DEF RefuseRun
  <2>2. <<Refused>> \in Seq(Plain)
    BY PlainWrites, Tuples DEF Covers
  <2> QED BY <1>3, <2>1, <2>2
<1> QED BY <1>2, <1>5, <1>6, <1>7, <1>8, PerformOf

LEMMA PerformListing ==
  ASSUME TypeOK, TypeOK', ReviewInv, OneWorker, NEW w \in Worker,
         Listing(todo[w], tasks.n), state # "reviewing", Perform(w)
  PROVE  ReviewInv'
<1> DEFINE s == todo[w]
           e == s[1]
<1>1. s # <<>> /\ Effect(w) = e
  <2>1. s # <<>> /\ Effect(w) = Head(s) /\ s \in Seq(Write)
    BY PerformOf DEF TypeOK
  <2> QED BY <2>1, Tails
<1>2. /\ s \in Seq(Write) /\ Len(s) \in Nat \ {0} /\ e \in Write
      /\ TasksFit(s) /\ tasks.n \in Nat
  BY <1>1, Tails DEF TypeOK, TasksFit
<1>l. Len(s) = 1 \/ Len(s) = 2 \/ Len(s) > 2
  <2>1. PICK l \in Nat \ {0} : Len(s) = l
    BY <1>2
  <2> QED BY <2>1
<1>3. CASE Len(s) = 1
  <2>1. e.op = "list"
    BY <1>3 DEF Listing
  <2>2. /\ Proceed(w, <<Tasks(e.ctx, Undone)>>)
        /\ UNCHANGED <<run, queue, hist>>
    BY <1>1, <2>1, PerformOf DEF GetTasks, Undone
  <2>3. Undone \in SUBSET Nat /\ e.ctx \in Context
    BY <1>2, <2>1, FieldTypes DEF Undone
  <2>4. Tasks(e.ctx, Undone) \in Write
    BY <2>3, WriteTypes
  <2>5. Tail(s) = <<>>
    BY <1>2, <1>3, Single
  <2>6. todo'[w] = <<Tasks(e.ctx, Undone)>> \o Tail(s) /\ env' = env
    BY <1>1, <1>2, <2>2, <2>4, Tuples, Proceeds DEF TypeOK
  <2>7. todo'[w] = <<Tasks(e.ctx, Undone)>>
    <3>1. <<Tasks(e.ctx, Undone)>> \in Seq(Write)
      BY <2>4, Tuples
    <3> QED BY <2>5, <2>6, <3>1, ConcatEmptySeq
  <2>8. Looping(todo'[w], tasks.n, Undone)
    <3>1. /\ Len(todo'[w]) = 1 /\ todo'[w][1].op = "tasks"
          /\ todo'[w][1].left = Undone
      BY <2>7 DEF Tasks
    <3> QED BY <3>1 DEF Looping, Undone
  <2> QED BY <2>1, <2>2, <2>6, <2>8, TasksAlone DEF run
<1>4. CASE Len(s) > 1 /\ e.op = "bootstrap"
  <2>1. Proceed(w, <<>>) /\ UNCHANGED <<run, queue>>
    BY <1>1, <1>4, PerformOf DEF CommitCode
  <2>2. todo'[w] = Tail(s) /\ env' = env
    BY <1>1, <2>1, GoesOn
  <2>3. Listing(todo'[w], tasks.n)
    BY <1>2, <1>4, <2>2, ListingTail
  <2> QED BY <1>4, <2>1, <2>2, <2>3, TasksAlone DEF run
<1>5. CASE Len(s) > 1 /\ e.op = "task"
  <2>1. /\ Proceed(w, <<>>) /\ state' = state
        /\ tasks' = [tasks EXCEPT !.n = e.idx, !.plan = e.plan,
                                  !.total = e.total]
    BY <1>1, <1>5, PerformOf DEF InsertTask
  <2>2. todo'[w] = Tail(s) /\ env' = env /\ \A v \in Worker : v = w
    BY <1>1, <2>1, GoesOn
  <2>3. e.idx \in Nat /\ e.idx > tasks.n /\ e.total \in Nat
    BY <1>1, <1>2, <1>5, FirstWrite, FieldTypes
  <2>4. tasks'.n = e.idx /\ tasks'.total = e.total /\ tasks'.done = tasks.done
    BY <2>1 DEF TypeOK
  <2>5. Listing(todo'[w], tasks'.n)
    BY <1>2, <1>5, <2>2, <2>3, <2>4, ListingTail
  <2>6. RowsFit'
    BY <1>2, <2>1, <2>3, <2>4 DEF ReviewInv, RowsFit
  <2>7. ListFits'
    <3>0. PICK x \in Nat, y \in Nat : x = e.idx /\ y = e.total
      BY <2>3
    <3>1. CASE Len(s) = 2
      <4>1. 1 \in 1 .. (Len(s) - 1)
        BY <3>1
      <4>2. x + 2 = y + 1 + 1
        BY <1>5, <3>0, <3>1, <4>1 DEF Listing
      <4>3. x = y
        BY <4>2
      <4> QED BY <2>4, <3>0, <4>3 DEF ListFits
    <3>2. CASE Len(s) > 2
      <4>1. 2 \in 1 .. (Len(s) - 1) /\ 1 \in 1 .. (Len(s) - 1)
        BY <1>2, <3>2
      <4>2. s[2].op = "task"
        BY <4>1 DEF Listing
      <4>3. todo'[w][1] = s[1 + 1] /\ Len(todo'[w]) > 0
        BY <1>1, <1>2, <2>2, <3>2, <4>1, Tails
      <4>4. todo'[w] # <<>>
        BY <4>3
      <4> QED BY <4>2, <4>3, <4>4 DEF ListFits
    <3> QED BY <1>l, <1>5, <3>1, <3>2
  <2> QED BY <2>1, <2>2, <2>5, <2>6, <2>7 DEF ReviewInv, TasksFit
<1>6. Len(s) > 1 => e.op \in {"bootstrap", "task"}
  <2>1. Len(s) > 1 => 1 \in 1 .. (Len(s) - 1)
    BY <1>2
  <2> QED BY <2>1 DEF Listing
<1>7. Len(s) = 1 \/ Len(s) > 1
  BY <1>l
<1> QED BY <1>3, <1>4, <1>5, <1>6, <1>7

LEMMA PerformLooping ==
  ASSUME TypeOK, TypeOK', ReviewInv, OneWorker, NEW w \in Worker,
         Looping(todo[w], tasks.n, Undone), Perform(w)
  PROVE  ReviewInv'
<1> DEFINE s == todo[w]
           e == s[1]
<1>1. s # <<>> /\ Effect(w) = e
  <2>1. s # <<>> /\ Effect(w) = Head(s) /\ s \in Seq(Write)
    BY PerformOf DEF TypeOK
  <2> QED BY <2>1, Tails
<1>2. /\ s \in Seq(Write) /\ Len(s) \in Nat \ {0} /\ e \in Write
      /\ tasks.n \in Nat /\ tasks.done \in SUBSET Nat
  BY <1>1, Tails DEF TypeOK
<1>3. Len(s) = 1 \/ Len(s) > 1
  <2>1. PICK l \in Nat \ {0} : Len(s) = l
    BY <1>2
  <2> QED BY <2>1
<1>4. CASE Len(s) = 1
  <2>1. e.op = "tasks" /\ Undone \subseteq e.left /\ e.left \subseteq 1 .. tasks.n
    BY <1>4 DEF Looping
  <2>2. e.ctx \in Context /\ e.left \in SUBSET Nat
    BY <1>2, <2>1, FieldTypes
  <2>3. PICK q \in TaskLoop(e.ctx, e.left) :
          Proceed(w, q) /\ UNCHANGED <<run, queue, hist>>
    BY <1>1, <2>1, PerformOf DEF NextTask
  <2>4. \/ q \in Seq(Plain) \/ Looping(q, tasks.n, Undone)
        \/ q = <<To("reviewing"), Enq("review")>> /\ Undone = {}
    BY <1>2, <2>1, <2>2, RoundShapes
  <2>5. todo'[w] = q /\ env' = env
    <3>1. q \in Seq(Write)
      BY <2>2, TaskLoopTyped
    <3>2. todo'[w] = q \o Tail(s) /\ env' = env
      BY <1>1, <1>2, <2>3, <3>1, Proceeds DEF TypeOK
    <3>3. Tail(s) = <<>>
      BY <1>2, <1>4, Single
    <3> QED BY <3>1, <3>2, <3>3, ConcatEmptySeq
  <2> QED BY <2>1, <2>3, <2>4, <2>5, TasksAlone DEF run
<1>5. CASE Len(s) > 1
  <2>0. 1 \in 1 .. (Len(s) - 1)
    BY <1>2, <1>5
  <2>1. /\ e.op \in {"commit", "save", "taskDone"}
        /\ e.op = "taskDone" => e.task \in 1 .. tasks.n
    BY <2>0 DEF Looping
  <2>2. CASE e.op \in {"commit", "save"}
    <3>1. Proceed(w, <<>>) /\ tasks' = tasks /\ state' = state
      BY <1>1, <2>2, PerformOf DEF CommitCode, SaveContext, run
    <3>2. todo'[w] = Tail(s) /\ env' = env
      BY <1>1, <3>1, GoesOn
    <3>3. Looping(todo'[w], tasks.n, Undone)
      BY <1>2, <1>5, <2>2, <3>2, LoopingTail
    <3> QED BY <2>2, <3>1, <3>2, <3>3, TasksAlone
  <2>3. CASE e.op = "taskDone"
    <3>1. /\ Proceed(w, <<>>) /\ state' = state
          /\ tasks' = [tasks EXCEPT !.done = @ \cup {e.task}]
      BY <1>1, <2>3, PerformOf DEF UpdateTask
    <3>2. /\ todo'[w] = Tail(s) /\ \A v \in Worker : v = w
          /\ env' = env /\ Lost' = Lost
      BY <1>1, <3>1, GoesOn
    <3>3. /\ tasks'.n = tasks.n /\ tasks'.total = tasks.total
          /\ tasks'.done = tasks.done \cup {e.task}
      BY <3>1 DEF TypeOK
    <3>4. Undone' \subseteq Undone /\ e.task \notin Undone'
      BY <3>3 DEF Undone
    <3>5. Looping(todo'[w], tasks.n, Undone')
      BY <1>2, <1>5, <3>2, <3>4, LoopingTail
    <3>6. RowsFit'
      BY <2>1, <2>3, <3>1, <3>3, <3>4 DEF ReviewInv, RowsFit
    <3>7. ListFits'
      BY <2>3, <3>2, <3>3, NoneMissing DEF ListFits
    <3>8. TasksFit(todo[w])'
      BY <3>3, <3>5 DEF TasksFit
    <3> QED BY <3>2, <3>6, <3>7, <3>8 DEF ReviewInv
  <2> QED BY <2>1, <2>2, <2>3
<1> QED BY <1>3, <1>4, <1>5

LEMMA PerformReviews ==
  ASSUME TypeOK, TypeOK', ReviewInv, OneWorker, NEW w \in Worker,
         Reviews(todo[w]), Perform(w)
  PROVE  ReviewInv'
<1> DEFINE s == todo[w]
<1>1. s # <<>> /\ Effect(w) = To("reviewing") /\ s \in Seq(Write)
  <2>1. s # <<>> /\ Effect(w) = Head(s) /\ s \in Seq(Write)
    BY PerformOf DEF TypeOK
  <2> QED BY <2>1, Tails DEF Reviews
<1>2. Proceed(w, <<>>) /\ tasks' = tasks
  BY <1>1, PerformOf DEF Move, To
<1>3. /\ todo'[w] = Tail(s) /\ \A v \in Worker : v = w
      /\ env' = env /\ Lost' = Lost
  BY <1>1, <1>2, GoesOn
<1>4. todo'[w] \in Seq(Plain)
  <2>1. /\ todo'[w] \in Seq(Write) /\ Len(todo'[w]) = 1
        /\ todo'[w][1] = Enq("review")
    BY <1>1, <1>3, Tails DEF Reviews
  <2>2. Enq("review") \in Plain
    BY PlainWrites DEF Covers, JobType
  <2> QED BY <2>1, <2>2, Single
<1>5. Undone = {} /\ Undone' = Undone
  BY <1>2 DEF Undone, Reviews
<1>6. RowsFit'
  BY <1>2, <1>5 DEF ReviewInv, RowsFit
<1>7. ListFits'
  <2>1. s[1].op # "task"
    BY DEF Reviews, To
  <2> QED BY <1>2, <1>3, <2>1, NoneMissing DEF ListFits
<1>8. TasksFit(todo[w])'
  BY <1>4 DEF TasksFit
<1> QED BY <1>3, <1>6, <1>7, <1>8 DEF ReviewInv

LEMMA StartReview ==
  ASSUME TypeOK, TypeOK', ReviewInv, OneWorker, NEW w \in Worker,
         NEW j \in Job, Start(w, j)
  PROVE  ReviewInv'
<1>1. /\ Loaded(j) \in Snapshot /\ todo'[w] \in dispatch(j, Loaded(j))
      /\ todo[w] = <<>> /\ state' = Loaded(j).state
      /\ UNCHANGED <<tasks, env>>
  BY StartTyped DEF Start
<1>2. /\ Loaded(j).tasks = tasks.n
      /\ state' = "reviewing" => state = "reviewing"
  BY <1>1 DEF Loaded
<1>3. \/ todo'[w] \in Seq(Plain)
      \/ Listing(todo'[w], tasks.n) /\ state' # "reviewing"
  BY <1>1, <1>2, HandlersPlain
<1> QED BY <1>1, <1>2, <1>3, TasksAlone

(* People, the sweeper, and the ways a script ends before its time.        *)
LEMMA OthersReview ==
  ASSUME TypeOK, TypeOK', ReviewInv, OneWorker, tasks' = tasks,
         state' \in {state, "failed", "aborted"}, Lost <= Lost',
         \A w \in Worker :
           \/ todo'[w] = todo[w]
           \/ /\ todo'[w] \in {<<>>, <<CloseRun>>}
              /\ \/ todo[w] = <<>> \/ todo[w][1].op # "task"
                 \/ Lost + 1 <= Lost'
  PROVE  ReviewInv'
<1>1. /\ Undone' = Undone /\ tasks'.n = tasks.n /\ tasks'.total = tasks.total
      /\ state' = "reviewing" => state = "reviewing"
  BY DEF Undone
<1>2. Lost \in Nat /\ Lost' \in Nat
  <2>1. env'.crashes \in Nat /\ env'.throws \in Nat
    BY DEF TypeOK
  <2>2. Lost' \in Nat
    BY <2>1 DEF Lost
  <2> QED BY <2>2, Numbers
<1>3. RowsFit'
  BY <1>1 DEF ReviewInv, RowsFit
<1>4. ListFits'
  <2>1. CASE tasks.n = tasks.total \/ Lost > 0
    BY <1>1, <1>2, <2>1 DEF ListFits
  <2>2. ASSUME NEW w \in Worker, todo[w] # <<>>, todo[w][1].op = "task"
        PROVE  ListFits'
    <3>1. todo'[w] = todo[w] \/ Lost + 1 <= Lost'
      BY <2>2
    <3> QED BY <1>2, <2>2, <3>1 DEF ListFits
  <2> QED BY <2>1, <2>2 DEF ReviewInv, ListFits
<1>5. ASSUME NEW w \in Worker
      PROVE  TasksFit(todo[w])'
  <2>1. CASE todo'[w] \in {<<>>, <<CloseRun>>}
    <3>1. <<>> \in Seq(Plain) /\ <<CloseRun>> \in Seq(Plain)
      BY PlainWrites, Tuples DEF Covers
    <3> QED BY <2>1, <3>1 DEF TasksFit
  <2>2. CASE todo'[w] = todo[w]
    <3>1. TasksFit(todo[w])
      BY DEF ReviewInv
    <3>2. Listing(todo[w], tasks.n) => Listing(todo'[w], tasks'.n)
      BY <1>1, <2>2
    <3>3. Looping(todo[w], tasks.n, Undone) =>
            Looping(todo'[w], tasks'.n, Undone')
      BY <1>1, <2>2
    <3>4. Reviews(todo[w]) => Reviews(todo[w])'
      BY <1>1, <2>2 DEF Reviews
    <3> QED BY <1>1, <2>2, <3>1, <3>2, <3>3, <3>4 DEF TasksFit
  <2> QED BY <2>1, <2>2
<1> QED BY <1>3, <1>4, <1>5 DEF ReviewInv

LEMMA InitReview == Init => ReviewInv
<1> SUFFICES ASSUME Init PROVE ReviewInv
  OBVIOUS
<1>1. tasks.n = 0 /\ tasks.total = 0 /\ tasks.done = {} /\ state = "none"
  BY DEF Init, NoTasks
<1>2. RowsFit /\ ListFits
  BY <1>1 DEF RowsFit, ListFits
<1>3. \A w \in Worker : TasksFit(todo[w])
  BY Tuples DEF Init, TasksFit
<1> QED BY <1>2, <1>3, InitTyped DEF ReviewInv

(* No task is recorded twice.                                              *)
LEMMA NeverThere ==
  ASSUME ReviewInv, NEW w \in Worker
  PROVE  ~TaskExists(w)
<1>1. ASSUME todo[w] # <<>>, Head(todo[w]).op = "task"
      PROVE  ~(Head(todo[w]).idx <= tasks.n)
  <2>1. todo[w][1].idx > tasks.n /\ Head(todo[w]) = todo[w][1]
    BY <1>1, FirstWrite DEF ReviewInv
  <2>2. todo[w][1].idx \in Nat /\ tasks.n \in Nat
    BY <1>1, <2>1, FirstWrite, FieldTypes DEF ReviewInv, TypeOK
  <2> QED BY <2>1, <2>2
<1> QED BY <1>1 DEF TaskExists, Doing, Effect

LEMMA StepReview == OneWorker /\ ReviewInv /\ [Next]_vars => ReviewInv'
<1> SUFFICES ASSUME OneWorker, ReviewInv, [Next]_vars PROVE ReviewInv'
  OBVIOUS
<1>1. TypeOK /\ TypeOK' /\ \A w \in Worker : TasksFit(todo[w])
  BY StepTyped DEF ReviewInv
<1>2. ASSUME NEW w \in Worker, Perform(w)
      PROVE  ReviewInv'
  BY <1>1, <1>2, PerformPlain, PerformListing, PerformLooping, PerformReviews
  DEF TasksFit
<1>3. ASSUME NEW w \in Worker, ClaimFresh(w) \/ ClaimAgain(w)
      PROVE  ReviewInv'
  BY <1>1, <1>3, ClaimsStart, StartReview
<1>4. ASSUME NEW w \in Worker, LetsGo(w)
      PROVE  ReviewInv'
  <2>1. /\ UNCHANGED <<ctx, spec, plan, tasks, hist>>
        /\ state' \in {state, "failed"} /\ Lost <= Lost'
        /\ todo'[w] \in {<<>>, <<CloseRun>>}
        /\ \A v \in Worker : v # w => todo'[v] = todo[v]
        /\ \/ todo[w] = <<>> \/ todo[w][1].op \in {"refused", "close"}
           \/ TaskExists(w) /\ todo[w][1].op = "task"
           \/ Lost + 1 <= Lost'
    BY <1>1, <1>4, Endings
  <2>2. ~TaskExists(w)
    BY NeverThere
  <2>3. \A v \in Worker :
          \/ todo'[v] = todo[v]
          \/ /\ todo'[v] \in {<<>>, <<CloseRun>>}
             /\ \/ todo[v] = <<>> \/ todo[v][1].op # "task"
                \/ Lost + 1 <= Lost'
    BY <2>1, <2>2
  <2> QED BY <1>1, <2>1, <2>3, OthersReview
<1>5. CASE Elsewhere
  <2>1. /\ UNCHANGED <<ctx, spec, plan, tasks, hist, todo>>
        /\ state' \in {state, "aborted"} /\ Lost <= Lost'
    BY <1>1, <1>5, OthersElsewhere
  <2> QED BY <1>1, <2>1, OthersReview
<1> QED BY <1>2, <1>3, <1>4, <1>5, Steps

(* Whatever throws, dies or is swept away, no run goes to review with a    *)
(* recorded task that is not done.                                         *)
THEOREM RecordedTasksDoneAlways ==
  ASSUME OneWorker PROVE Spec => []RecordedTasksDone
<1>1. ReviewInv => RecordedTasksDone
  BY DEF ReviewInv, RowsFit, Undone, RecordedTasksDone
<1>2. OneWorker
  OBVIOUS
<1>3. ReviewInv /\ [Next]_vars => ReviewInv'
  BY <1>2, StepReview
<1> QED BY <1>1, <1>3, InitReview, PTL DEF Spec

(* ... and as long as no handler threw and no process died, everything the *)
(* decomposer asked for was recorded: what goes to review is complete.     *)
THEOREM ReviewedIsCompleteAlways ==
  ASSUME OneWorker PROVE Spec => [](Lost = 0 => ReviewedIsComplete)
<1>1. ReviewInv => (Lost = 0 => ReviewedIsComplete)
  <2> SUFFICES ASSUME ReviewInv, Lost = 0 PROVE ReviewedIsComplete
    OBVIOUS
  <2>1. RecordedTasksDone
    BY DEF ReviewInv, RowsFit, Undone, RecordedTasksDone
  <2>2. ASSUME state = "reviewing"
        PROVE  tasks.n = tasks.total
    <3>1. \A w \in Worker : todo[w] = <<>> \/ todo[w][1].op # "task"
      BY <2>2, FirstWrite DEF ReviewInv
    <3> QED BY <3>1 DEF ReviewInv, ListFits
  <2> QED BY <2>1, <2>2 DEF ReviewedIsComplete, AllTasksRecorded
<1>2. OneWorker
  OBVIOUS
<1>3. ReviewInv /\ [Next]_vars => ReviewInv'
  BY <1>2, StepReview
<1> QED BY <1>1, <1>3, InitReview, PTL DEF Spec

-----------------------------------------------------------------------------
(* The documented state machine.  A script moves the run along it: what is *)
(* left of it leaves the state alone, but for ...                          *)
Goes(from, to) ==
  \/ from \notin Terminal /\ to \in Lifecycle!Successors[from]
  \/ /\ from \notin Terminal \cup {"none", "received", "acknowledged"}
     /\ to = "failed"
Still ==
  {e \in Write : e.op \in {"enqueue", "save", "spec", "present", "bootstrap",
                           "commit", "taskDone", "fix", "refused"}}

(* ... the one write that changes it, and those whose place is at one      *)
(* state, some of which another script takes the place of.                 *)
Turns(e, from) ==
  \/ e.op = "move" /\ (e.to = from \/ Goes(from, e.to))
  \/ e.op = "approve" /\ from = "awaiting_plan_approval"
  \/ e.op \in {"refuse", "close"} /\ Goes(from, "failed")
Stays(e, at) ==
  \/ e.op \in {"task", "list", "tasks"} /\ at = "implementing"
  \/ e.op = "plan" /\ at = "planning"
OneWay(s, at) ==
  \A i \in 1 .. Len(s) :
    \/ s[i] \in Still
    \/ Stays(s[i], at) /\ (s[i].op # "task" => i = Len(s))
    \/ Turns(s[i], at) /\ \A k \in (i + 1) .. Len(s) : s[k] \in Still

(* Specifying and planning announce themselves first.                      *)
OnItsWay(s, at) ==
  \/ OneWay(s, at)
  \/ /\ s # <<>> /\ s[1].op = "move" /\ Goes(at, s[1].to)
     /\ OneWay(Tail(s), s[1].to)

(* Only the guard on the spec stops handleProduceSpec: until there is one, *)
(* there is a single job, in a single pair of hands, and the run is new.   *)
Specifying(s) ==
  \/ s = <<>> \/ s[1].op = "spec"
  \/ /\ Len(s) = 1
     /\ \/ s[1].op \in {"refuse", "refused"}
        \/ s[1].op = "move" /\ s[1].to \in {"unsupported", "failed"}
NewRun(s) ==
  \/ state = "received" /\ s = <<To("acknowledged"), Enq("produce_spec")>>
  \/ state = "acknowledged" /\ s = <<Enq("produce_spec")>>
  \/ /\ state = "acknowledged" /\ s # <<>> /\ s[1] = To("specifying")
     /\ Specifying(Tail(s))
  \/ state \in {"specifying", "unsupported", "failed"} /\ Specifying(s)
Idle == \A w \in Worker : todo[w] = <<>>
Queued(type) == Len(fresh) = 1 /\ fresh[1].type = type
Started ==
  \/ /\ state = "none" /\ Idle
     /\ IF env.opened THEN Queued("issue_opened") ELSE fresh = <<>>
  \/ env.opened /\ fresh = <<>> /\ \E w \in Worker : NewRun(todo[w])
  \/ env.opened /\ state = "acknowledged" /\ Idle /\ Queued("produce_spec")

Undisturbed == OneWorker /\ MaxThrows = 0 /\ MaxCrashes = 0 /\ MaxSweeps = 0
LifeInv ==
  /\ ReviewInv /\ ~sweep
  /\ spec => state \notin {"none", "received"}
  /\ ~spec => Started /\ again = <<>>
  /\ \A w \in Worker : OnItsWay(todo[w], state)

LEMMA Ways ==
  /\ Goes("none", "received")
  /\ Goes("received", "acknowledged") /\ Goes("acknowledged", "specifying")
  /\ \A x \in {"specified", "awaiting_clarification", "unsupported", "failed"} :
       Goes("specifying", x)
  /\ \A x \in {"specified", "failed"} : Goes("awaiting_clarification", x)
  /\ \A x \in {"planning", "specifying", "failed"} : Goes("specified", x)
  /\ \A x \in {"awaiting_plan_approval", "failed"} : Goes("planning", x)
  /\ \A x \in {"planning", "implementing", "aborted", "failed"} :
       Goes("awaiting_plan_approval", x)
  /\ \A x \in {"awaiting_impl_help", "reviewing", "failed"} :
       Goes("implementing", x)
  /\ \A x \in {"implementing", "aborted", "failed"} :
       Goes("awaiting_impl_help", x)
  /\ \A x \in {"awaiting_pr_review", "failed"} : Goes("reviewing", x)
  /\ \A x \in {"awaiting_plan_approval", "failed"} :
       Goes("awaiting_pr_review", x)
BY DEF Goes, Lifecycle!Successors, Terminal

LEMMA GoesOnly ==
  ASSUME NEW from \in RunState, NEW to, Goes(from, to)
  PROVE  /\ to # "none" /\ (to = "received" => from = "none")
         /\ from \notin Terminal
BY DEF Goes, Lifecycle!Successors, Terminal, RunState, Transient, Gates

LEMMA GoesAlong ==
  ASSUME state \in RunState, state' = state \/ Goes(state, state')
  PROVE  [Lifecycle!Next]_state
BY DEF Goes, Lifecycle!Next, Lifecycle!Advance, Lifecycle!GiveUp,
   Lifecycle!Terminal, Terminal

(* Short scripts with one turn.                                            *)
LEMMA StillWrites ==
  /\ \A type \in JobType : Enq(type) \in Still
  /\ \A type \in JobType, j \in Job : Forward(type, j) \in Still
  /\ \A c \in Context : Save(c) \in Still
  /\ \A v \in Nat : Present(v) \in Still /\ Bootstrap(v) \in Still
  /\ {RecordSpec, FixCommit, Refused} \subseteq Still
<1>1. \A type \in JobType : Enq(type) \in Still
  BY WriteTypes DEF Still, Enq
<1>2. \A type \in JobType, j \in Job : Forward(type, j) \in Still
  BY WriteTypes DEF Still, Forward
<1>3. \A c \in Context : Save(c) \in Still
  BY WriteTypes DEF Still, Save
<1>4. \A v \in Nat : Present(v) \in Still /\ Bootstrap(v) \in Still
  BY WriteTypes DEF Still, Present, Bootstrap
<1>5. {RecordSpec, FixCommit, Refused} \subseteq Still
  BY WriteTypes DEF Still, RecordSpec, FixCommit, Refused
<1> QED BY <1>1, <1>2, <1>3, <1>4, <1>5

LEMMA ShortWays ==
  ASSUME NEW at
  PROVE  /\ OneWay(<<>>, at)
         /\ \A a : Turns(a, at) \/ Stays(a, at) \/ a \in Still =>
              OneWay(<<a>>, at)
         /\ \A a, b : a \in Still /\ (Turns(b, at) \/ b \in Still) =>
              OneWay(<<a, b>>, at)
         /\ \A a, b : Turns(a, at) /\ b \in Still => OneWay(<<a, b>>, at)
         /\ \A a, b, c : a \in Still /\ b \in Still /\ Turns(c, at) =>
              OneWay(<<a, b, c>>, at)
         /\ \A a, b, c : a \in Still /\ Turns(b, at) /\ c \in Still =>
              OneWay(<<a, b, c>>, at)
         /\ \A a, b, c, d :
              a \in Still /\ b \in Still /\ Turns(c, at) /\ d \in Still =>
                OneWay(<<a, b, c, d>>, at)
<1>1. OneWay(<<>>, at)
  BY DEF OneWay
<1>2. \A a : Turns(a, at) \/ Stays(a, at) \/ a \in Still => OneWay(<<a>>, at)
  BY DEF OneWay
<1>3. \A a, b : a \in Still /\ (Turns(b, at) \/ b \in Still) =>
        OneWay(<<a, b>>, at)
  BY DEF OneWay
<1>4. \A a, b : Turns(a, at) /\ b \in Still => OneWay(<<a, b>>, at)
  BY DEF OneWay
<1>5. \A a, b, c : a \in Still /\ b \in Still /\ Turns(c, at) =>
        OneWay(<<a, b, c>>, at)
  BY DEF OneWay
<1>6. \A a, b, c : a \in Still /\ Turns(b, at) /\ c \in Still =>
        OneWay(<<a, b, c>>, at)
  BY DEF OneWay
<1>7. \A a, b, c, d :
        a \in Still /\ b \in Still /\ Turns(c, at) /\ d \in Still =>
          OneWay(<<a, b, c, d>>, at)
  BY DEF OneWay
<1> QED BY <1>1, <1>2, <1>3, <1>4, <1>5, <1>6, <1>7

LEMMA WayTail ==
  ASSUME NEW at, NEW s \in Seq(Write), s # <<>>, OneWay(s, at)
  PROVE  /\ \/ s[1] \in Still
            \/ Stays(s[1], at) /\ (s[1].op # "task" => Tail(s) = <<>>)
            \/ Turns(s[1], at) /\ Tail(s) \in Seq(Still)
         /\ ~Turns(s[1], at) => OneWay(Tail(s), at)
<1> DEFINE t == Tail(s)
<1>1. /\ Len(s) \in Nat \ {0} /\ t \in Seq(Write) /\ Len(t) = Len(s) - 1
      /\ \A i \in 1 .. (Len(s) - 1) : t[i] = s[i + 1]
      /\ \A i \in 1 .. Len(t) : t[i] \in Write
  BY Tails
<1> HIDE DEF t
<1>2. PICK l \in Nat : Len(s) = l + 1 /\ Len(t) = l
  BY <1>1
<1>3. \A i \in 1 .. l : t[i] = s[i + 1] /\ i + 1 \in 1 .. Len(s)
  BY <1>1, <1>2
<1>4. 1 \in 1 .. Len(s)
  BY <1>2
<1>5. CASE Turns(s[1], at) /\ \A k \in (1 + 1) .. Len(s) : s[k] \in Still
  <2>1. \A i \in 1 .. l : t[i] \in Still
    BY <1>2, <1>3, <1>5
  <2>2. t \in Seq(Still)
    BY <1>1, <1>2, <2>1, SeqDef
  <2> QED BY <1>5, <2>2 DEF t
<1>6. ASSUME ~Turns(s[1], at)
      PROVE  OneWay(t, at)
  <2> SUFFICES ASSUME NEW i \in 1 .. l
               PROVE  \/ t[i] \in Still
                      \/ Stays(t[i], at) /\ (t[i].op # "task" => i = l)
                      \/ /\ Turns(t[i], at)
                         /\ \A k \in (i + 1) .. l : t[k] \in Still
    BY <1>2 DEF OneWay
  <2>1. /\ t[i] = s[i + 1] /\ i + 1 \in 1 .. Len(s)
    BY <1>3
  <2>2. CASE /\ Turns(s[i + 1], at)
             /\ \A k \in (i + 1 + 1) .. Len(s) : s[k] \in Still
    <3>1. ASSUME NEW k \in (i + 1) .. l
          PROVE  t[k] \in Still
      <4>1. k + 1 \in (i + 1 + 1) .. Len(s) /\ k \in 1 .. l
        BY <1>2
      <4> QED BY <1>3, <2>2, <4>1
    <3> QED BY <2>1, <2>2, <3>1
  <2>3. i + 1 = Len(s) => i = l
    BY <1>2
  <2> QED BY <2>1, <2>2, <2>3 DEF OneWay
<1>7. ASSUME Stays(s[1], at), 1 = Len(s)
      PROVE  t = <<>>
  BY <1>1, <1>7, EmptySeq
<1>8. \/ s[1] \in Still
      \/ Stays(s[1], at) /\ (s[1].op # "task" => 1 = Len(s))
      \/ Turns(s[1], at) /\ \A k \in (1 + 1) .. Len(s) : s[k] \in Still
  BY <1>4 DEF OneWay
<1> QED BY <1>5, <1>6, <1>7, <1>8 DEF t

LEMMA StillWay ==
  ASSUME NEW at, NEW s \in Seq(Still)
  PROVE  OneWay(s, at)
BY DEF OneWay

(* What each handler sets out on from where its guard allows it.           *)
LEMMA StopWays ==
  ASSUME NEW at, Goes(at, "failed")
  PROVE  /\ \A s \in Stopped : OneWay(s, at) /\ Tail(s) = <<>>
         /\ OneWay(Fail, at)
         /\ \A x \in Stops : Turns(x, at)
<1>1. Turns(To("failed"), at) /\ Turns(Refuse, at)
  BY DEF Turns, To, Refuse
<1>2. OneWay(<<To("failed")>>, at) /\ OneWay(<<Refuse>>, at)
  BY <1>1, ShortWays
<1>3. Tail(<<To("failed")>>) = <<>> /\ Tail(<<Refuse>>) = <<>>
  OBVIOUS
<1> QED BY <1>1, <1>2, <1>3 DEF Stopped, Fail, Stops

LEMMA MoveTurns ==
  ASSUME NEW at, NEW x, x = at \/ Goes(at, x)
  PROVE  Turns(To(x), at) /\ To(x).op = "move" /\ To(x).to = x
BY DEF Turns, To

LEMMA AnnouncedWay ==
  ASSUME NEW at, NEW x, Goes(at, x), NEW t \in Seq(Write), OneWay(t, x),
         To(x) \in Write
  PROVE  OnItsWay(<<To(x)>> \o t, at) /\ Tail(<<To(x)>> \o t) = t
<1> DEFINE s == <<To(x)>> \o t
<1>1. /\ s \in Seq(Write) /\ Len(s) = Len(t) + 1 /\ s[1] = To(x)
      /\ \A i \in 1 .. Len(t) : s[i + 1] = t[i]
  BY Prefixed
<1> HIDE DEF s
<1>2. s # <<>> /\ Len(t) \in Nat
  BY <1>1
<1>3. /\ Tail(s) \in Seq(Write) /\ Len(Tail(s)) = Len(t)
      /\ \A i \in 1 .. Len(t) : Tail(s)[i] = t[i]
  BY <1>1, <1>2, Tails
<1>4. Tail(s) = t
  BY <1>3, SeqEqual
<1> QED BY <1>1, <1>2, <1>4, MoveTurns DEF OnItsWay, s

LEMMA ProduceSpecWays ==
  ASSUME NEW r \in Snapshot, ~r.spec, r.state = "acknowledged",
         NEW s \in handleProduceSpec(r)
  PROVE  /\ OnItsWay(s, r.state) /\ s # <<>> /\ s[1] = To("specifying")
         /\ Specifying(Tail(s))
<1>1. PICK t : /\ \/ t = <<To("unsupported")>> \/ t \in Stopped
                  \/ \E k \in SpecKind :
                       t = <<RecordSpec, Save([r.ctx EXCEPT !.spec = k]),
                             To("specifying"), Enq("clarify")>>
               /\ s = <<To("specifying")>> \o t
  BY DEF handleProduceSpec
<1>2. /\ {To("unsupported"), To("failed"), To("specifying"), Refuse,
          RecordSpec, Enq("clarify")} \subseteq Write
      /\ \A k \in SpecKind : Save([r.ctx EXCEPT !.spec = k]) \in Write
  BY WriteTypes, StateTypes, ContextTypes DEF JobType, Snapshot
<1>5. ASSUME NEW k \in SpecKind,
             t = <<RecordSpec, Save([r.ctx EXCEPT !.spec = k]),
                   To("specifying"), Enq("clarify")>>
      PROVE  t \in Seq(Write) /\ OneWay(t, "specifying") /\ Specifying(t)
  <2> DEFINE v == Save([r.ctx EXCEPT !.spec = k])
  <2>1. v \in Still /\ RecordSpec \in Still /\ Enq("clarify") \in Still
    BY StillWrites, ContextTypes DEF JobType, Snapshot
  <2>2. Turns(To("specifying"), "specifying") /\ v \in Write
    BY <1>2, MoveTurns
  <2>3. t = <<RecordSpec, v, To("specifying"), Enq("clarify")>>
    BY <1>5
  <2> HIDE DEF v
  <2>4. OneWay(t, "specifying") /\ t \in Seq(Write)
    BY <1>2, <2>1, <2>2, <2>3, ShortWays, Tuples
  <2>5. t[1].op = "spec"
    BY <2>3 DEF RecordSpec
  <2> QED BY <2>4, <2>5 DEF Specifying
<1>6. t \in Seq(Write) /\ OneWay(t, "specifying") /\ Specifying(t)
  <2>1. CASE t = <<To("unsupported")>>
    <3>1. OneWay(t, "specifying")
      BY <2>1, Ways, MoveTurns, ShortWays
    <3>2. t \in Seq(Write) /\ Len(t) = 1 /\ t[1] = To("unsupported")
      BY <1>2, <2>1, Tuples
    <3> QED BY <3>1, <3>2 DEF Specifying, To
  <2>2. CASE t \in Stopped
    <3>1. OneWay(t, "specifying")
      BY <2>2, Ways, StopWays
    <3>2. /\ t \in Seq(Write) /\ Len(t) = 1
          /\ t[1] = To("failed") \/ t[1] = Refuse
      <4>1. PICK x \in {To("failed"), Refuse} : t = <<x>>
        BY <2>2 DEF Stopped, Fail
      <4>2. t \in Seq(Write)
        BY <1>2, <4>1, Tuples
      <4> QED BY <4>1, <4>2
    <3> QED BY <3>1, <3>2 DEF Specifying, To, Refuse
  <2> QED BY <1>1, <1>5, <2>1, <2>2
<1>7. OnItsWay(s, "acknowledged") /\ Tail(s) = t
  BY <1>1, <1>2, <1>6, Ways, AnnouncedWay
<1>8. s # <<>> /\ s[1] = To("specifying")
  <2>1. Len(s) = Len(t) + 1 /\ s[1] = To("specifying") /\ Len(t) \in Nat
    BY <1>1, <1>2, <1>6, Prefixed
  <2> QED BY <2>1
<1> QED BY <1>6, <1>7, <1>8

LEMMA PlanWays ==
  ASSUME NEW at, Goes(at, "planning"), NEW c \in Context, NEW n \in Nat,
         NEW s \in PlanScripts(c, n)
  PROVE  OnItsWay(s, at)
<1>1. PICK x \in {To("failed"), Refuse, RecordPlan(c, n)} :
        s = <<To("planning"), x>>
  BY DEF PlanScripts
<1>2. Turns(x, "planning") \/ Stays(x, "planning")
  BY Ways, StopWays DEF Stops, Stays, RecordPlan
<1>3. Len(s) = 2 /\ s[1] = To("planning") /\ s[2] = x
  BY <1>1
<1>4. Tail(s) = <<x>>
  BY <1>1
<1>5. OneWay(<<x>>, "planning")
  BY <1>2, ShortWays
<1>6. s # <<>> /\ s[1].op = "move" /\ s[1].to = "planning"
  BY <1>3, MoveTurns
<1> QED BY <1>4, <1>5, <1>6 DEF OnItsWay

LEMMA ListingWay ==
  ASSUME NEW s \in Seq(Write), NEW n, Listing(s, n)
  PROVE  OneWay(s, "implementing")
<1>1. \A i \in 1 .. Len(s) : s[i] \in Write
  OBVIOUS
<1>2. PICK l \in Nat : Len(s) = l /\ l > 0
  BY DEF Listing
<1>3. \A i \in 1 .. l : i = l \/ i \in 1 .. (l - 1)
  BY <1>2
<1>4. \A i \in 1 .. (l - 1) : s[i].op \in {"bootstrap", "task"}
  BY <1>2 DEF Listing
<1>5. s[l].op = "list"
  BY <1>2 DEF Listing
<1> QED BY <1>1, <1>2, <1>3, <1>4, <1>5 DEF OneWay, Still, Stays

LEMMA LoopingWay ==
  ASSUME NEW s \in Seq(Write), NEW n, NEW U, Looping(s, n, U)
  PROVE  OneWay(s, "implementing")
<1>1. \A i \in 1 .. Len(s) : s[i] \in Write
  OBVIOUS
<1>2. PICK l \in Nat : Len(s) = l /\ l > 0
  BY DEF Looping
<1>3. \A i \in 1 .. l : i = l \/ i \in 1 .. (l - 1)
  BY <1>2
<1>4. \A i \in 1 .. (l - 1) : s[i].op \in {"commit", "save", "taskDone"}
  BY <1>2 DEF Looping
<1>5. s[l].op = "tasks"
  BY <1>2 DEF Looping
<1> QED BY <1>1, <1>2, <1>3, <1>4, <1>5 DEF OneWay, Still, Stays

LEMMA ImplementWays ==
  ASSUME NEW r \in Snapshot, r.state = "implementing",
         NEW s \in handleImplement(r)
  PROVE  OneWay(s, r.state)
<1>1. CASE s \in Seq(Write) /\ Listing(s, r.tasks)
  BY <1>1, ListingWay
<1>2. CASE s \in {<<>>} \cup Stopped
  BY <1>2, Ways, StopWays, ShortWays
<1>3. ASSUME NEW x \in Stops, s = <<Bootstrap(r.plan)>> \o <<x>>
      PROVE  OneWay(s, r.state)
  <2>1. Bootstrap(r.plan) \in Still /\ Turns(x, "implementing")
    BY Ways, StopWays, StillWrites DEF Snapshot
  <2>2. s = <<Bootstrap(r.plan), x>>
    <3>1. <<x>> \in Seq(Write) /\ Bootstrap(r.plan) \in Write
      BY <2>1, WriteTypes, StateTypes, Tuples DEF Stops, Still
    <3>2. Len(<<x>>) = 1 /\ <<x>>[1] = x
      OBVIOUS
    <3>3. /\ s \in Seq(Write) /\ Len(s) = 2
          /\ s[1] = Bootstrap(r.plan) /\ s[1 + 1] = x
      BY <1>3, <3>1, <3>2, Prefixed
    <3> QED BY <3>3
  <2> QED BY <2>1, <2>2, ShortWays
<1>4. Stopped = {<<x>> : x \in Stops}
  BY DEF Stopped, Fail, Stops
<1> QED BY <1>1, <1>2, <1>3, <1>4, ImplementShapes DEF ImplementStops

(* Every handler sets out on its way from where its guard lets it.         *)
LEMMA HandlersOnTheirWay ==
  ASSUME NEW j \in Job, NEW r \in Snapshot, NEW s \in dispatch(j, r),
         j.type = "produce_spec" /\ ~r.spec => r.state = "acknowledged"
  PROVE  OnItsWay(s, r.state)
<1> DEFINE at == r.state
<1>0. OneWay(<<>>, at)
  BY ShortWays
<1> SUFFICES ASSUME s # <<>> PROVE OnItsWay(s, at)
  BY <1>0 DEF OnItsWay
<1>1. /\ r.ctx \in Context /\ j.type \in JobType /\ j.body \in Body
      /\ r.ctx.revisions \in Nat
      /\ \A k \in SpecKind : [r.ctx EXCEPT !.spec = k] \in Context
      /\ [r.ctx EXCEPT !.reclarified = TRUE] \in Context
      /\ [r.ctx EXCEPT !.help.rounds = @ + 1] \in Context
      /\ [r.ctx EXCEPT !.fixes = @ + 1] \in Context
  BY ContextTypes DEF Snapshot, Job
<1>2. /\ \A c \in Context : Save(c) \in Still
      /\ \A type \in JobType : Enq(type) \in Still
      /\ RecordSpec \in Still /\ FixCommit \in Still
      /\ Forward("resume_plan_decision", j) \in Still
  BY StillWrites DEF JobType
<1>3. ASSUME Goes(at, "failed"), s \in Stopped \/ s = Fail
      PROVE  OneWay(s, at)
  BY <1>3, StopWays
<1>4. ASSUME NEW x, Goes(at, x)
      PROVE  /\ OneWay(<<To(x)>>, at)
             /\ \A a \in Still : /\ OneWay(<<To(x), a>>, at)
                                 /\ OneWay(<<a, To(x)>>, at)
             /\ \A a \in Still, b \in Still :
                  /\ OneWay(<<a, To(x), b>>, at)
                  /\ \A d \in Still : OneWay(<<a, b, To(x), d>>, at)
  BY <1>4, MoveTurns, ShortWays
<1>5. CASE s \in handleIssueOpened(r)
  <2>1. at = "received" /\ s = <<To("acknowledged"), Enq("produce_spec")>>
    BY <1>5 DEF handleIssueOpened, Skip
  <2> QED BY <1>2, <1>4, <2>1, Ways DEF OnItsWay, JobType
<1>6. CASE s \in handleProduceSpec(r) /\ j.type = "produce_spec"
  BY <1>6, ProduceSpecWays DEF handleProduceSpec, Skip
<1>7. CASE s \in handleClarify(r)
  <2>1. /\ at = "specifying"
        /\ \/ s \in Stopped \/ s = Fail
           \/ s = <<To("specified"), Enq("produce_plan")>>
           \/ s = <<Save(r.ctx), To("awaiting_clarification")>>
    BY <1>7 DEF handleClarify, Skip
  <2> QED BY <1>1, <1>2, <1>3, <1>4, <2>1, Ways DEF OnItsWay, JobType
<1>8. CASE s \in handleResumeClarification(r)
  <2>1. /\ at = "awaiting_clarification"
        /\ \/ s \in Stopped
           \/ \E k \in SpecKind :
                s = <<RecordSpec, Save([r.ctx EXCEPT !.spec = k]),
                      To("specified"), Enq("produce_plan")>>
    BY <1>8 DEF handleResumeClarification, Skip
  <2>2. \A k \in SpecKind : Save([r.ctx EXCEPT !.spec = k]) \in Still
    BY <1>1, <1>2
  <2>3. Goes(at, "specified") /\ Goes(at, "failed")
    BY <2>1, Ways
  <2>4. Enq("produce_plan") \in Still
    BY <1>2 DEF JobType
  <2>5. ASSUME NEW k \in SpecKind,
               s = <<RecordSpec, Save([r.ctx EXCEPT !.spec = k]),
                     To("specified"), Enq("produce_plan")>>
        PROVE  OneWay(s, at)
    BY <1>2, <1>4, <2>2, <2>3, <2>4, <2>5
  <2> QED BY <1>3, <2>1, <2>3, <2>5 DEF OnItsWay
<1>9. CASE s \in handleProducePlan(r)
  <2>1. /\ at = "specified"
        /\ \/ s \in PlanScripts(r.ctx, r.ctx.revisions)
           \/ s = <<Save([r.ctx EXCEPT !.reclarified = TRUE]),
                    To("specifying"), Enq("clarify")>>
           \/ s = Fail
    BY <1>9 DEF handleProducePlan, Skip
  <2>2. CASE s \in PlanScripts(r.ctx, r.ctx.revisions)
    BY <1>1, <2>1, <2>2, Ways, PlanWays
  <2>3. CASE s = <<Save([r.ctx EXCEPT !.reclarified = TRUE]),
                   To("specifying"), Enq("clarify")>>
    <3>1. Save([r.ctx EXCEPT !.reclarified = TRUE]) \in Still
          /\ Enq("clarify") \in Still /\ Goes(at, "specifying")
      BY <1>1, <1>2, <2>1, Ways DEF JobType
    <3> QED BY <1>4, <2>3, <3>1 DEF OnItsWay
  <2> QED BY <1>3, <2>1, <2>2, <2>3, Ways DEF OnItsWay
<1>10. CASE s \in handleResumePlanDecision(r, j)
  <2>1. /\ at = "awaiting_plan_approval"
        /\ \/ s = <<Approve(j.seen), Enq("implement")>>
           \/ s = <<To("aborted")>>
           \/ s \in PlanScripts(r.ctx, r.ctx.revisions + 1)
    BY <1>10 DEF handleResumePlanDecision, Skip
  <2>2. CASE s = <<Approve(j.seen), Enq("implement")>>
    <3>1. Turns(Approve(j.seen), at) /\ Enq("implement") \in Still
      BY <1>2, <2>1 DEF Turns, Approve, JobType
    <3> QED BY <2>2, <3>1, ShortWays DEF OnItsWay
  <2>3. CASE s \in PlanScripts(r.ctx, r.ctx.revisions + 1)
    BY <1>1, <2>1, <2>3, Ways, PlanWays
  <2> QED BY <1>4, <2>1, <2>2, <2>3, Ways DEF OnItsWay
<1>11. CASE s \in handleImplement(r)
  <2>1. at = "implementing"
    BY <1>11 DEF handleImplement, Skip
  <2> QED BY <1>11, <2>1, ImplementWays DEF OnItsWay
<1>12. CASE s \in handleResumeImplementation(r, j)
  <2>1. /\ at = "awaiting_impl_help"
        /\ \/ s = <<To("aborted")>> \/ s = Fail
           \/ s = <<Save([r.ctx EXCEPT !.help.rounds = @ + 1]),
                    To("implementing"), Enq("implement")>>
    BY <1>12 DEF handleResumeImplementation, Skip
  <2>2. CASE s = <<Save([r.ctx EXCEPT !.help.rounds = @ + 1]),
                   To("implementing"), Enq("implement")>>
    <3>1. Save([r.ctx EXCEPT !.help.rounds = @ + 1]) \in Still
          /\ Enq("implement") \in Still /\ Goes(at, "implementing")
      BY <1>1, <1>2, <2>1, Ways DEF JobType
    <3> QED BY <1>4, <2>2, <3>1 DEF OnItsWay
  <2> QED BY <1>3, <1>4, <2>1, <2>2, Ways DEF OnItsWay
<1>13. CASE s \in handleReview(r)
  <2>1. /\ at = "reviewing"
        /\ s \in Stopped \/ s = <<To("awaiting_pr_review")>>
    BY <1>13 DEF handleReview, Skip
  <2> QED BY <1>3, <1>4, <2>1, Ways DEF OnItsWay
<1>14. CASE s \in handleFix(r, j)
  <2>1. /\ at = "awaiting_pr_review"
        /\ \/ s \in Stopped \/ s = Fail
           \/ s = <<To("awaiting_plan_approval"),
                    Forward("resume_plan_decision", j)>>
           \/ s = <<FixCommit, Save([r.ctx EXCEPT !.fixes = @ + 1])>>
    BY <1>14 DEF handleFix, Skip
  <2>2. Save([r.ctx EXCEPT !.fixes = @ + 1]) \in Still
    BY <1>1, <1>2
  <2>3. OneWay(<<FixCommit, Save([r.ctx EXCEPT !.fixes = @ + 1])>>, at)
    BY <1>2, <2>2, ShortWays
  <2> QED BY <1>2, <1>3, <1>4, <2>1, <2>3, Ways DEF OnItsWay
<1> QED
  BY <1>1, <1>5, <1>6, <1>7, <1>8, <1>9, <1>10, <1>11, <1>12, <1>13, <1>14
  DEF dispatch, JobType

LEMMA RoundWays ==
  ASSUME NEW c \in Context, NEW left \in SUBSET Nat, NEW n \in Nat,
         left \subseteq 1 .. n, NEW s \in TaskLoop(c, left)
  PROVE  OneWay(s, "implementing")
<1>1. CASE left = {}
  <2>1. s = <<To("reviewing"), Enq("review")>>
    BY <1>1 DEF TaskLoop
  <2>2. Turns(To("reviewing"), "implementing") /\ Enq("review") \in Still
    BY Ways, MoveTurns, StillWrites DEF JobType
  <2> QED BY <2>1, <2>2, ShortWays
<1>2. CASE s \in Stopped
  BY <1>2, Ways, StopWays
<1>3. ASSUME NEW t \in left,
             s = <<Save([c EXCEPT !.help.task = t]), To("awaiting_impl_help")>>
      PROVE  OneWay(s, "implementing")
  <2>1. Save([c EXCEPT !.help.task = t]) \in Still
    BY ContextTypes, StillWrites
  <2>2. Turns(To("awaiting_impl_help"), "implementing")
    BY Ways, MoveTurns
  <2> QED BY <1>3, <2>1, <2>2, ShortWays
<1>4. ASSUME NEW t \in left,
             s \in {Landed(c, t, left), <<Commit(t)>> \o Landed(c, t, left)}
      PROVE  OneWay(s, "implementing")
  <2>1. /\ Landed(c, t, left) \in Seq(Write)
        /\ Looping(Landed(c, t, left), n, left)
    BY LandedLoops
  <2>2. /\ <<Commit(t)>> \o Landed(c, t, left) \in Seq(Write)
        /\ Looping(<<Commit(t)>> \o Landed(c, t, left), n, left)
    BY <2>1, WriteTypes, Prefixed, CommitLoops
  <2> QED BY <1>4, <2>1, <2>2, LoopingWay
<1>5. left # {} => \/ s \in Stopped
                   \/ \E t \in left :
                        \/ s = <<Save([c EXCEPT !.help.task = t]),
                                 To("awaiting_impl_help")>>
                        \/ s = Landed(c, t, left)
                        \/ s = <<Commit(t)>> \o Landed(c, t, left)
  BY DEF TaskLoop, FirstOf
<1> QED BY <1>1, <1>2, <1>3, <1>4, <1>5

LEMMA LeftToDo ==
  ASSUME TypeOK, NEW w \in Worker, todo[w] # <<>>, TasksFit(todo[w]),
         todo[w][1].op = "tasks"
  PROVE  todo[w][1].left \subseteq 1 .. tasks.n
<1> DEFINE s == todo[w]
<1>1. /\ s \in Seq(Write) /\ Len(s) \in Nat \ {0}
      /\ s \in Seq(Plain) => s[1] \in Plain
  BY FirstWrite
<1>2. ~(s \in Seq(Plain))
  BY <1>1 DEF Plain
<1>3. ~Reviews(s)
  BY DEF Reviews, To
<1>4. PICK l \in Nat \ {0} : Len(s) = l
  BY <1>1
<1>5. l # 1 => 1 \in 1 .. (l - 1)
  BY <1>4
<1>6. ~Listing(s, tasks.n)
  <2>1. ASSUME Listing(s, tasks.n)
        PROVE  s[1].op \in {"list", "bootstrap", "task"}
    BY <1>4, <1>5, <2>1 DEF Listing
  <2> QED BY <2>1
<1>7. Looping(s, tasks.n, Undone)
  BY <1>2, <1>3, <1>6 DEF TasksFit
<1>8. l = 1
  BY <1>4, <1>5, <1>7 DEF Looping
<1> QED BY <1>4, <1>7, <1>8 DEF Looping

LEMMA PerformOnItsWay ==
  ASSUME TypeOK, TypeOK', LifeInv, OneWorker, NEW w \in Worker, Perform(w)
  PROVE  /\ state' = state \/ Goes(state, state')
         /\ OnItsWay(todo'[w], state')
<1> DEFINE s == todo[w]
           e == s[1]
<1>1. /\ s # <<>> /\ Effect(w) = e /\ s \in Seq(Write) /\ e \in Write
      /\ todo \in [Worker -> Seq(Write)] /\ Tail(s) \in Seq(Write)
  <2>1. s # <<>> /\ Effect(w) = Head(s) /\ s \in Seq(Write)
    BY PerformOf DEF TypeOK
  <2> QED BY <2>1, Tails DEF TypeOK
<1>2. OnItsWay(s, state) /\ TasksFit(s)
  BY DEF LifeInv, ReviewInv
<1>3. ASSUME Proceed(w, <<>>)
      PROVE  todo'[w] = Tail(s)
  BY <1>1, <1>3, GoesOn
<1>4. ASSUME NEW q \in Seq(Write), Proceed(w, q), Tail(s) = <<>>
      PROVE  todo'[w] = q
  <2>1. todo'[w] = q \o Tail(s)
    BY <1>1, <1>4, Proceeds
  <2> QED BY <1>4, <2>1, ConcatEmptySeq
<1>5. CASE e \in Still /\ OneWay(s, state)
  <2>1. Proceed(w, <<>>) /\ state' = state
    BY <1>1, <1>5, PerformOf
    DEF Still, Enqueue, SaveContext, RecordSpecArtifact, PresentPlan,
        CommitCode, UpdateTask, run
  <2>2. ~Turns(e, state)
    BY <1>5 DEF Still, Turns
  <2> QED BY <1>1, <1>3, <1>5, <2>1, <2>2, WayTail DEF OnItsWay
<1>6. CASE /\ Stays(e, state) /\ OneWay(s, state)
           /\ e.op # "task" => Tail(s) = <<>>
  <2>1. CASE e.op = "task"
    <3>1. Proceed(w, <<>>) /\ state' = state /\ ~Turns(e, state)
      BY <1>1, <2>1, PerformOf DEF InsertTask, Turns
    <3> QED BY <1>1, <1>3, <1>6, <3>1, WayTail DEF OnItsWay
  <2>2. CASE e.op = "list"
    <3>1. Proceed(w, <<Tasks(e.ctx, Undone)>>) /\ state' = state
      BY <1>1, <2>2, PerformOf DEF GetTasks, Undone, run
    <3>2. <<Tasks(e.ctx, Undone)>> \in Seq(Write)
      <4>1. e.ctx \in Context
        BY <1>1, <2>2, FieldTypes
      <4>2. Undone \in SUBSET Nat
        BY DEF Undone
      <4> QED BY <4>1, <4>2, WriteTypes, Tuples
    <3>3. todo'[w] = <<Tasks(e.ctx, Undone)>>
      BY <1>4, <1>6, <2>2, <3>1, <3>2
    <3>4. Stays(Tasks(e.ctx, Undone), state)
      BY <1>6, <2>2 DEF Stays, Tasks
    <3> QED BY <3>1, <3>3, <3>4, ShortWays DEF OnItsWay
  <2>3. CASE e.op = "tasks"
    <3>1. PICK q \in TaskLoop(e.ctx, e.left) : Proceed(w, q) /\ state' = state
      BY <1>1, <2>3, PerformOf DEF NextTask, run
    <3>2. /\ e.ctx \in Context /\ e.left \in SUBSET Nat
          /\ e.left \subseteq 1 .. tasks.n /\ tasks.n \in Nat
      BY <1>1, <1>2, <2>3, FieldTypes, LeftToDo DEF TypeOK
    <3>3. q \in Seq(Write) /\ OneWay(q, "implementing")
      BY <3>2, TaskLoopTyped, RoundWays
    <3>4. todo'[w] = q
      BY <1>4, <1>6, <2>3, <3>1, <3>3
    <3> QED BY <1>6, <2>3, <3>1, <3>3, <3>4 DEF OnItsWay, Stays
  <2>4. CASE e.op = "plan"
    <3> DEFINE c == [e.ctx EXCEPT !.plan = plan', !.revisions = e.revisions]
               q == <<Save(c), Present(plan'), To("awaiting_plan_approval")>>
    <3>1. Proceed(w, q) /\ state' = state /\ state = "planning"
      BY <1>1, <1>6, <2>4, PerformOf DEF RecordPlanArtifact, PlanGate, Stays
    <3>2. plan' \in Nat /\ c \in Context
      BY <1>1, <2>4, FieldTypes, ContextTypes DEF TypeOK
    <3>3. /\ Save(c) \in Still /\ Present(plan') \in Still
          /\ Turns(To("awaiting_plan_approval"), "planning")
          /\ To("awaiting_plan_approval") \in Write
      BY <3>2, StillWrites, Ways, MoveTurns, WriteTypes, StateTypes
    <3>4. q \in Seq(Write) /\ OneWay(q, "planning")
      <4>1. Save(c) \in Write /\ Present(plan') \in Write
        BY <3>3 DEF Still
      <4> HIDE DEF c
      <4> QED BY <3>3, <4>1, ShortWays, Tuples
    <3>5. todo'[w] = q
      BY <1>4, <1>6, <2>4, <3>1, <3>4
    <3> QED BY <3>1, <3>4, <3>5 DEF OnItsWay
  <2> QED BY <1>6, <2>1, <2>2, <2>3, <2>4 DEF Stays
<1>7. CASE Turns(e, state) /\ Tail(s) \in Seq(Still)
  <2>1. CASE e.op = "move"
    <3>1. Proceed(w, <<>>) /\ state' = e.to
      BY <1>1, <2>1, PerformOf DEF Move
    <3> QED BY <1>3, <1>7, <2>1, <3>1, StillWay DEF Turns, OnItsWay
  <2>2. CASE e.op = "approve"
    <3>1. Proceed(w, <<>>) /\ state' = "implementing"
      BY <1>1, <2>2, PerformOf DEF ApprovePlan
    <3>2. Goes(state, "implementing")
      BY <1>7, <2>2, Ways DEF Turns
    <3> QED BY <1>3, <1>7, <3>1, <3>2, StillWay DEF OnItsWay
  <2>3. CASE e.op = "refuse"
    <3>1. Proceed(w, <<Refused>>) /\ state' = "failed"
      BY <1>1, <2>3, PerformOf DEF RefuseRun
    <3>2. <<Refused>> \in Seq(Still) /\ <<Refused>> \in Seq(Write)
      BY StillWrites, WriteTypes, Tuples
    <3>3. todo'[w] = <<Refused>> \o Tail(s)
      BY <1>1, <3>1, <3>2, Proceeds
    <3>4. todo'[w] \in Seq(Still)
      BY <1>7, <3>2, <3>3, ConcatProperties
    <3>5. Goes(state, "failed")
      BY <1>7, <2>3 DEF Turns
    <3> QED BY <3>1, <3>4, <3>5, StillWay DEF OnItsWay
  <2> QED BY <1>1, <1>7, <2>1, <2>2, <2>3, PerformOf DEF Turns
<1>8. CASE e.op = "move" /\ Goes(state, e.to) /\ OneWay(Tail(s), e.to)
  <2>1. Proceed(w, <<>>) /\ state' = e.to
    BY <1>1, <1>8, PerformOf DEF Move
  <2> QED BY <1>3, <1>8, <2>1 DEF OnItsWay
<1> QED BY <1>1, <1>2, <1>5, <1>6, <1>7, <1>8, WayTail DEF OnItsWay

(* A new run is in the hands of its only job until there is a spec.        *)
LEMMA PerformStarted ==
  ASSUME TypeOK, TypeOK', LifeInv, OneWorker, NEW w \in Worker, Perform(w)
  PROVE  /\ spec' => state' \notin {"none", "received"}
         /\ ~spec' => Started' /\ again' = <<>>
<1> DEFINE s == todo[w]
           e == s[1]
<1>1. /\ s # <<>> /\ Effect(w) = e /\ s \in Seq(Write) /\ e \in Write
      /\ Tail(s) \in Seq(Write) /\ \A v \in Worker : v = w
  <2>1. s # <<>> /\ Effect(w) = Head(s) /\ s \in Seq(Write)
    BY PerformOf DEF TypeOK
  <2> QED BY <2>1, Tails DEF TypeOK, OneWorker
<1>2. /\ again' = again /\ env' = env /\ (spec => spec')
      /\ spec' # spec => e.op = "spec" /\ state' = state
      /\ e.op # "enqueue" => fresh' = fresh
  <2>1. again' = again /\ env' = env
    BY DEF Perform, Move, ApprovePlan, Enqueue, SaveContext,
       RecordSpecArtifact, RecordPlanArtifact, PresentPlan, InsertTask,
       GetTasks, NextTask, CommitCode, UpdateTask, RefuseRun, Proceed, queue
  <2>2. e.op # "spec" => spec' = spec
    BY <1>1, PerformOf
    DEF Move, ApprovePlan, Enqueue, SaveContext, RecordPlanArtifact,
        PresentPlan, InsertTask, GetTasks, NextTask, CommitCode, UpdateTask,
        RefuseRun, run
  <2>3. e.op = "spec" => spec' /\ state' = state
    BY <1>1, PerformOf DEF RecordSpecArtifact
  <2>4. e.op # "enqueue" => fresh' = fresh
    BY <1>1, PerformOf
    DEF Move, ApprovePlan, SaveContext, RecordSpecArtifact, PresentPlan,
        RecordPlanArtifact, InsertTask, GetTasks, NextTask, CommitCode,
        UpdateTask, RefuseRun, queue
  <2> QED BY <2>1, <2>2, <2>3, <2>4
<1>3. ASSUME Proceed(w, <<>>)
      PROVE  todo'[w] = Tail(s)
  BY <1>1, <1>3, GoesOn
<1>4. ~spec => env.opened /\ fresh = <<>> /\ NewRun(s) /\ again = <<>>
  BY <1>1 DEF LifeInv, Started, Idle
<1>5. CASE spec
  <2>1. state \notin {"none", "received"} /\ state \in RunState
    BY <1>5 DEF LifeInv, TypeOK
  <2>2. state' = state \/ Goes(state, state')
    BY PerformOnItsWay
  <2> QED BY <1>2, <1>5, <2>1, <2>2, GoesOnly
<1>6. CASE ~spec /\ spec'
  <2>1. e.op = "spec" /\ state' = state
    BY <1>2, <1>6
  <2>2. state \in {"specifying", "unsupported", "failed"}
    <3>1. s # <<To("acknowledged"), Enq("produce_spec")>>
      BY <2>1 DEF To
    <3>2. s # <<Enq("produce_spec")>> /\ e # To("specifying")
      BY <2>1 DEF To, Enq
    <3> QED BY <1>4, <1>6, <3>1, <3>2 DEF NewRun
  <2> QED BY <1>6, <2>1, <2>2
<1>7. CASE ~spec /\ ~spec'
  <2>0. env'.opened /\ NewRun(s) /\ fresh = <<>> /\ again' = <<>>
    BY <1>2, <1>4, <1>7
  <2>1. ASSUME NewRun(todo[w])', fresh' = fresh
        PROVE  Started'
    BY <2>0, <2>1 DEF Started
  <2>2. CASE /\ state = "received"
             /\ s = <<To("acknowledged"), Enq("produce_spec")>>
    <3>1. e = To("acknowledged") /\ Tail(s) = <<Enq("produce_spec")>>
      BY <2>2
    <3>2. Proceed(w, <<>>) /\ state' = "acknowledged" /\ fresh' = fresh
      BY <1>1, <1>2, <3>1, PerformOf DEF Move, To
    <3> QED BY <1>3, <1>7, <2>0, <2>1, <3>1, <3>2 DEF NewRun
  <2>3. CASE state = "acknowledged" /\ s = <<Enq("produce_spec")>>
    <3>1. e = Enq("produce_spec") /\ Tail(s) = <<>>
      BY <2>3
    <3>2. /\ Proceed(w, <<>>) /\ state' = state
          /\ fresh' = Append(fresh, NewJob("produce_spec", "none", 0))
      BY <1>1, <3>1, PerformOf DEF Enqueue, Enq, run
    <3>3. fresh' = <<NewJob("produce_spec", "none", 0)>>
      BY <2>0, <3>2
    <3>4. Queued("produce_spec")'
      BY <3>3 DEF Queued, NewJob
    <3>5. Idle'
      BY <1>1, <1>3, <3>1, <3>2 DEF Idle
    <3> QED BY <1>7, <2>0, <2>3, <3>2, <3>4, <3>5 DEF Started
  <2>4. CASE /\ state = "acknowledged" /\ e = To("specifying")
             /\ Specifying(Tail(s))
    <3>1. Proceed(w, <<>>) /\ state' = "specifying" /\ fresh' = fresh
      BY <1>1, <1>2, <2>4, PerformOf DEF Move, To
    <3> QED BY <1>3, <1>7, <2>0, <2>1, <2>4, <3>1 DEF NewRun
  <2>5. CASE /\ state \in {"specifying", "unsupported", "failed"}
             /\ Specifying(s)
    <3>1. e.op # "spec"
      BY <1>1, <1>7, PerformOf DEF RecordSpecArtifact
    <3>2. Len(s) = 1 /\ Tail(s) = <<>>
      BY <1>1, <2>5, <3>1, Single DEF Specifying
    <3>3. CASE e.op = "refuse"
      <4>1. Proceed(w, <<Refused>>) /\ state' = "failed" /\ fresh' = fresh
        BY <1>1, <1>2, <3>3, PerformOf DEF RefuseRun
      <4>2. <<Refused>> \in Seq(Write)
        BY WriteTypes, Tuples
      <4>3. todo'[w] = <<Refused>> \o Tail(s)
        BY <1>1, <4>1, <4>2, Proceeds DEF TypeOK
      <4>4. todo'[w] = <<Refused>>
        BY <3>2, <4>2, <4>3, ConcatEmptySeq
      <4>5. Specifying(todo'[w])
        BY <4>4 DEF Specifying, Refused
      <4> QED BY <1>7, <2>0, <2>1, <4>1, <4>5 DEF NewRun
    <3>4. CASE e.op = "move" /\ e.to \in {"unsupported", "failed"}
      <4>1. /\ Proceed(w, <<>>) /\ fresh' = fresh
            /\ state' \in {"unsupported", "failed"}
        BY <1>1, <1>2, <3>4, PerformOf DEF Move
      <4>2. Specifying(todo'[w])
        BY <1>3, <3>2, <4>1 DEF Specifying
      <4> QED BY <1>7, <2>0, <2>1, <4>1, <4>2 DEF NewRun
    <3>5. e.op # "refused"
      BY <1>1, PerformOf
    <3> QED BY <1>1, <2>5, <3>1, <3>3, <3>4, <3>5 DEF Specifying
  <2> QED BY <1>7, <2>0, <2>2, <2>3, <2>4, <2>5 DEF NewRun
<1> QED BY <1>2, <1>5, <1>6, <1>7

LEMMA StartLife ==
  ASSUME TypeOK, TypeOK', LifeInv, OneWorker, NEW w \in Worker,
         ClaimFresh(w) \/ ClaimAgain(w)
  PROVE  /\ state' = state \/ Goes(state, state')
         /\ OnItsWay(todo'[w], state')
         /\ spec' => state' \notin {"none", "received"}
         /\ ~spec' => Started' /\ again' = <<>>
<1>1. ~spec => ClaimFresh(w) /\ again = <<>> /\ Started
  BY DEF LifeInv, ClaimAgain
<1>2. PICK j \in Job : Start(w, j) /\ (ClaimFresh(w) => j = Head(fresh))
  <2>1. ASSUME ClaimFresh(w)
        PROVE  Head(fresh) \in Job /\ Start(w, Head(fresh))
    BY <2>1, HeadTailProperties DEF ClaimFresh, TypeOK
  <2>2. \E j \in Job : Start(w, j)
    BY ClaimsStart
  <2> QED BY <2>1, <2>2
<1> DEFINE r == Loaded(j)
           s == todo'[w]
<1>3. /\ r \in Snapshot /\ state' = r.state /\ s \in dispatch(j, r)
      /\ todo[w] = <<>> /\ spec' = spec /\ env' = env
      /\ r.spec = spec /\ \A v \in Worker : v = w
      /\ state' = IF state = "none" THEN "received" ELSE state
  BY <1>2, StartTyped DEF Start, OneWorker, Loaded
<1> HIDE DEF r, s
<1>4. state' = state \/ Goes(state, state')
  BY <1>3, Ways
<1>5. spec' => state' \notin {"none", "received"}
  BY <1>3 DEF LifeInv
<1>6. ASSUME ~spec
      PROVE  /\ env.opened /\ fresh' = <<>> /\ again' = <<>>
             /\ \/ state = "none" /\ j.type = "issue_opened"
                \/ state = "acknowledged" /\ j.type = "produce_spec"
  <2>1. /\ ClaimFresh(w) /\ again = <<>> /\ Started /\ fresh # <<>>
        /\ j = Head(fresh) /\ fresh' = Tail(fresh) /\ again' = again
        /\ fresh \in Seq(Job)
    BY <1>1, <1>2, <1>6 DEF ClaimFresh, TypeOK
  <2>2. Head(fresh) = fresh[1]
    BY <2>1, Tails
  <2>3. /\ env.opened /\ Len(fresh) = 1
        /\ \/ state = "none" /\ j.type = "issue_opened"
           \/ state = "acknowledged" /\ j.type = "produce_spec"
    BY <2>1, <2>2 DEF Started, Queued
  <2>4. fresh' = <<>>
    BY <2>1, <2>3, Single
  <2> QED BY <2>1, <2>3, <2>4
<1>7. OnItsWay(s, state')
  BY <1>3, <1>6, HandlersOnTheirWay
<1>8. ASSUME ~spec
      PROVE  NewRun(todo[w])'
  <2>1. CASE state = "none" /\ j.type = "issue_opened"
    <3>1. s \in handleIssueOpened(r) /\ r.state = "received"
      BY <1>3, <2>1 DEF dispatch
    <3>2. s = <<To("acknowledged"), Enq("produce_spec")>>
      BY <3>1 DEF handleIssueOpened
    <3> QED BY <1>3, <3>1, <3>2 DEF NewRun, s
  <2>2. CASE state = "acknowledged" /\ j.type = "produce_spec"
    <3>1. s \in handleProduceSpec(r) /\ r.state = "acknowledged" /\ ~r.spec
      BY <1>3, <1>8, <2>2 DEF dispatch
    <3>2. s # <<>> /\ s[1] = To("specifying") /\ Specifying(Tail(s))
      BY <1>3, <3>1, ProduceSpecWays
    <3> QED BY <1>3, <3>1, <3>2 DEF NewRun, s
  <2> QED BY <1>6, <1>8, <2>1, <2>2
<1>9. ~spec => Started' /\ again' = <<>>
  BY <1>3, <1>6, <1>8 DEF Started, s
<1> QED BY <1>3, <1>4, <1>5, <1>7, <1>9 DEF s

LEMMA LetsGoLife ==
  ASSUME TypeOK, TypeOK', LifeInv, Undisturbed, NEW w \in Worker, LetsGo(w)
  PROVE  /\ state' = state \/ Goes(state, state')
         /\ OnItsWay(todo'[w], state')
         /\ spec' => state' \notin {"none", "received"}
         /\ ~spec' => Started' /\ again' = <<>>
<1>1. ~Crash(w) /\ ~Throw(w)
  <2>1. env.crashes \in Nat /\ env.throws \in Nat
    BY DEF TypeOK
  <2>2. ~TaskExists(w)
    BY NeverThere DEF LifeInv
  <2> QED BY <2>1, <2>2 DEF Undisturbed, Crash, Throw
<1>2. /\ todo'[w] = <<>> /\ spec' = spec /\ env' = env
      /\ fresh' = fresh /\ again' = again /\ \A v \in Worker : v = w
      /\ todo[w] # <<>> => Head(todo[w]) = todo[w][1]
  <2>1. LetGo(w) /\ spec' = spec /\ env' = env /\ fresh' = fresh /\ again' = again
    BY <1>1 DEF LetsGo, MarkJobDone, CloseDeadLettered, run, queue
  <2> QED BY <2>1, LetGoTyped, Tails DEF Undisturbed, OneWorker, TypeOK
<1>3. OnItsWay(todo'[w], state')
  BY <1>2, ShortWays DEF OnItsWay
<1>4. CASE MarkJobDone(w)
  <2>1. state' = state /\ (todo[w] = <<>> \/ todo[w][1].op = "refused")
    BY <1>2, <1>4 DEF MarkJobDone, Finished, Doing, run
  <2>2. ASSUME ~spec, NewRun(todo[w])
        PROVE  NewRun(todo[w])'
    <3>1. state \in {"specifying", "unsupported", "failed"}
      <4>1. /\ todo[w] # <<To("acknowledged"), Enq("produce_spec")>>
            /\ todo[w] # <<Enq("produce_spec")>>
            /\ todo[w] # <<>> => todo[w][1] # To("specifying")
        BY <2>1 DEF To, Enq
      <4> QED BY <2>2, <4>1 DEF NewRun
    <3> QED BY <1>2, <2>1, <3>1 DEF NewRun, Specifying
  <2>3. Idle => Idle'
    BY <1>2 DEF Idle
  <2>4. ~spec => Started'
    BY <1>2, <2>1, <2>2, <2>3 DEF LifeInv, Started, Queued
  <2> QED BY <1>2, <1>3, <2>1, <2>4 DEF LifeInv
<1>5. CASE CloseDeadLettered(w)
  <2>1. todo[w] # <<>> /\ todo[w][1].op = "close" /\ state' = "failed"
    BY <1>2, <1>5 DEF CloseDeadLettered, Doing
  <2>2. todo[w] \in Seq(Write)
    BY DEF TypeOK
  <2>3. Goes(state, "failed")
    <3>1. OneWay(todo[w], state)
      BY <2>1 DEF LifeInv, OnItsWay
    <3> QED BY <2>1, <2>2, <3>1, WayTail DEF Still, Stays, Turns
  <2>4. spec
    <3>1. SUFFICES ASSUME ~spec PROVE FALSE
      OBVIOUS
    <3>2. NewRun(todo[w])
      BY <1>2, <2>1, <3>1 DEF LifeInv, Started, Idle
    <3>3. /\ todo[w] # <<To("acknowledged"), Enq("produce_spec")>>
          /\ todo[w] # <<Enq("produce_spec")>>
          /\ todo[w][1] # To("specifying")
      BY <2>1 DEF To, Enq
    <3> QED BY <2>1, <3>2, <3>3 DEF NewRun, Specifying
  <2> QED BY <1>2, <1>3, <2>1, <2>3, <2>4
<1> QED BY <1>1, <1>4, <1>5 DEF LetsGo

LEMMA ElsewhereLife ==
  ASSUME TypeOK, LifeInv, Undisturbed, Elsewhere
  PROVE  /\ state' = state /\ todo' = todo /\ sweep' = sweep /\ spec' = spec
         /\ ~spec' => Started' /\ again' = <<>>
<1>1. ~SweepPick /\ ~SweepClose /\ ~SweepMiss
  <2>1. env.sweeps \in Nat
    BY DEF TypeOK
  <2> QED BY <2>1 DEF LifeInv, Undisturbed, SweepPick, SweepClose, SweepMiss
<1>2. UNCHANGED <<state, todo, sweep, spec, again>>
  BY <1>1 DEF Elsewhere, IssueOpened, Comment, vars, run, hands, queue
<1>3. Idle' = Idle /\ \A w \in Worker : NewRun(todo[w])' = NewRun(todo[w])
  BY <1>2 DEF Idle, NewRun
<1>4. ~spec => Started /\ again = <<>>
  BY DEF LifeInv
<1>5. CASE UNCHANGED vars
  BY <1>2, <1>3, <1>4, <1>5 DEF Started, Queued, vars, queue
<1>6. CASE IssueOpened
  <2>1. /\ ~env.opened /\ env'.opened
        /\ fresh' = Append(fresh, NewJob("issue_opened", "none", 0))
    BY <1>6 DEF IssueOpened, TypeOK
  <2>2. ~spec => state = "none" /\ Idle /\ fresh = <<>>
    BY <1>4, <2>1 DEF Started
  <2>3. fresh = <<>> => Queued("issue_opened")'
    <3>1. fresh = <<>> => fresh' = <<NewJob("issue_opened", "none", 0)>>
      BY <2>1
    <3> QED BY <3>1 DEF Queued, NewJob
  <2> QED BY <1>2, <1>3, <1>4, <2>1, <2>2, <2>3 DEF Started
<1>7. ASSUME NEW body \in Bodies, Comment(body)
      PROVE  spec
  <2>1. state \in Gates
    BY <1>7 DEF Comment
  <2> QED BY <1>4, <2>1 DEF Started, NewRun, Gates
<1> QED BY <1>1, <1>2, <1>5, <1>6, <1>7 DEF Elsewhere

LEMMA InitLife == Init => LifeInv
<1> SUFFICES ASSUME Init PROVE LifeInv
  OBVIOUS
<1>1. ReviewInv
  BY InitReview
<1>2. ~sweep /\ ~spec /\ again = <<>> /\ Started
  BY DEF Init, Started, Idle
<1>3. \A w \in Worker : OnItsWay(todo[w], state)
  BY ShortWays DEF Init, OnItsWay
<1> QED BY <1>1, <1>2, <1>3 DEF LifeInv

LEMMA StepLife ==
  Undisturbed /\ LifeInv /\ [Next]_vars => LifeInv' /\ [Lifecycle!Next]_state
<1> SUFFICES ASSUME Undisturbed, LifeInv, [Next]_vars
             PROVE  LifeInv' /\ [Lifecycle!Next]_state
  OBVIOUS
<1>1. OneWorker /\ ReviewInv /\ ReviewInv' /\ TypeOK /\ TypeOK'
  BY StepReview DEF Undisturbed, LifeInv, ReviewInv
<1>2. ASSUME NEW w \in Worker, sweep' = sweep,
             state' = state \/ Goes(state, state'),
             OnItsWay(todo'[w], state'),
             spec' => state' \notin {"none", "received"},
             ~spec' => Started' /\ again' = <<>>
      PROVE  LifeInv' /\ [Lifecycle!Next]_state
  <2>1. [Lifecycle!Next]_state
    BY <1>1, <1>2, GoesAlong DEF TypeOK
  <2> QED BY <1>1, <1>2, <2>1 DEF LifeInv, OneWorker
<1>3. ASSUME NEW w \in Worker, Perform(w)
      PROVE  LifeInv' /\ [Lifecycle!Next]_state
  <2>1. sweep' = sweep
    BY <1>3 DEF Perform, Move, ApprovePlan, Enqueue, SaveContext,
       RecordSpecArtifact, RecordPlanArtifact, PresentPlan, InsertTask,
       GetTasks, NextTask, CommitCode, UpdateTask, RefuseRun, Proceed
  <2> QED BY <1>1, <1>2, <1>3, <2>1, PerformOnItsWay, PerformStarted
<1>4. ASSUME NEW w \in Worker, ClaimFresh(w) \/ ClaimAgain(w)
      PROVE  LifeInv' /\ [Lifecycle!Next]_state
  <2>1. sweep' = sweep
    BY <1>4 DEF ClaimFresh, ClaimAgain, Start
  <2> QED BY <1>1, <1>2, <1>4, <2>1, StartLife
<1>5. ASSUME NEW w \in Worker, LetsGo(w)
      PROVE  LifeInv' /\ [Lifecycle!Next]_state
  <2>1. sweep' = sweep
    BY <1>5 DEF LetsGo, MarkJobDone, CloseDeadLettered, Throw, Crash
  <2> QED BY <1>1, <1>2, <1>5, <2>1, LetsGoLife
<1>6. CASE Elsewhere
  <2>1. /\ state' = state /\ todo' = todo /\ sweep' = sweep /\ spec' = spec
        /\ ~spec' => Started' /\ again' = <<>>
    BY <1>1, <1>6, ElsewhereLife
  <2> QED BY <1>1, <2>1 DEF LifeInv
<1> QED BY <1>3, <1>4, <1>5, <1>6, Steps

(* With one worker, and while nothing throws, dies or is swept away, every *)
(* run moves along the documented state machine, whatever people answer    *)
(* and however long they go on.                                            *)
THEOREM FollowsLifecycleAlways ==
  ASSUME OneWorker, MaxThrows = 0, MaxCrashes = 0, MaxSweeps = 0
  PROVE  Spec => FollowsLifecycle
<1>1. Init => Lifecycle!Init
  BY DEF Init, Lifecycle!Init
<1>2. Undisturbed
  BY DEF Undisturbed
<1>3. LifeInv /\ [Next]_vars => LifeInv' /\ [Lifecycle!Next]_state
  BY <1>2, StepLife
<1> QED BY <1>1, <1>3, InitLife, PTL DEF Spec, FollowsLifecycle, Lifecycle!Spec
=============================================================================
