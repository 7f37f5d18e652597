---------------------------- MODULE WebhookIntake ----------------------------
(***************************************************************************)
(* What becomes of a webhook delivery (src/app.ts): the request that       *)
(* brings it marks it as processed, reads the run, and enqueues the job    *)
(* that goes with the gate the run is parked at, or purges the key, each   *)
(* by a statement of its own.  Deliveries are repeated, overtake one       *)
(* another and are handled at the same time, and any statement may fail.   *)
(*                                                                         *)
(* The worker is there for what it posts and writes: the question a gate   *)
(* asks comes before the write that parks the run (src/worker/handlers.ts),*)
(* and is a delivery of its own.  RunPipeline has the rest of it.          *)
(***************************************************************************)
EXTENDS Naturals, Sequences, FiniteSets

CONSTANTS
  Slot,            \* requests handled at the same time
  MaxEvents,       \* bound: what happens at GitHub
  MaxRedeliveries, \* bound: deliveries repeated
  MaxFailures,     \* bound: statements that fail
  MaxVisits        \* bound: gates the run is parked at

ASSUME IntakeAssumption ==
  {MaxEvents, MaxRedeliveries, MaxFailures, MaxVisits} \subseteq Nat

VARIABLES
  state,     \* the run's state: "none" before there is one, "working" while
             \* it is not at a gate
  asking,    \* the gate whose question is posted and that is not parked at
  open,      \* where a question waits for an answer
  visit,     \* how many times the run has been parked
  key,       \* is the installation's key stored?
  events,    \* what has happened at GitHub; a delivery is known by its index
  pending,   \* deliveries on their way
  processed, \* the processed_events table
  request,   \* per slot: the request handled, or None
  jobs,      \* the jobs waiting
  queued,    \* history, per delivery: the jobs it has led to
  happened   \* how much has happened of what is bounded

run == <<state, asking, open, visit>>
intake == <<pending, processed, request>>
vars == <<run, key, events, intake, jobs, queued, happened>>

Gates == {"awaiting_clarification", "awaiting_plan_approval",
          "awaiting_impl_help", "awaiting_pr_review"}
Comment == {"comment", "pull comment", "review comment", "review"}
Kind == {"opened", "deleted"} \cup Comment
JobType == {"issue_opened", "resume_clarification", "resume_plan_decision",
            "resume_implementation", "fix"}
Id == 1 .. MaxEvents
None == [id |-> 0, step |-> "none", type |-> "none"]

(* Where a comment is written, and where a gate asks.                      *)
Place(kind) == CASE kind = "comment" -> "issue"
                 [] kind = "pull comment" -> "pull"
                 [] OTHER -> "review"
PlaceOf(gate) == IF gate = "awaiting_pr_review" THEN "review" ELSE "issue"

Init ==
  /\ state = "none" /\ asking = "none" /\ open = {} /\ visit = 0
  /\ key = TRUE
  /\ events = <<>> /\ pending = {} /\ processed = {}
  /\ request = [s \in Slot |-> None]
  /\ jobs = {} /\ queued = [d \in Id |-> 0]
  /\ happened = [redeliveries |-> 0, failures |-> 0]

-----------------------------------------------------------------------------
(* GitHub.                                                                 *)
Event(kind, by) ==
  [kind |-> kind, by |-> by, visit |-> visit, parked |-> state \in Gates,
   answers |-> kind \in Comment /\ Place(kind) \in open]

Emit(event) ==
  /\ Len(events) < MaxEvents
  /\ events' = Append(events, event)
  /\ pending' = pending \cup {Len(events')}

Never(kind) == \A d \in DOMAIN events : events[d].kind # kind

IssueOpened ==
  /\ Never("opened") /\ Never("deleted")
  /\ Emit(Event("opened", "human"))
  /\ UNCHANGED <<run, key, processed, request, jobs, queued, happened>>

Uninstall ==
  /\ Never("deleted")
  /\ Emit(Event("deleted", "human"))
  /\ UNCHANGED <<run, key, processed, request, jobs, queued, happened>>

PullRequestOpen == "awaiting_pr_review" \in {state, asking}

(* Somebody writes.  The app is told as long as it is installed.           *)
Say(kind) ==
  /\ state # "none" /\ Never("deleted")
  /\ kind = "comment" \/ PullRequestOpen
  /\ Emit(Event(kind, "human"))
  /\ UNCHANGED <<run, key, processed, request, jobs, queued, happened>>

Redeliver ==
  /\ happened.redeliveries < MaxRedeliveries
  /\ happened' = [happened EXCEPT !.redeliveries = @ + 1]
  /\ \E d \in DOMAIN events : pending' = pending \cup {d}
  /\ UNCHANGED <<run, key, events, processed, request, jobs, queued>>

-----------------------------------------------------------------------------
(* The app.  Goto: the request of slot s goes on to its next statement.    *)
Goto(s, step) == request' = [request EXCEPT ![s].step = step]
Answer(s) == request' = [request EXCEPT ![s] = None]

(* A bot's words are dropped before anything else.  Mutant: they are not.  *)
IgnoredNone(event) == FALSE
Ignored(event) == event.kind \in Comment /\ event.by = "bot"

Receive(s) ==
  /\ request[s] = None
  /\ \E d \in pending :
       /\ pending' = pending \ {d}
       /\ request' = IF Ignored(events[d]) THEN request
                     ELSE [request EXCEPT ![s].id = d, ![s].step = "mark"]
  /\ UNCHANGED <<run, key, events, processed, jobs, queued, happened>>

(* tryMarkEventProcessed: is this the first to insert it?  Mutant: nobody  *)
(* looks.                                                                  *)
FreshAnyway(d) == TRUE
Fresh(d) == d \notin processed

(* What comes after the mark.  Mutant: an uninstallation is treated like   *)
(* a comment.                                                              *)
AfterMarkReads(kind) == IF kind = "opened" THEN "enqueue" ELSE "read"
AfterMark(kind) ==
  CASE kind = "opened" -> "enqueue"
    [] kind = "deleted" -> "purge"
    [] OTHER -> "read"

Mark(s) ==
  /\ request[s].step = "mark"
  /\ LET d == request[s].id IN
       /\ processed' = processed \cup {d}
       /\ request' = IF ~Fresh(d) THEN [request EXCEPT ![s] = None]
                     ELSE [request EXCEPT
                             ![s].step = AfterMark(events[d].kind),
                             ![s].type = IF events[d].kind = "opened"
                                         THEN "issue_opened" ELSE "none"]
  /\ UNCHANGED <<run, key, events, pending, jobs, queued, happened>>

(* The job for a comment, by the gate the run is parked at.  A comment on  *)
(* the pull request's conversation has a number no run goes by.  Mutant:   *)
(* the help gate is forgotten.                                             *)
RouteWithoutHelp(kind) ==
  CASE kind = "comment" /\ state = "awaiting_clarification" ->
         "resume_clarification"
    [] kind = "comment" /\ state = "awaiting_plan_approval" ->
         "resume_plan_decision"
    [] kind \in {"review comment", "review"} /\ state = "awaiting_pr_review" ->
         "fix"
    [] OTHER -> "none"
Route(kind) ==
  IF kind = "comment" /\ state = "awaiting_impl_help"
  THEN "resume_implementation" ELSE RouteWithoutHelp(kind)

(* getRun                                                                  *)
Read(s) ==
  /\ request[s].step = "read"
  /\ LET type == Route(events[request[s].id].kind) IN
       request' = [request EXCEPT ![s] =
         IF type = "none" THEN None
         ELSE [@ EXCEPT !.step = "enqueue", !.type = type]]
  /\ UNCHANGED <<run, key, events, pending, processed, jobs, queued, happened>>

EnqueueJob(s) ==
  /\ request[s].step = "enqueue"
  /\ jobs' = jobs \cup {[type |-> request[s].type, from |-> request[s].id]}
  /\ queued' = [queued EXCEPT ![request[s].id] = @ + 1]
  /\ Answer(s)
  /\ UNCHANGED <<run, key, events, pending, processed, happened>>

(* vault.purge                                                             *)
Purge(s) ==
  /\ request[s].step = "purge"
  /\ key' = FALSE
  /\ Answer(s)
  /\ UNCHANGED <<run, events, pending, processed, jobs, queued, happened>>

(* A statement throws, or the process dies: the request is not answered.   *)
Fails(s) ==
  /\ request[s] # None
  /\ happened.failures < MaxFailures
  /\ happened' = [happened EXCEPT !.failures = @ + 1]
  /\ Answer(s)
  /\ UNCHANGED <<run, key, events, pending, processed, jobs, queued>>

-----------------------------------------------------------------------------
(* The worker.  A job that finds the run elsewhere is skipped.             *)
GateOf == [issue_opened |-> "none",
           resume_clarification |-> "awaiting_clarification",
           resume_plan_decision |-> "awaiting_plan_approval",
           resume_implementation |-> "awaiting_impl_help",
           fix |-> "awaiting_pr_review"]

TakeUp(j) ==
  /\ j \in jobs
  /\ jobs' = jobs \ {j}
  /\ IF state = GateOf[j.type]
     THEN state' = "working" /\ open' = {}
     ELSE UNCHANGED <<state, open>>
  /\ UNCHANGED <<asking, visit, key, events, intake, queued, happened>>

(* A fix that is done leaves the run parked; one that is too vague asks on *)
(* the thread it came from, or else on the pull request's conversation.    *)
FixInPlace(j) ==
  /\ j \in jobs /\ j.type = "fix"
  /\ state = "awaiting_pr_review"
  /\ jobs' = jobs \ {j}
  /\ LET thread == IF events[j.from].kind = "review" THEN "pull comment"
                   ELSE "review comment"
     IN Emit(Event(thread, "bot")) /\ open' \in {open, open \cup {Place(thread)}}
  /\ UNCHANGED <<state, asking, visit, key, processed, request, queued, happened>>

(* The question is posted, which is an event like any other ...            *)
Ask(gate) ==
  /\ state = "working" /\ asking = "none"
  /\ visit < MaxVisits
  /\ Emit(Event(IF gate = "awaiting_pr_review" THEN "pull comment"
                                               ELSE "comment", "bot"))
  /\ asking' = gate
  /\ open' = {PlaceOf(gate)}
  /\ UNCHANGED <<state, visit, key, processed, request, jobs, queued, happened>>

(* ... and then the run is parked.                                         *)
Park ==
  /\ asking # "none"
  /\ state' = asking /\ asking' = "none"
  /\ visit' = visit + 1
  /\ UNCHANGED <<open, key, events, intake, jobs, queued, happened>>

GitHub ==
  \/ IssueOpened \/ Uninstall \/ Redeliver
  \/ \E kind \in Comment : Say(kind)
Step(s) == Receive(s) \/ Mark(s) \/ Read(s) \/ EnqueueJob(s) \/ Purge(s)
App == \E s \in Slot : Step(s)
Work ==
  \/ \E j \in jobs : TakeUp(j) \/ FixInPlace(j)
  \/ \E gate \in Gates : Ask(gate)
  \/ Park
Next == GitHub \/ App \/ Work \/ \E s \in Slot : Fails(s)

Spec == Init /\ [][Next]_vars

(* The server answers its requests, and a handler that has asked goes on   *)
(* to park the run.                                                        *)
FairSpec == Spec /\ WF_vars(App) /\ WF_vars(Park)

-----------------------------------------------------------------------------
EventType == [kind : Kind, by : {"human", "bot"}, visit : Nat,
              parked : BOOLEAN, answers : BOOLEAN]
Request == [id : {0} \cup Id, type : {"none"} \cup JobType,
            step : {"none", "mark", "read", "enqueue", "purge"}]

TypeOK ==
  /\ state \in {"none", "working"} \cup Gates /\ asking \in {"none"} \cup Gates
  /\ open \subseteq {"issue", "pull", "review"}
  /\ key \in BOOLEAN /\ visit \in Nat
  /\ events \in Seq(EventType) /\ Len(events) <= MaxEvents
  /\ pending \cup processed \subseteq DOMAIN events
  /\ request \in [Slot -> Request]
  /\ \A s \in Slot :
       /\ request[s].step # "none" => request[s].id \in DOMAIN events
       /\ request[s].step = "enqueue" => request[s].type \in JobType
  /\ jobs \subseteq [type : JobType, from : DOMAIN events]
  /\ queued \in [Id -> Nat]
  /\ happened \in [redeliveries : Nat, failures : Nat]

(* "Only the first delivery enqueues", however many copies are handled at  *)
(* the same time and wherever one of them fails.                           *)
OneJobPerDelivery == \A d \in Id : queued[d] <= 1

(* "So we never resume on our own question": a run leaves a gate only      *)
(* through a job that somebody's words have led to.                        *)
OnlyHumansMoveOn ==
  [][state' # state /\ state \in Gates =>
       \E j \in jobs : j \notin jobs' /\ events[j.from].by = "human"]_vars

(* An answer given to a parked run is taken up, if no statement fails:     *)
(* there is a job for it, unless the run has moved on meanwhile.  This     *)
(* leaves out the conversation of the pull request.                        *)
Heard(d) == queued[d] > 0 \/ happened.failures > 0
Answers(d) == d \in DOMAIN events /\ events[d].by = "human" /\ events[d].answers
Past(d, n) == d \in DOMAIN events /\ visit > events[d].visit + n
MovedOn(d) == state \notin Gates \/ Past(d, 0)
AnswersTakenUp ==
  \A d \in Id : Answers(d) /\ events[d].parked /\ events[d].kind # "pull comment"
                ~> Heard(d) \/ MovedOn(d)

(* The key of an App that is uninstalled goes, if no statement fails.      *)
KeyPurged ==
  \A d \in Id : d \in DOMAIN events /\ events[d].kind = "deleted"
                ~> ~key \/ happened.failures > 0

(* An answer is heard wherever a question was asked, as soon as it could   *)
(* be read there.  The code does not keep this: see README.md.             *)
AnswersHeard == \A d \in Id : Answers(d) ~> Heard(d) \/ Past(d, 1)

(* The code does not keep these either, once a statement fails: see        *)
(* README.md.  "Duplicate webhook delivery; already enqueued": an issue    *)
(* marked as processed is, or has been, in the queue; and the key of an    *)
(* App that is uninstalled goes if the delivery is repeated.               *)
IssueEnqueued ==
  \A d \in Id : d \in processed /\ events[d].kind = "opened" ~> queued[d] > 0
KeyAlwaysPurged ==
  \A d \in Id : d \in processed /\ events[d].kind = "deleted" ~> ~key
=============================================================================
