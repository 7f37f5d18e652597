------------------------------- MODULE StaleRuns -------------------------------
(***************************************************************************)
(* The stale-run sweeper: it reads the runs that have been parked on a     *)
(* human for PingAfter, and one after the other reminds or closes them,    *)
(* while the runs go on being answered and parked again.                   *)
(*                                                                         *)
(* Source: src/worker/stale.ts, getStaleRuns, markRunPinged and            *)
(* updateRunState of src/store/pg-store.ts, the timer of startWorker in    *)
(* src/worker/worker.ts.  A day is one tick; a run is known by how long    *)
(* ago it was last touched, up to the age at which all ages are the same.  *)
(***************************************************************************)
EXTENDS Naturals

CONSTANTS
  NumRuns,      \* runs are numbered in the order of their ids
  Unreachable,  \* runs whose issue or installation is gone: comments get 404
  PingAfter,    \* PING_AFTER_MS
  CloseAfter,   \* CLOSE_AFTER_MS
  MaxReplies,   \* bound: how often the people of a run answer
  MaxFailures   \* bound: comments and writes that fail for the moment

ASSUME RunsAssumption == NumRuns \in Nat /\ Unreachable \subseteq 1 .. NumRuns
ASSUME AgesAssumption ==
  PingAfter \in Nat /\ CloseAfter \in Nat /\ PingAfter < CloseAfter
ASSUME StaleBoundsAssumption == {MaxReplies, MaxFailures} \subseteq Nat

VARIABLES
  state,      \* per run: "parked" at a gate, "driven" by the worker, "aborted"
  idle,       \* per run: days since updated_at
  pinged,     \* per run: is stale_pinged_at set?
  todo,       \* what the sweep has yet to deal with: the candidates as read
  commented,  \* has the one at hand been commented on?
  swept,      \* has a sweep begun today?
  seen,       \* history, per run: days since a human or the worker touched
              \* it, reminders since then, and reminders in all
  env         \* how much has happened of what is bounded

rows == <<state, idle, pinged>>
sweep == <<todo, commented>>
vars == <<rows, sweep, swept, seen, env>>

Run == 1 .. NumRuns
MaxIdle == CloseAfter + MaxFailures + 1
Older(days) == IF days < MaxIdle THEN days + 1 ELSE MaxIdle

Init ==
  /\ state = [r \in Run |-> "parked"]
  /\ idle = [r \in Run |-> 0]
  /\ pinged = [r \in Run |-> FALSE]
  /\ todo = {} /\ commented = FALSE
  /\ swept = FALSE
  /\ seen = [r \in Run |-> [days |-> 0, reminders |-> 0, all |-> 0]]
  /\ env = [replies |-> [r \in Run |-> 0], failures |-> 0]

-----------------------------------------------------------------------------
(* The sweeper runs every hour: no day passes without a sweep, nor while   *)
(* one is under way.                                                       *)
Tick ==
  /\ swept /\ todo = {}
  /\ swept' = FALSE
  /\ idle' = [r \in Run |-> Older(idle[r])]
  /\ seen' = [r \in Run |-> [seen[r] EXCEPT !.days = Older(@)]]
  /\ UNCHANGED <<state, pinged, sweep, env>>

(* Somebody answers, the worker takes the run up, and parks it again, at   *)
(* the next gate.  Nothing resets stale_pinged_at.  (What the worker still *)
(* writes to a run that was closed under its hands: see RunPipeline.)      *)
Touch(r, s) ==
  /\ state' = [state EXCEPT ![r] = s]
  /\ idle' = [idle EXCEPT ![r] = 0]
  /\ seen' = [seen EXCEPT ![r].days = 0, ![r].reminders = 0]
  /\ UNCHANGED <<pinged, sweep, swept>>

Reply(r) ==
  /\ state[r] = "parked"
  /\ r \notin Unreachable
  /\ env.replies[r] < MaxReplies
  /\ env' = [env EXCEPT !.replies[r] = @ + 1]
  /\ Touch(r, "driven")

Park(r) ==
  /\ state[r] = "driven"
  /\ Touch(r, "parked")
  /\ UNCHANGED env

-----------------------------------------------------------------------------
(* getStaleRuns: updated_at < now - PING_AFTER_MS.                         *)
Stale(r) == state[r] = "parked" /\ idle[r] > PingAfter
Candidate(r) == [run |-> r, idle |-> idle[r], pinged |-> pinged[r]]

BeginSweep ==
  /\ todo = {}
  /\ swept' = TRUE
  /\ todo' = {Candidate(r) : r \in {s \in Run : Stale(s)}}
  /\ UNCHANGED <<rows, commented, seen, env>>

DueToClose(c) == c.idle > CloseAfter
(* Mutant: whether there was a reminder already is not looked at.          *)
DueToRemindAgain(c) == ~DueToClose(c)
DueToRemind(c) == ~DueToClose(c) /\ ~c.pinged

(* The candidates are dealt with in the order of their ids.                *)
AtHand(c) == \A d \in todo : c.run <= d.run
Continue(c) == todo' = todo \ {c} /\ commented' = FALSE

PostReminder(c) ==
  /\ DueToRemind(c) /\ ~commented /\ c.run \notin Unreachable
  /\ commented' = TRUE
  /\ seen' = [seen EXCEPT ![c.run].reminders = @ + 1, ![c.run].all = @ + 1]
  /\ UNCHANGED <<rows, todo, swept, env>>

(* markRunPinged leaves updated_at alone.  Mutant: it does not.            *)
IdleOncePingedReset(r) == 0
IdleOncePinged(r) == idle[r]

MarkRunPinged(c) ==
  /\ DueToRemind(c) /\ commented
  /\ pinged' = [pinged EXCEPT ![c.run] = TRUE]
  /\ idle' = [idle EXCEPT ![c.run] = IdleOncePinged(c.run)]
  /\ Continue(c)
  /\ UNCHANGED <<state, swept, seen, env>>

PostClosing(c) ==
  /\ DueToClose(c) /\ ~commented /\ c.run \notin Unreachable
  /\ commented' = TRUE
  /\ UNCHANGED <<rows, todo, swept, seen, env>>

Close(r, s) ==
  /\ state' = [state EXCEPT ![r] = s]
  /\ idle' = [idle EXCEPT ![r] = 0]
  /\ UNCHANGED pinged

CloseAbandoned(c) ==
  /\ DueToClose(c) /\ commented
  /\ Close(c.run, "aborted")
  /\ Continue(c)
  /\ UNCHANGED <<swept, seen, env>>

(* The comment is answered 404: there is nobody left to wait for.  Mutant: *)
(* as with every other error, the run is left for the next sweep.          *)
StateOnceGoneKept(r) == state[r]
StateOnceGone(r) == "aborted"

CloseUnreachable(c) ==
  /\ DueToRemind(c) \/ DueToClose(c)
  /\ ~commented /\ c.run \in Unreachable
  /\ Close(c.run, StateOnceGone(c.run))
  /\ Continue(c)
  /\ UNCHANGED <<swept, seen, env>>

(* Reminded before, and not yet due to be closed.                          *)
PassOver(c) ==
  /\ ~DueToRemind(c) /\ ~DueToClose(c)
  /\ Continue(c)
  /\ UNCHANGED <<rows, swept, seen, env>>

(* A comment or a write fails: the run is left for the next sweep.  If it  *)
(* is the write for an unreachable run, the rest of the sweep is, too.     *)
Fails(c) ==
  /\ DueToRemind(c) \/ DueToClose(c)
  /\ env.failures < MaxFailures
  /\ env' = [env EXCEPT !.failures = @ + 1]
  /\ \/ Continue(c)
     \/ c.run \in Unreachable /\ todo' = {} /\ commented' = FALSE
  /\ UNCHANGED <<rows, swept, seen>>

-----------------------------------------------------------------------------
SweepStep ==
  \E c \in todo :
    /\ AtHand(c)
    /\ \/ PostReminder(c) \/ MarkRunPinged(c) \/ PostClosing(c)
       \/ CloseAbandoned(c) \/ CloseUnreachable(c) \/ PassOver(c)

Next ==
  \/ Tick
  \/ \E r \in Run : Reply(r) \/ Park(r)
  \/ BeginSweep \/ SweepStep \/ \E c \in todo : AtHand(c) /\ Fails(c)

Spec == Init /\ [][Next]_vars

(* Days pass, the timer fires, and a sweep awaits one call after the other.*)
FairSpec ==
  Spec /\ SF_vars(Tick) /\ WF_vars(BeginSweep) /\ WF_vars(SweepStep)

-----------------------------------------------------------------------------
TypeOK ==
  /\ state \in [Run -> {"parked", "driven", "aborted"}]
  /\ idle \in [Run -> 0 .. MaxIdle]
  /\ pinged \in [Run -> BOOLEAN]
  /\ todo \subseteq [run : Run, idle : (PingAfter + 1) .. MaxIdle,
                     pinged : BOOLEAN]
  /\ commented \in BOOLEAN /\ swept \in BOOLEAN
  /\ seen \in [Run -> [days : 0 .. MaxIdle, reminders : Nat, all : Nat]]
  /\ env \in [replies : [Run -> 0 .. MaxReplies], failures : 0 .. MaxFailures]

(* A run gets a single reminder, unless recording that it got it failed.   *)
OneReminder == \A r \in Run : seen[r].all <= 1 + env.failures

(* A run nobody answers is closed on schedule, reminded or not, reachable  *)
(* or not, whatever becomes of the other candidates: every failure costs   *)
(* it a day at most.                                                       *)
ClosedOnSchedule ==
  swept /\ todo = {} =>
    \A r \in Run :
      state[r] = "parked" => seen[r].days <= CloseAfter + env.failures

(* Nothing waits at a gate for ever, somebody answering or not.            *)
NobodyWaitsForEver ==
  \A r \in Run : state[r] = "parked" ~> state[r] # "parked"

(* Nobody's run is closed for their silence before they were reminded.     *)
(* The code does not keep this: see README.md.                             *)
RemindedBeforeClosed ==
  [][\A r \in Run \ Unreachable :
       state[r] = "parked" /\ state'[r] = "aborted"
         => seen[r].reminders > 0]_vars
=============================================================================
