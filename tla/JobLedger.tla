------------------------------ MODULE JobLedger ------------------------------
(***************************************************************************)
(* What the job queue promises the rest of Tsukinome, without clock, lease *)
(* or attempts.  A job that was added is open until it is settled, and at  *)
(* any time at most one worker is entitled to it.  A worker that takes too *)
(* long may have its job taken over; it does not know and becomes a stray, *)
(* whose answer overrules whatever has become of the job: the job may be   *)
(* settled under its worker, or be open again after it was settled.  Where *)
(* nobody is overdue there are no strays, and a settled job never changes. *)
(*                                                                         *)
(* JobQueue implements this specification (JobQueueProofs proves it,       *)
(* MCJobQueue checks it).                                                  *)
(***************************************************************************)
CONSTANTS
  JobId,      \* the ids of the jobs
  Worker,     \* the worker loops that share the jobs table
  Nobody      \* not a worker: the worker of a job nobody works on

VARIABLES
  outcome,    \* per job: "absent", "open", "done" or "failed"
  worker,     \* per job: who is entitled to it, or Nobody
  overdue,    \* the jobs whose worker takes too long
  strays      \* per job: the workers still at it that have lost it

ledger == <<outcome, worker, overdue, strays>>

Init ==
  /\ outcome = [j \in JobId |-> "absent"]
  /\ worker = [j \in JobId |-> Nobody]
  /\ overdue = {}
  /\ strays = [j \in JobId |-> {}]

Add(j) ==
  /\ outcome[j] = "absent"
  /\ outcome' = [outcome EXCEPT ![j] = "open"]
  /\ UNCHANGED <<worker, overdue, strays>>

Take(w, j) ==
  /\ outcome[j] = "open"
  /\ worker[j] = Nobody
  /\ w \notin strays[j]
  /\ worker' = [worker EXCEPT ![j] = w]
  /\ UNCHANGED <<outcome, overdue, strays>>

(* Time passes, and for some jobs it is too much.                          *)
FallOverdue ==
  /\ \E J \in SUBSET {j \in JobId : worker[j] # Nobody} :
       overdue' = overdue \cup J
  /\ UNCHANGED <<outcome, worker, strays>>

TakeOver(w, j) ==
  /\ j \in overdue
  /\ w \notin strays[j] \cup {worker[j]}
  /\ worker' = [worker EXCEPT ![j] = w]
  /\ overdue' = overdue \ {j}
  /\ strays' = [strays EXCEPT ![j] = @ \cup {worker[j]}]
  /\ UNCHANGED outcome

(* The worker settles the job, or gives it back because it failed or died. *)
Finish(w, j, result) ==
  /\ worker[j] = w
  /\ outcome' = [outcome EXCEPT ![j] = result]
  /\ worker' = [worker EXCEPT ![j] = Nobody]
  /\ overdue' = overdue \ {j}
  /\ UNCHANGED strays

(* A stray does the same, and the worker of the job becomes a stray.       *)
FinishLate(w, j, result) ==
  /\ w \in strays[j]
  /\ outcome' = [outcome EXCEPT ![j] = result]
  /\ worker' = [worker EXCEPT ![j] = Nobody]
  /\ overdue' = overdue \ {j}
  /\ strays' = [strays EXCEPT ![j] = (@ \cup {worker[j]}) \ {w, Nobody}]

(* A stray dies, and nobody notices.                                       *)
Vanish(w, j) ==
  /\ w \in strays[j]
  /\ strays' = [strays EXCEPT ![j] = @ \ {w}]
  /\ UNCHANGED <<outcome, worker, overdue>>

Next ==
  \/ FallOverdue
  \/ \E j \in JobId :
       \/ Add(j)
       \/ \E w \in Worker :
            \/ Take(w, j) \/ TakeOver(w, j) \/ Vanish(w, j)
            \/ \E result \in {"open", "done", "failed"} :
                 Finish(w, j, result) \/ FinishLate(w, j, result)

Spec == Init /\ [][Next]_ledger
=============================================================================
