----------------------------- MODULE RunLifecycle -----------------------------
(***************************************************************************)
(* The life of a run as its state column shows it, and as the state        *)
(* machine of the documentation draws it: forward through specification,   *)
(* plan, implementation and review, parked wherever a human has to answer, *)
(* and never out of a terminal state.  RunPipeline implements it while     *)
(* nothing fails.                                                          *)
(***************************************************************************)
VARIABLE state

Terminal == {"unsupported", "failed", "aborted"}

(* Where a run may go from each state, apart from failing.                 *)
Successors ==
  [none |-> {"received"},
   received |-> {"acknowledged"},
   acknowledged |-> {"specifying"},
   specifying |-> {"specified", "awaiting_clarification", "unsupported"},
   awaiting_clarification |-> {"specified"},
   specified |-> {"planning", "specifying"},
   planning |-> {"awaiting_plan_approval"},
   awaiting_plan_approval |-> {"planning", "implementing", "aborted"},
   implementing |-> {"awaiting_impl_help", "reviewing"},
   awaiting_impl_help |-> {"implementing", "aborted"},
   reviewing |-> {"awaiting_pr_review"},
   awaiting_pr_review |-> {"awaiting_plan_approval"}]

Init == state = "none"

Advance ==
  /\ state \notin Terminal
  /\ state' \in Successors[state]

(* Acknowledging is the one thing that cannot fail the run.                *)
GiveUp ==
  /\ state \notin Terminal \cup {"none", "received", "acknowledged"}
  /\ state' = "failed"

Next == Advance \/ GiveUp

Spec == Init /\ [][Next]_state
=============================================================================
