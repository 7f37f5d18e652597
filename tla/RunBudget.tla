------------------------------- MODULE RunBudget -------------------------------
(***************************************************************************)
(* The budget of one run: how the ceiling gets onto the row, and how model *)
(* calls check it before they spend and record what they spent after.      *)
(*                                                                         *)
(* Source: src/llm/gateway.ts (call), recordLlmCall, findOrCreateRun and   *)
(* setRunBudget of src/store/pg-store.ts, migrations/004_llm_budget.sql,   *)
(* the beginning of handleIssueOpened and of handleRunTests in             *)
(* src/worker/handlers.ts.  Costs are small numbers instead of nano-USD.   *)
(***************************************************************************)
EXTENDS Naturals, FiniteSets

CONSTANTS
  Caller,          \* what may be calling the gateway for the run at once
  MaxCost,         \* bound: what one call costs
  DefaultBudget,   \* runs.budget_nano_usd DEFAULT
  Ceilings,        \* the configured ceiling: of an API key's installation
                   \* and of a subscription's
  MaxLost          \* bound: answers paid for and never recorded

ASSUME CallerAssumption == IsFiniteSet(Caller) /\ Caller # {}
ASSUME CostAssumption == MaxCost \in Nat \ {0}
ASSUME BudgetAssumption == DefaultBudget \in Nat /\ Ceilings \subseteq Nat
ASSUME LostAssumption == MaxLost \in Nat

VARIABLES
  ceiling,   \* the ceiling that applies to the run's installation
  budget,    \* runs.budget_nano_usd
  spent,     \* runs.spent_nano_usd
  birth,     \* "none"; the row was "created" by issue_opened, which has yet
             \* to set its budget; or that is over
  calls,     \* per caller: how far its model call has come
  owed,      \* per caller: what the answer it holds has cost
  charged,   \* history: what the provider has charged for the run
  lost       \* history: how many answers were never recorded

vars == <<ceiling, budget, spent, birth, calls, owed, charged, lost>>

Init ==
  /\ ceiling \in Ceilings
  /\ budget = DefaultBudget /\ spent = 0
  /\ birth = "none"
  /\ calls = [c \in Caller |-> "idle"] /\ owed = [c \in Caller |-> 0]
  /\ charged = 0 /\ lost = 0

-----------------------------------------------------------------------------
(* issue_opened creates the row ...                                        *)
CreateByIssue ==
  /\ birth = "none"
  /\ birth' = "created"
  /\ UNCHANGED <<ceiling, budget, spent, calls, owed, charged, lost>>

(* ... and, only because it did, sets the budget.                          *)
SetRunBudget ==
  /\ birth = "created"
  /\ birth' = "over"
  /\ budget' = ceiling
  /\ UNCHANGED <<ceiling, spent, calls, owed, charged, lost>>

(* The handler does not get that far; its retry will find the row.         *)
BudgetNotSet ==
  /\ birth = "created"
  /\ birth' = "over"
  /\ UNCHANGED <<ceiling, budget, spent, calls, owed, charged, lost>>

(* run_tests may create the row as well; issue_opened will find it.        *)
CreateByRunTests ==
  /\ birth = "none"
  /\ birth' = "over"
  /\ UNCHANGED <<ceiling, budget, spent, calls, owed, charged, lost>>

-----------------------------------------------------------------------------
(* budget_nano_usd - spent_nano_usd <= 0.  Mutant: < 0.                    *)
ExhaustedLate == budget < spent
Exhausted == budget <= spent

(* The pre-check passes, and the request goes out.  The first job that     *)
(* calls a model is queued after the row has its budget, or never will.    *)
CheckBudget(c) ==
  /\ birth = "over"
  /\ calls[c] = "idle"
  /\ ~Exhausted
  /\ calls' = [calls EXCEPT ![c] = "asked"]
  /\ UNCHANGED <<ceiling, budget, spent, birth, owed, charged, lost>>

(* The provider answers, and charges for it; or the request fails.         *)
Answer(c) ==
  /\ calls[c] = "asked"
  /\ \E cost \in 1 .. MaxCost :
       /\ owed' = [owed EXCEPT ![c] = cost]
       /\ charged' = charged + cost
  /\ calls' = [calls EXCEPT ![c] = "answered"]
  /\ UNCHANGED <<ceiling, budget, spent, birth, lost>>

RequestFails(c) ==
  /\ calls[c] = "asked"
  /\ calls' = [calls EXCEPT ![c] = "idle"]
  /\ UNCHANGED <<ceiling, budget, spent, birth, owed, charged, lost>>

(* What recording makes of the row, in the database's own arithmetic.      *)
(* Mutant: with the sign of what remains.                                  *)
AddedToRemaining(c) == spent - owed[c]
Added(c) == spent + owed[c]

(* recordLlmCall: one transaction.                                         *)
RecordLlmCall(c) ==
  /\ calls[c] = "answered"
  /\ spent' = Added(c)
  /\ calls' = [calls EXCEPT ![c] = "idle"]
  /\ owed' = [owed EXCEPT ![c] = 0]
  /\ UNCHANGED <<ceiling, budget, birth, charged, lost>>

(* The process dies before that, or the transaction is rolled back.        *)
LoseAnswer(c) ==
  /\ calls[c] = "answered"
  /\ lost < MaxLost
  /\ lost' = lost + 1
  /\ calls' = [calls EXCEPT ![c] = "idle"]
  /\ owed' = [owed EXCEPT ![c] = 0]
  /\ UNCHANGED <<ceiling, budget, spent, birth, charged>>

Next ==
  \/ CreateByIssue \/ SetRunBudget \/ BudgetNotSet \/ CreateByRunTests
  \/ \E c \in Caller :
       \/ CheckBudget(c) \/ Answer(c) \/ RequestFails(c)
       \/ RecordLlmCall(c) \/ LoseAnswer(c)

Spec == Init /\ [][Next]_vars

-----------------------------------------------------------------------------
TypeOK ==
  /\ ceiling \in Ceilings
  /\ budget \in Nat /\ spent \in Nat /\ charged \in Nat
  /\ birth \in {"none", "created", "over"}
  /\ calls \in [Caller -> {"idle", "asked", "answered"}]
  /\ owed \in [Caller -> 0 .. MaxCost]
  /\ lost \in 0 .. MaxLost

(* How far a run can overspend: the check is not repeated when the bill    *)
(* comes, so every caller may have one call beyond the ceiling, and every  *)
(* answer that was never recorded is one the ceiling does not count.       *)
Slack == (Cardinality(Caller) + lost) * MaxCost
OvershootBounded == charged < budget + Slack

(* The configured per-run ceiling is applied where the run is born: what   *)
(* is spent is spent under it.                                             *)
(* The code does not keep this: see README.md.                             *)
CeilingConfigured == charged > 0 => budget = ceiling
=============================================================================
