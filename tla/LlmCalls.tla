------------------------------- MODULE LlmCalls -------------------------------
(***************************************************************************)
(* The calls to a model that the jobs of one run make, from the request to *)
(* what becomes of the job: a subscription answers by a stream of turns,   *)
(* limits and a result, which AgentSdkProvider makes into an answer or an  *)
(* error (src/llm/agent-sdk-provider.ts); an API key by one answer or none *)
(* (src/llm/anthropic-provider.ts).  The agent runner parses the answer    *)
(* once it is recorded (src/agents/runner.ts); the worker retries, refuses *)
(* or gives up the job by its error (src/worker/worker.ts).  How calls are *)
(* budgeted and recorded is RunBudget; a turn costs 1.                     *)
(***************************************************************************)
EXTENDS RunBudget, SequencesExt

CONSTANTS
  MAX_TURNS,        \* turns of one call
  MAX_JOB_ATTEMPTS, \* attempts of one job
  MaxMessages,      \* bound: messages of one stream
  MaxRefactors,     \* bound: refactorings in one attempt of a job
  MaxDeaths         \* bound: workers that die

ASSUME TurnsAssumption == MAX_TURNS \in Nat \ {0} /\ MaxCost = MAX_TURNS
ASSUME AttemptsAssumption ==
  MAX_JOB_ATTEMPTS \in Nat \ {0} /\ {MaxMessages, MaxRefactors, MaxDeaths} \subseteq Nat

VARIABLES
  authType,  \* of the installation's credential
  job,       \* per caller: what has become of its job
  attempts,  \* per caller: how often the job was claimed
  stream,    \* per caller: what its call under way has come to
  refactors, \* per caller: the refactorings of this attempt
  deaths     \* history: workers that have died

jobs == <<job, attempts, refactors>>
callVars == <<vars, authType, jobs, stream, deaths>>

Quiet == [best |-> FALSE, end |-> "none", rejected |-> FALSE]

CallsInit ==
  /\ Init
  /\ authType \in {"api_key", "subscription"}
  /\ job = [c \in Caller |-> "queued"] /\ attempts = [c \in Caller |-> 0]
  /\ stream = [c \in Caller |-> Quiet] /\ refactors = [c \in Caller |-> 0]
  /\ deaths = 0

-----------------------------------------------------------------------------
(* The row is created, with its ceiling or without.                        *)
Born ==
  /\ CreateByIssue \/ SetRunBudget \/ BudgetNotSet \/ CreateByRunTests
  /\ UNCHANGED <<authType, jobs, stream, deaths>>

Claim(c) ==
  /\ birth = "over" /\ job[c] = "queued"
  /\ job' = [job EXCEPT ![c] = "working"]
  /\ attempts' = [attempts EXCEPT ![c] = @ + 1]
  /\ refactors' = [refactors EXCEPT ![c] = 0]
  /\ UNCHANGED <<vars, authType, stream, deaths>>

Working(c) == job[c] = "working" /\ stream[c] = Quiet

(* The handler calls an agent; best: as a refactoring, whose failures are  *)
(* swallowed (runTaskTdd).                                                 *)
CallAgent(c) ==
  /\ Working(c)
  /\ CheckBudget(c)
  /\ \E best \in BOOLEAN :
       /\ best => refactors[c] < MaxRefactors
       /\ refactors' = [refactors EXCEPT ![c] = IF best THEN @ + 1 ELSE @]
       /\ stream' = [stream EXCEPT ![c].best = best, ![c].end = "open"]
  /\ UNCHANGED <<authType, job, attempts, deaths>>

(* There is nothing left to do, or no budget to do it with: a handler that *)
(* gets a BudgetExhaustedError ends its job.                               *)
Finish(c) ==
  /\ Working(c)
  /\ job' = [job EXCEPT ![c] = "done"]
  /\ UNCHANGED <<vars, authType, attempts, refactors, stream, deaths>>

-----------------------------------------------------------------------------
(* What the SDK sends: turns, words on the plan's limit, and results, of   *)
(* which "bare" is a success without structured output.                    *)
Word == {"allowed", "rejected"}
Result == {"success", "bare", "error"}
Count(messages) == Len(SelectSeq(messages, LAMBDA m : m = "turn"))
Streams ==
  {m \in BoundedSeq({"turn"} \cup Word \cup Result, MaxMessages) :
     /\ Count(m) <= MAX_TURNS
     /\ \A i \in DOMAIN m :
          m[i] \in {"success", "bare"} => Count(SubSeq(m, 1, i)) > 0}

(* A later message of a kind replaces an earlier one.                      *)
LastOf(kind, messages) ==
  LET those == SelectSeq(messages, LAMBDA m : m \in kind)
  IN IF those = <<>> THEN "none" ELSE Last(those)

(* failureFor names a spent plan if it is told of a rejection ...          *)
Failure(messages) ==
  IF LastOf(Word, messages) = "rejected" THEN "spent" ELSE "fault"

(* ... and createMessage tells it unless there is no result, or a bare one.*)
Verdict(messages, thrown) ==
  LET result == LastOf(Result, messages) IN
  CASE thrown \/ result = "error" -> Failure(messages)
    [] ~thrown /\ result = "success" -> "answered"
    [] OTHER -> "fault"

Ending(messages, thrown) ==
  [end |-> Verdict(messages, thrown), turns |-> Count(messages),
   rejected |-> LastOf(Word, messages) = "rejected"]
SdkEndings == {Ending(s, thrown) : s \in Streams, thrown \in BOOLEAN}

(* An API key's request is answered in one turn or fails, charged or not.  *)
ApiEndings ==
  {Ending(<<"turn", "success">>, FALSE), Ending(<<"turn">>, TRUE),
   Ending(<<>>, TRUE)}
Endings == IF authType = "api_key" THEN ApiEndings ELSE SdkEndings

(* The stream is over, or the worker; what its turns cost is charged.      *)
EndsWith(c, ending, end) ==
  /\ stream[c].end = "open"
  /\ stream' = [stream EXCEPT ![c].end = end, ![c].rejected = ending.rejected]
  /\ IF ending.turns = 0 THEN RequestFails(c)
     ELSE Answer(c) /\ owed'[c] = ending.turns
  /\ UNCHANGED <<authType, jobs>>

StreamEnds(c) ==
  /\ \E ending \in Endings : EndsWith(c, ending, ending.end)
  /\ UNCHANGED deaths

(* Another claim follows when the lease is over, whatever the attempts.    *)
WorkerDies(c) ==
  /\ deaths < MaxDeaths
  /\ deaths' = deaths + 1
  /\ \/ \E ending \in Endings : EndsWith(c, ending, "dead")
     \/ /\ stream[c].end = "answered"
        /\ stream' = [stream EXCEPT ![c].end = "dead"]
        /\ UNCHANGED <<vars, authType, jobs>>
     \/ /\ Working(c)
        /\ job' = [job EXCEPT ![c] = "queued"]
        /\ UNCHANGED <<vars, authType, attempts, refactors, stream>>

-----------------------------------------------------------------------------
(* failOrRetryJob.                                                         *)
OutOfAttempts(c) == attempts[c] >= MAX_JOB_ATTEMPTS
FailOrRetry(c) == IF OutOfAttempts(c) THEN "dead" ELSE "queued"

(* What becomes of the job when a call has come to an end.  Mutant: any    *)
(* error is swallowed like that of a refactoring.                          *)
AfterSwallowingAll(c, end) == IF end = "dead" THEN "queued" ELSE "working"
After(c, end) ==
  CASE end = "dead" -> "queued"
    [] end = "answered" -> "working"
    [] end \in {"fault", "spent"} /\ stream[c].best -> "working"
    [] end = "spent" /\ ~stream[c].best -> "refused"
    [] end = "fault" /\ ~stream[c].best -> FailOrRetry(c)

(* A failed call is not recorded, whatever it has cost.                    *)
CallFails(c) ==
  /\ stream[c].end \in {"fault", "spent", "dead"}
  /\ job' = [job EXCEPT ![c] = After(c, stream[c].end)]
  /\ IF calls[c] = "answered" THEN LoseAnswer(c) ELSE UNCHANGED vars
  /\ stream' = [stream EXCEPT ![c] = Quiet]
  /\ UNCHANGED <<authType, attempts, refactors, deaths>>

(* An answer is recorded first and parsed then, which may fail.            *)
CallReturns(c) ==
  /\ stream[c].end = "answered"
  /\ RecordLlmCall(c)
  /\ \E end \in {"answered", "fault"} : job' = [job EXCEPT ![c] = After(c, end)]
  /\ stream' = [stream EXCEPT ![c] = Quiet]
  /\ UNCHANGED <<authType, attempts, refactors, deaths>>

(* Recording it fails, which is an error like any other.                   *)
RecordFails(c) ==
  /\ stream[c].end = "answered"
  /\ LoseAnswer(c)
  /\ job' = [job EXCEPT ![c] = After(c, "fault")]
  /\ stream' = [stream EXCEPT ![c] = Quiet]
  /\ UNCHANGED <<authType, attempts, refactors, deaths>>

CallsNext ==
  \/ Born
  \/ \E c \in Caller :
       \/ Claim(c) \/ CallAgent(c) \/ Finish(c)
       \/ StreamEnds(c) \/ WorkerDies(c)
       \/ CallFails(c) \/ CallReturns(c) \/ RecordFails(c)

CallsSpec == CallsInit /\ [][CallsNext]_callVars

-----------------------------------------------------------------------------
(* What is paid for and never recorded, and so never seen by the budget,   *)
(* is bounded by the attempts alone: one failed call ends an attempt, save *)
(* those of refactorings, and a death allows for one attempt more.         *)
LostBounded ==
  lost <= (Cardinality(Caller) * MAX_JOB_ATTEMPTS + deaths) * (1 + MaxRefactors)

(* "The run budget in the gateway is the real cost ceiling", up to the     *)
(* call under way of each caller.                                          *)
(* The code does not keep this: see README.md.                             *)
BudgetIsCeiling == charged < budget + Cardinality(Caller) * MaxCost

(* A spent plan is refused: "retrying just burns attempts".                *)
(* The code does not keep this: see README.md.                             *)
SpentNeverRetried ==
  [][\A c \in Caller :
       stream[c].rejected /\ stream[c].end \in {"fault", "spent"} =>
         job'[c] # "queued"]_callVars

(* "Nothing was charged", says the comment on a job that is refused.       *)
(* The code does not keep this: see README.md.                             *)
NothingCharged == (\E c \in Caller : job[c] = "refused") => charged = 0
=============================================================================
