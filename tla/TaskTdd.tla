-------------------------------- MODULE TaskTdd --------------------------------
(***************************************************************************)
(* The test-first loop: one `implement` job after the other opens a sandbox*)
(* on the working branch and takes the tasks one by one through test       *)
(* author, implementer and refactor (runTaskTdd, src/pipeline/tdd.ts),     *)
(* committing what each of them touched and then marking it done (the task *)
(* loop of handleImplement, src/worker/handlers.ts).                       *)
(*                                                                         *)
(* A file's content is a number, 0 when the file does not exist.  What the *)
(* agents write and what the suite says of it is any of the possible       *)
(* outcomes.  A call that throws outside the refactoring ends the job, and *)
(* so one step stands for an agent's answer, its files and the test run.   *)
(***************************************************************************)
EXTENDS Naturals, Functions

CONSTANTS
  Path,           \* the files of the repository
  Content,        \* bound: what a file may contain
  LastTask,       \* bound: tasks 1 .. LastTask, in their order
  SONNET_ATTEMPTS,
  OPUS_ATTEMPTS,
  MaxThrows,      \* bound: refactorings that throw
  MaxAborts       \* bound: jobs that end early, for whatever reason

ASSUME ContentAssumption == Content \subseteq Nat \ {0}
ASSUME LadderAssumption ==
  /\ {LastTask, SONNET_ATTEMPTS, OPUS_ATTEMPTS} \subseteq Nat
  /\ SONNET_ATTEMPTS + OPUS_ATTEMPTS > 0
ASSUME AbortsAssumption == MaxThrows \in Nat /\ MaxAborts \in Nat

VARIABLES
  branch,         \* the files on the working branch
  done,           \* the tasks whose row says done
  tree,           \* the files in the sandbox
  stage,          \* where the job is; "closed" when there is no sandbox
  task,           \* the task in hand
  attempt,        \* the rungs of the ladder already climbed
  tests,          \* testFiles: the files of the last author that wrote any
  passedEarly,    \* suitePassedPreImpl
  touched,        \* the paths the commit will carry
  red, green,     \* history: the trees on which the suite last failed for the
                  \* author and last passed for the implementer or refactorer
  commits,        \* history: how often each task was committed
  throws, aborts  \* how much has happened of what is bounded

inHand == <<attempt, tests, passedEarly, touched, red, green>>
counts == <<throws, aborts>>
vars == <<branch, done, tree, stage, task, inHand, commits, counts>>

Ladder == SONNET_ATTEMPTS + OPUS_ATTEMPTS
Task == 1 .. LastTask
Tree == [Path -> Content \cup {0}]
NoTree == [p \in Path |-> 0]
Files == UNION {[P -> Content] : P \in SUBSET Path}
NoFiles == [p \in {} |-> 0]

(* writeFiles                                                              *)
Written(files) ==
  [p \in Path |-> IF p \in DOMAIN files THEN files[p] ELSE tree[p]]

Init ==
  /\ branch = NoTree /\ tree = NoTree
  /\ done = {} /\ stage = "closed"
  /\ task = 0 /\ attempt = 0 /\ tests = NoFiles /\ passedEarly = FALSE
  /\ touched = {} /\ red = NoTree /\ green = NoTree
  /\ commits = [t \in Task |-> 0]
  /\ throws = 0 /\ aborts = 0

(* runTaskTdd begins, or returns.                                          *)
Forget ==
  /\ attempt' = 0 /\ tests' = NoFiles /\ passedEarly' = FALSE
  /\ touched' = {} /\ red' = NoTree /\ green' = NoTree

-----------------------------------------------------------------------------
(* A job opens a sandbox: a fresh clone of the branch.                     *)
OpenSandbox ==
  /\ stage = "closed"
  /\ done # Task
  /\ stage' = "pick"
  /\ tree' = branch
  /\ UNCHANGED <<branch, done, task, inHand, commits, counts>>

(* The sandbox is closed, and what was not committed is gone with it.      *)
Close ==
  /\ stage' = "closed"
  /\ tree' = NoTree
  /\ task' = 0
  /\ Forget
  /\ UNCHANGED <<branch, done, commits>>

(* Done tasks are skipped.  Mutant: they are not.                          *)
OpenTasksAll == {t \in Task : t > task}
OpenTasks == {t \in Task : t \notin done}

NextTask ==
  /\ stage = "pick"
  /\ \E t \in OpenTasks :
       /\ \A u \in OpenTasks : t <= u
       /\ task' = t
  /\ stage' = "author"
  /\ UNCHANGED <<branch, done, tree, inHand, commits, counts>>

AllDone ==
  /\ stage = "pick"
  /\ OpenTasks = {}
  /\ Close
  /\ UNCHANGED counts

-----------------------------------------------------------------------------
(* A failed attempt.  Mutant: it is not counted.                           *)
ClimbNot == attempt < Ladder /\ attempt' = attempt
Climb == attempt < Ladder /\ attempt' = attempt + 1

(* The author wrote no test.                                               *)
AuthorNothing ==
  /\ stage = "author"
  /\ Climb
  /\ tests' = NoFiles
  /\ UNCHANGED <<branch, done, tree, stage, task, passedEarly, touched,
                 red, green, commits, counts>>

(* The author's tests fail, as they must ...                               *)
AuthorRed ==
  /\ stage = "author"
  /\ attempt < Ladder
  /\ \E files \in Files \ {NoFiles} :
       /\ tests' = files
       /\ tree' = Written(files)
  /\ red' = tree'
  /\ touched' = DOMAIN tests'
  /\ stage' = "implement"
  /\ attempt' = 0
  /\ UNCHANGED <<branch, done, task, passedEarly, green, commits, counts>>

(* ... or pass, and stay in the sandbox while the author tries again.      *)
AuthorNotRed ==
  /\ stage = "author"
  /\ Climb
  /\ \E files \in Files \ {NoFiles} :
       /\ tests' = files
       /\ tree' = Written(files)
  /\ passedEarly' = TRUE
  /\ UNCHANGED <<branch, done, stage, task, touched, red, green, commits,
                 counts>>

(* No tests went red.  If some passed, the task is taken to be satisfied.  *)
AlreadySatisfied ==
  /\ stage = "author"
  /\ attempt = Ladder
  /\ passedEarly
  /\ done' = done \cup {task}
  /\ stage' = "pick"
  /\ Forget
  /\ UNCHANGED <<branch, tree, task, commits, counts>>

(* Otherwise the task is stuck, and the run waits for help.                *)
AuthorStuck ==
  /\ stage = "author"
  /\ attempt = Ladder
  /\ ~passedEarly
  /\ Close
  /\ UNCHANGED counts

-----------------------------------------------------------------------------
ImplementerNotGreen ==
  /\ stage = "implement"
  /\ Climb
  /\ \E files \in Files :
       /\ tree' = Written(files)
       /\ touched' = touched \cup DOMAIN files
  /\ UNCHANGED <<branch, done, stage, task, tests, passedEarly, red, green,
                 commits, counts>>

ImplementerGreen ==
  /\ stage = "implement"
  /\ attempt < Ladder
  /\ \E files \in Files :
       /\ tree' = Written(files)
       /\ touched' = touched \cup DOMAIN files
  /\ green' = tree'
  /\ stage' = "refactor"
  /\ UNCHANGED <<branch, done, task, attempt, tests, passedEarly, red,
                 commits, counts>>

ImplementerStuck ==
  /\ stage = "implement"
  /\ attempt = Ladder
  /\ Close
  /\ UNCHANGED counts

-----------------------------------------------------------------------------
(* The refactored files are kept if the suite still passes ...             *)
RefactorKept ==
  /\ stage = "refactor"
  /\ \E files \in Files :
       /\ tree' = Written(files)
       /\ touched' = touched \cup DOMAIN files
  /\ green' = tree'
  /\ stage' = "commit"
  /\ UNCHANGED <<branch, done, task, attempt, tests, passedEarly, red,
                 commits, counts>>

(* ... and overwritten with the snapshot of the touched files if it does   *)
(* not; what else the refactoring wrote stays.  Mutant: nothing is         *)
(* overwritten.                                                            *)
RevertedNothing(files) == Written(files)
Reverted(files) ==
  [p \in Path |-> IF p \in touched THEN tree[p] ELSE Written(files)[p]]

RefactorReverted ==
  /\ stage = "refactor"
  /\ \E files \in Files : tree' = Reverted(files)
  /\ stage' = "commit"
  /\ UNCHANGED <<branch, done, task, inHand, commits, counts>>

(* Writing or testing the refactored files, or reverting them, throws, and *)
(* the error is swallowed.                                                 *)
RefactorThrows ==
  /\ stage = "refactor"
  /\ throws < MaxThrows
  /\ throws' = throws + 1
  /\ \E files \in Files : tree' = Written(files)
  /\ stage' = "commit"
  /\ UNCHANGED <<branch, done, task, inHand, commits, aborts>>

-----------------------------------------------------------------------------
(* The touched files, as they are in the sandbox, in one commit ...        *)
CommitTaskFiles ==
  /\ stage = "commit"
  /\ branch' = [p \in Path |-> IF p \in touched THEN tree[p] ELSE branch[p]]
  /\ commits' = [commits EXCEPT ![task] = @ + 1]
  /\ stage' = "record"
  /\ UNCHANGED <<done, tree, task, inHand, counts>>

(* ... and then the row.                                                   *)
UpdateTask ==
  /\ stage = "record"
  /\ done' = done \cup {task}
  /\ stage' = "pick"
  /\ Forget
  /\ UNCHANGED <<branch, tree, task, commits, counts>>

(* The budget is spent, a call throws or the process dies.                 *)
Abort ==
  /\ stage # "closed"
  /\ aborts < MaxAborts
  /\ aborts' = aborts + 1
  /\ Close
  /\ UNCHANGED throws

Author == AuthorNothing \/ AuthorRed \/ AuthorNotRed \/ AlreadySatisfied
          \/ AuthorStuck
Implement == ImplementerNotGreen \/ ImplementerGreen \/ ImplementerStuck
Refactor == RefactorKept \/ RefactorReverted \/ RefactorThrows
Loop == NextTask \/ AllDone \/ Author \/ Implement \/ Refactor
        \/ CommitTaskFiles \/ UpdateTask

Next == OpenSandbox \/ Loop \/ Abort

Spec == Init /\ [][Next]_vars

(* A handler that was started goes on; whether another follows is up to    *)
(* the people at the gate.                                                 *)
FairSpec == Spec /\ WF_vars(Loop)

-----------------------------------------------------------------------------
TypeOK ==
  /\ {branch, tree, red, green} \subseteq Tree
  /\ done \subseteq Task /\ task \in Task \cup {0}
  /\ stage \in {"closed", "pick", "author", "implement", "refactor", "commit",
               "record"}
  /\ attempt \in 0 .. Ladder
  /\ tests \in Files /\ touched \subseteq Path
  /\ passedEarly \in BOOLEAN
  /\ commits \in [Task -> Nat]
  /\ throws \in 0 .. MaxThrows /\ aborts \in 0 .. MaxAborts

(* The Definition of Done, enforced by code: what is committed for a task  *)
(* is, file by file, what the suite passed on, after it had failed with    *)
(* the very tests the author wrote; unless an error in a refactoring was   *)
(* swallowed (tdd.ts:338), which leaves files nobody has tested.           *)
DefinitionOfDone ==
  stage = "record" /\ throws = 0 =>
    /\ \A p \in touched : branch[p] = green[p]
    /\ \A p \in DOMAIN tests : red[p] = tests[p]

(* A restart takes up where the last job stopped: a task is only committed *)
(* again if its commit was never recorded.                                 *)
CommittedOnce == \A t \in Task : commits[t] <= 1 + aborts

(* The tests that the suite passes on are those that failed before: the    *)
(* implementer and the refactorer "may not edit tests" (tdd.ts).           *)
(* The code does not keep this: see README.md.                             *)
TestsKept ==
  stage = "record" => \A p \in DOMAIN tests : green[p] = tests[p]

(* "The loop only commits green states" (PROGRESS.md): the whole branch is *)
(* a tree the suite has passed on.                                         *)
(* The code does not keep this: see README.md.                             *)
BranchIsGreen == stage = "record" => branch = green

(* The ladder ends: a task that was begun lands, turns out to be satisfied *)
(* or is handed to a human.                                                *)
TaskEnds == stage = "author" ~> stage \in {"pick", "closed"}
=============================================================================
