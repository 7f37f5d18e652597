---------------------------- MODULE TaskTddProofs -----------------------------
(***************************************************************************)
(* Whatever the agents write and the suite says, however many files, tasks,*)
(* attempts, errors and restarts there are: what is committed for a task   *)
(* was tested first, and is committed once unless its record was lost.     *)
(***************************************************************************)
EXTENDS TaskTdd, TLAPS

Building == {"implement", "refactor", "commit", "record"}

(* The tests of the task in hand have failed as the author wrote them.     *)
TestsWereRed == stage \in Building => \A p \in DOMAIN tests : red[p] = tests[p]

(* What has passed is what is in the sandbox, then what will be committed, *)
(* and then what is on the branch.                                         *)
PassedInSandbox == stage = "refactor" => tree = green
PassedToCommit ==
  stage = "commit" /\ throws = 0 => \A p \in touched : tree[p] = green[p]
PassedOnBranch ==
  stage = "record" /\ throws = 0 => \A p \in touched : branch[p] = green[p]

(* Each commit of a task is either recorded, or about to be, or it was cut *)
(* off from its record.                                                    *)
InHandIsOpen == stage \in Building \cup {"author"} => task \in Task \ done
Recorded(t) == IF t \in done THEN 1 ELSE 0
Recording(t) == IF stage = "record" /\ task = t THEN 1 ELSE 0
Accounted ==
  \A t \in Task : commits[t] <= Recorded(t) + Recording(t) + aborts

Typed == TypeOK /\ InHandIsOpen
DoneInv ==
  Typed /\ TestsWereRed /\ PassedInSandbox /\ PassedToCommit /\ PassedOnBranch
OnceInv == Typed /\ Accounted

-----------------------------------------------------------------------------
(* What an agent writes is a partial tree, and the sandbox stays a tree.   *)
LEMMA FilesAreTrees ==
  ASSUME NEW files \in Files, tree \in Tree
  PROVE  /\ DOMAIN files \subseteq Path
         /\ Written(files) \in Tree
         /\ Reverted(files) \in Tree
<1>1. PICK P \in SUBSET Path : files \in [P -> Content]
  BY DEF Files
<1>2. DOMAIN files = P /\ \A p \in P : files[p] \in Content
  BY <1>1
<1>3. Written(files) \in Tree
  BY <1>2 DEF Written, Tree
<1>4. Reverted(files) \in Tree
  BY <1>3 DEF Reverted, Tree
<1> QED BY <1>1, <1>2, <1>3, <1>4

LEMMA NothingIsATree == NoFiles \in Files /\ DOMAIN NoFiles = {} /\ NoTree \in Tree
<1>1. NoFiles \in [{} -> Content]
  BY DEF NoFiles
<1>2. NoFiles \in Files
  BY <1>1 DEF Files
<1> QED BY <1>2 DEF NoFiles, NoTree, Tree

LEMMA LadderIsNat == Ladder \in Nat /\ LastTask \in Nat
BY LadderAssumption DEF Ladder

LEMMA InitTdd == Init => DoneInv /\ OnceInv
<1> SUFFICES ASSUME Init PROVE DoneInv /\ OnceInv
  OBVIOUS
<1>1. TypeOK
  <2>1. {branch, tree, red, green} \subseteq Tree /\ tests \in Files
    BY NothingIsATree DEF Init
  <2>2. passedEarly \in BOOLEAN
    BY DEF Init
  <2> QED
    BY <2>1, <2>2, LadderIsNat, AbortsAssumption DEF Init, TypeOK
<1>2. Typed /\ stage \notin Building
  BY <1>1 DEF Init, Typed, InHandIsOpen, Building
<1>3. DoneInv
  BY <1>2 DEF DoneInv, TestsWereRed, Building, PassedInSandbox,
     PassedToCommit, PassedOnBranch
<1>4. OnceInv
  BY <1>2 DEF Init, OnceInv, Accounted, Recorded, Recording
<1> QED BY <1>3, <1>4

-----------------------------------------------------------------------------
(* The parts of a step that several actions have in common.                *)
LEMMA ForgetKeepsType ==
  ASSUME Forget PROVE
    /\ {red', green'} \subseteq Tree
    /\ attempt' \in 0 .. Ladder
    /\ tests' \in Files /\ touched' \subseteq Path /\ passedEarly' \in BOOLEAN
<1>1. {red', green'} \subseteq Tree
  BY NothingIsATree DEF Forget
<1>2. attempt' \in 0 .. Ladder
  BY LadderIsNat DEF Forget
<1>3. tests' \in Files
  BY NothingIsATree DEF Forget
<1>4. touched' \subseteq Path
  BY DEF Forget
<1>5. passedEarly' \in BOOLEAN
  BY DEF Forget
<1> QED BY <1>1, <1>2, <1>3, <1>4, <1>5

LEMMA CloseKeepsType ==
  ASSUME TypeOK, Close PROVE
    /\ {branch', tree', red', green'} \subseteq Tree
    /\ done' \subseteq Task /\ task' \in Task \cup {0}
    /\ stage' = "closed" /\ attempt' \in 0 .. Ladder
    /\ tests' \in Files /\ touched' \subseteq Path /\ passedEarly' \in BOOLEAN
    /\ commits' \in [Task -> Nat]
<1>1. Forget
  BY DEF Close
<1> QED BY <1>1, ForgetKeepsType, NothingIsATree DEF TypeOK, Close

LEMMA ClimbKeepsType ==
  ASSUME TypeOK, Climb PROVE attempt' \in 0 .. Ladder
BY LadderIsNat DEF TypeOK, Climb

LEMMA TypeStep == Typed /\ [Next]_vars => TypeOK'
<1> SUFFICES ASSUME Typed, [Next]_vars PROVE TypeOK'
  OBVIOUS
<1> USE DEF Typed
<1>1. CASE OpenSandbox
  BY <1>1 DEF OpenSandbox, TypeOK, inHand, counts
<1>2. CASE NextTask
  BY <1>2 DEF NextTask, OpenTasks, TypeOK, inHand, counts
<1>3. CASE AllDone
  BY <1>3, CloseKeepsType DEF AllDone, TypeOK, counts
<1>4. CASE AuthorNothing
  BY <1>4, ClimbKeepsType, NothingIsATree DEF AuthorNothing, TypeOK, counts
<1>5. CASE AuthorRed
  <2>1. PICK files \in Files : tests' = files /\ tree' = Written(files)
    BY <1>5 DEF AuthorRed
  <2>2. DOMAIN files \subseteq Path /\ Written(files) \in Tree
    BY <2>1, FilesAreTrees DEF TypeOK
  <2> QED BY <1>5, <2>1, <2>2, LadderIsNat DEF AuthorRed, TypeOK, counts
<1>6. CASE AuthorNotRed
  <2>1. PICK files \in Files : tests' = files /\ tree' = Written(files)
    BY <1>6 DEF AuthorNotRed
  <2>2. Written(files) \in Tree
    BY <2>1, FilesAreTrees DEF TypeOK
  <2> QED BY <1>6, <2>1, <2>2, ClimbKeepsType DEF AuthorNotRed, TypeOK, counts
<1>7. CASE AlreadySatisfied
  <2>1. done' \subseteq Task
    BY <1>7 DEF AlreadySatisfied, TypeOK, InHandIsOpen
  <2> QED BY <1>7, <2>1, ForgetKeepsType DEF AlreadySatisfied, TypeOK, counts
<1>8. CASE AuthorStuck \/ ImplementerStuck
  BY <1>8, CloseKeepsType DEF AuthorStuck, ImplementerStuck, TypeOK, counts
<1>9. CASE ImplementerNotGreen
  <2>1. PICK files \in Files :
          tree' = Written(files) /\ touched' = touched \cup DOMAIN files
    BY <1>9 DEF ImplementerNotGreen
  <2>2. DOMAIN files \subseteq Path /\ Written(files) \in Tree
    BY <2>1, FilesAreTrees DEF TypeOK
  <2> QED BY <1>9, <2>1, <2>2, ClimbKeepsType DEF ImplementerNotGreen, TypeOK, counts
<1>10. CASE ImplementerGreen \/ RefactorKept
  <2>1. PICK files \in Files :
          tree' = Written(files) /\ touched' = touched \cup DOMAIN files
    BY <1>10 DEF ImplementerGreen, RefactorKept
  <2>2. DOMAIN files \subseteq Path /\ Written(files) \in Tree
    BY <2>1, FilesAreTrees DEF TypeOK
  <2> QED BY <1>10, <2>1, <2>2
          DEF ImplementerGreen, RefactorKept, TypeOK, counts
<1>11. CASE RefactorReverted
  <2>1. PICK files \in Files : tree' = Reverted(files)
    BY <1>11 DEF RefactorReverted
  <2>2. Reverted(files) \in Tree
    BY <2>1, FilesAreTrees DEF TypeOK
  <2> QED BY <1>11, <2>1, <2>2 DEF RefactorReverted, TypeOK, inHand, counts
<1>12. CASE RefactorThrows
  <2>1. PICK files \in Files : tree' = Written(files)
    BY <1>12 DEF RefactorThrows
  <2>2. Written(files) \in Tree
    BY <2>1, FilesAreTrees DEF TypeOK
  <2> QED BY <1>12, <2>1, <2>2, AbortsAssumption
          DEF RefactorThrows, TypeOK, inHand
<1>13. CASE CommitTaskFiles
  <2>1. branch' \in Tree
    BY <1>13 DEF CommitTaskFiles, TypeOK, Tree
  <2>2. commits' \in [Task -> Nat]
    BY <1>13 DEF CommitTaskFiles, TypeOK, InHandIsOpen, Building
  <2> QED BY <1>13, <2>1, <2>2 DEF CommitTaskFiles, TypeOK, inHand, counts
<1>14. CASE UpdateTask
  <2>1. done' \subseteq Task
    BY <1>14 DEF UpdateTask, TypeOK, InHandIsOpen, Building
  <2> QED BY <1>14, <2>1, ForgetKeepsType DEF UpdateTask, TypeOK, counts
<1>15. CASE Abort
  BY <1>15, CloseKeepsType, AbortsAssumption DEF Abort, TypeOK
<1>16. CASE UNCHANGED vars
  BY <1>16 DEF vars, TypeOK, inHand, counts
<1> QED
  BY <1>1, <1>2, <1>3, <1>4, <1>5, <1>6, <1>7, <1>8, <1>9, <1>10, <1>11,
     <1>12, <1>13, <1>14, <1>15, <1>16
  DEF Next, Loop, Author, Implement, Refactor

LEMMA TypedStep == Typed /\ [Next]_vars => Typed'
<1> SUFFICES ASSUME Typed, [Next]_vars PROVE InHandIsOpen'
  BY TypeStep DEF Typed
<1> USE DEF Typed, InHandIsOpen, Building
<1>1. CASE OpenSandbox
  BY <1>1 DEF OpenSandbox
<1>2. CASE NextTask
  BY <1>2 DEF NextTask, OpenTasks
<1>3. CASE Close
  BY <1>3 DEF Close
<1>4. CASE Author
  BY <1>4 DEF Author, AuthorNothing, AuthorRed, AuthorNotRed, AlreadySatisfied,
     AuthorStuck, Close
<1>5. CASE Implement
  BY <1>5 DEF Implement, ImplementerNotGreen, ImplementerGreen,
     ImplementerStuck, Close
<1>6. CASE Refactor
  BY <1>6 DEF Refactor, RefactorKept, RefactorReverted, RefactorThrows, inHand
<1>7. CASE CommitTaskFiles
  BY <1>7 DEF CommitTaskFiles
<1>8. CASE UpdateTask
  BY <1>8 DEF UpdateTask
<1>9. CASE UNCHANGED vars
  BY <1>9 DEF vars
<1> QED
  BY <1>1, <1>2, <1>3, <1>4, <1>5, <1>6, <1>7, <1>8, <1>9
  DEF Next, Loop, AllDone, Abort

-----------------------------------------------------------------------------
(* What is overwritten after a failed refactoring is what it may have      *)
(* broken: the touched files are again as the suite passed on them.        *)
LEMMA RevertedKeepsTouched ==
  ASSUME NEW files, touched \subseteq Path
  PROVE  \A p \in touched : Reverted(files)[p] = tree[p]
BY DEF Reverted

LEMMA DoneStep == DoneInv /\ [Next]_vars => DoneInv'
<1> SUFFICES ASSUME DoneInv, [Next]_vars
             PROVE  (/\ TestsWereRed /\ PassedInSandbox
                     /\ PassedToCommit /\ PassedOnBranch)'
  BY TypedStep DEF DoneInv
<1> USE DEF DoneInv, TestsWereRed, PassedInSandbox, PassedToCommit,
            PassedOnBranch, Building
<1>1. CASE OpenSandbox
  BY <1>1 DEF OpenSandbox
<1>2. CASE NextTask
  BY <1>2 DEF NextTask
<1>3. CASE Close
  BY <1>3 DEF Close
<1>4. CASE AuthorNothing \/ AuthorNotRed \/ AlreadySatisfied
  BY <1>4 DEF AuthorNothing, AuthorNotRed, AlreadySatisfied
<1>5. CASE AuthorRed
  <2>1. PICK files \in Files : tests' = files /\ tree' = Written(files)
    BY <1>5 DEF AuthorRed
  <2>2. red' = Written(files) /\ DOMAIN files \subseteq Path
    BY <1>5, <2>1, FilesAreTrees DEF AuthorRed, Typed, TypeOK
  <2>3. \A p \in DOMAIN tests' : red'[p] = tests'[p]
    BY <2>1, <2>2 DEF Written
  <2> QED BY <1>5, <2>3 DEF AuthorRed
<1>6. CASE ImplementerNotGreen
  BY <1>6 DEF ImplementerNotGreen
<1>7. CASE ImplementerGreen
  BY <1>7 DEF ImplementerGreen
<1>8. CASE RefactorKept
  BY <1>8 DEF RefactorKept
<1>9. CASE RefactorReverted
  <2>1. \A p \in touched : tree'[p] = green[p]
    BY <1>9, RevertedKeepsTouched DEF RefactorReverted, Typed, TypeOK
  <2> QED BY <1>9, <2>1 DEF RefactorReverted, inHand
<1>10. CASE RefactorThrows
  <2>1. throws' # 0
    BY <1>10, AbortsAssumption DEF RefactorThrows, Typed, TypeOK
  <2> QED BY <1>10, <2>1 DEF RefactorThrows, inHand
<1>11. CASE CommitTaskFiles
  <2>1. \A p \in touched : branch'[p] = tree[p]
    BY <1>11 DEF CommitTaskFiles, Typed, TypeOK
  <2> QED BY <1>11, <2>1 DEF CommitTaskFiles, inHand, counts
<1>12. CASE UpdateTask
  BY <1>12 DEF UpdateTask
<1>13. CASE UNCHANGED vars
  BY <1>13 DEF vars, inHand, counts
<1> QED
  BY <1>1, <1>2, <1>3, <1>4, <1>5, <1>6, <1>7, <1>8, <1>9, <1>10, <1>11,
     <1>12, <1>13
  DEF Next, Loop, AllDone, Abort, Author, AuthorStuck, Implement,
      ImplementerStuck, Refactor

LEMMA OnceStep == OnceInv /\ [Next]_vars => OnceInv'
<1> SUFFICES ASSUME OnceInv, [Next]_vars, NEW t \in Task
             PROVE  (commits[t] <= Recorded(t) + Recording(t) + aborts)'
  BY TypedStep DEF OnceInv, Accounted
<1>1. /\ commits[t] <= Recorded(t) + Recording(t) + aborts
      /\ commits[t] \in Nat /\ aborts \in Nat
  BY AbortsAssumption DEF OnceInv, Accounted, Typed, TypeOK
<1> USE DEF Recorded, Recording
<1>2. CASE OpenSandbox \/ NextTask
  BY <1>1, <1>2 DEF OpenSandbox, NextTask, counts
<1>3. CASE Close /\ UNCHANGED counts /\ stage # "record"
  BY <1>1, <1>3 DEF Close, counts
<1>4. CASE AuthorNothing \/ AuthorRed \/ AuthorNotRed \/ AlreadySatisfied
  BY <1>1, <1>4
  DEF AuthorNothing, AuthorRed, AuthorNotRed, AlreadySatisfied, counts
<1>5. CASE ImplementerNotGreen \/ ImplementerGreen
  BY <1>1, <1>5 DEF ImplementerNotGreen, ImplementerGreen, counts
<1>6. CASE Refactor
  BY <1>1, <1>6
  DEF Refactor, RefactorKept, RefactorReverted, RefactorThrows, counts
<1>7. CASE CommitTaskFiles
  BY <1>1, <1>7
  DEF CommitTaskFiles, OnceInv, Typed, TypeOK, InHandIsOpen, Building, counts
<1>8. CASE UpdateTask
  BY <1>1, <1>8 DEF UpdateTask, OnceInv, Typed, InHandIsOpen, Building, counts
<1>9. CASE Abort
  BY <1>1, <1>9 DEF Abort, Close, OnceInv, Typed, InHandIsOpen, Building
<1>10. CASE UNCHANGED vars
  BY <1>1, <1>10 DEF vars, counts
<1> QED
  BY <1>2, <1>3, <1>4, <1>5, <1>6, <1>7, <1>8, <1>9, <1>10
  DEF Next, Loop, AllDone, Author, AuthorStuck, Implement, ImplementerStuck

-----------------------------------------------------------------------------
(* The branch, the sandbox and the loop around them keep their types.      *)
THEOREM TddTypeCorrect == Spec => []TypeOK
<1>1. DoneInv => TypeOK
  BY DEF DoneInv, Typed
<1> QED BY <1>1, InitTdd, DoneStep, PTL DEF Spec

(* What is committed for a task is what the suite has passed on, after it  *)
(* had failed with the author's tests (runTaskTdd): with any number of     *)
(* files, tasks, attempts and restarts, as long as no refactoring throws.  *)
THEOREM DefinitionOfDoneAlways == Spec => []DefinitionOfDone
<1>1. DoneInv => DefinitionOfDone
  BY DEF DoneInv, TestsWereRed, PassedOnBranch, Building, DefinitionOfDone
<1> QED BY <1>1, InitTdd, DoneStep, PTL DEF Spec

(* A task is committed once, and once more at most for each job that ended *)
(* early (the task loop of handleImplement): the restart skips what the    *)
(* rows say is done.                                                       *)
THEOREM CommittedOnceAlways == Spec => []CommittedOnce
<1>1. OnceInv => CommittedOnce
  <2> SUFFICES ASSUME OnceInv, NEW t \in Task PROVE commits[t] <= 1 + aborts
    BY DEF CommittedOnce
  <2>1. /\ commits[t] <= Recorded(t) + Recording(t) + aborts
        /\ commits[t] \in Nat /\ aborts \in Nat
    BY AbortsAssumption DEF OnceInv, Accounted, Typed, TypeOK
  <2>2. Recorded(t) + Recording(t) <= 1
    BY DEF Recorded, Recording, OnceInv, Typed, InHandIsOpen, Building
  <2> QED BY <2>1, <2>2 DEF Recorded, Recording
<1> QED BY <1>1, InitTdd, OnceStep, PTL DEF Spec

=============================================================================
