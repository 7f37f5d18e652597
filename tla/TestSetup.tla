------------------------------ MODULE TestSetup -------------------------------
(***************************************************************************)
(* The test setup of a repository, on the way of one issue from its spec   *)
(* to its pull request: the language pack is chosen from the files at the  *)
(* root (handleProduceSpec), the planner looks for a test runner and, if   *)
(* there is none, asks for consent to add one (handleProducePlan), the     *)
(* implementer looks again, adds it, proves it and commits it before any   *)
(* task (handleImplement), and the pull request says so (handleReview).    *)
(*                                                                         *)
(* Source: src/toolchain/toolchain.ts, src/pipeline/test-setup.ts,         *)
(* src/pipeline/bootstrap.ts and the handlers that call them; git writes   *)
(* go through GitBranch.  A job that is cut short starts again.  Each file *)
(* stands for those like it: requirements.txt for setup.py, pyproject.toml *)
(* for setup.cfg and tox.ini, vitest.config.ts for the other runner        *)
(* configurations, and apps/web for a package of a monorepo.               *)
(***************************************************************************)
EXTENDS GitBranch, FiniteSets

CONSTANTS
  Repos,        \* bound: the trees the base branch may have
  Language,     \* bound: what GitHub may take for the primary language
  MaxRevisions, \* PLAN_REVISION_CAP
  MaxCrashes    \* bound: jobs that are cut short

RepoFile == {"apps/web/package.json", "package.json", "package-lock.json",
             "vite.config.ts", "vitest.config.ts", "pyproject.toml",
             "requirements.txt", "pytest.ini", "conftest.py", "own.test",
             "setup.test", "spec.md", "plan.md", "feature"}

ASSUME RepoAssumption ==
  /\ Path = RepoFile
  /\ {"ours", "plain", "deps"} \subseteq Text
  /\ Repos \subseteq [Path -> Text]
ASSUME BoundsAssumption == {MaxRevisions, MaxCrashes} \subseteq Nat

VARIABLES
  phase,     \* where the run is
  at,        \* where the job of this phase is
  language,  \* GitHub's primary language of the repository
  pack,      \* the run's toolchainId
  found,     \* the test setup the planner found to be needed
  consent,   \* context.bootstrap: what the plan gate has shown
  revisions, \* plans asked for again
  sandbox,   \* the files of the sandbox, of no interest when it is closed
  blind,     \* history: has a listing of the sandbox's files failed?
  proven,    \* history: the tree on which the new setup came out green
  crashes    \* how much has happened of what is bounded

decided == <<language, pack, found, consent, revisions>>
history == <<blind, proven, crashes>>
setupVars == <<phase, at, decided, sandbox, history>>
vars == <<gitVars, setupVars>>

NoTree == [p \in Path |-> Absent]
Present(tree, p) == tree[p] # Absent
Job == {"spec", "plan", "implement", "review"}

Init ==
  /\ GitInit
  /\ \E tree \in Repos : main = <<[by |-> "people", tree |-> tree]>>
  /\ language \in Language
  /\ phase = "spec" /\ at = "start" /\ pack = "none"
  /\ found = "none" /\ consent = "none" /\ revisions = 0
  /\ sandbox = NoTree /\ blind = FALSE /\ proven = NoTree
  /\ crashes = 0

-----------------------------------------------------------------------------
(* Language packs.                                                         *)

(* detectToolchain: the first pack whose project file is at the root.      *)
Detected(tree, listed) ==
  IF listed /\ Present(tree, "package.json") THEN "typescript"
  ELSE IF listed /\ (Present(tree, "pyproject.toml")
                     \/ Present(tree, "requirements.txt")) THEN "python"
  ELSE "none"

(* toolchainForLanguage: an unknown language is taken for the default.     *)
ForLanguage ==
  IF language = "unknown" THEN "typescript"
  ELSE IF language \in {"typescript", "python"} THEN language ELSE "none"

Resolved(tree, listed) ==
  IF Detected(tree, listed) = "none" THEN ForLanguage
  ELSE Detected(tree, listed)

(* findFile: the first file of that name, in the order of `git ls-files`.  *)
PackageJson(tree) ==
  IF Present(tree, "apps/web/package.json") THEN tree["apps/web/package.json"]
  ELSE tree["package.json"]

(* hasTestRunner.  A manifest is "plain" with no test script or the        *)
(* placeholder of npm, "script" with one that works, "ours" with that of   *)
(* the recipe and "deps" with no more than the runner as a dependency;     *)
(* other files are "marked" if they have a section for tests.              *)
hasTestRunner(tree) ==
  IF pack = "typescript"
  THEN \/ Present(tree, "vitest.config.ts")
       \/ tree["vite.config.ts"] = "marked"
       \/ PackageJson(tree) \in {"script", "ours", "deps"}
  ELSE \/ Present(tree, "pytest.ini") \/ Present(tree, "conftest.py")
       \/ tree["pyproject.toml"] = "marked"

(* isTestFile, of any file.  Mutant: the name of the setup test is not     *)
(* recognised.                                                             *)
HasTestsOfItsOwn(tree) == Present(tree, "own.test")
HasTests(tree) ==
  \/ Present(tree, "own.test") \/ Present(tree, "setup.test")
  \/ pack = "python" /\ Present(tree, "conftest.py")

detectTestSetup(tree) ==
  IF hasTestRunner(tree) THEN "none"
  ELSE IF HasTests(tree) THEN "runner-only" ELSE "full"

-----------------------------------------------------------------------------
(* handleProduceSpec.  Listing the root may fail, and then the language    *)
(* decides alone.                                                          *)
ProduceSpec ==
  /\ phase = "spec" /\ at = "start"
  /\ \E listed \in BOOLEAN :
       /\ IF listed THEN UNCHANGED disturbances ELSE Disturb
       /\ IF Resolved(TreeOf(main), listed) = "none"
          THEN phase' = "unsupported" /\ UNCHANGED <<at, pack, call>>
          ELSE /\ pack' = Resolved(TreeOf(main), listed)
               /\ at' = "commit"
               /\ CommitFile("spec", "spec.md", "ours")
               /\ UNCHANGED phase
  /\ UNCHANGED <<remote, language, found, consent, revisions, sandbox,
                 history>>

(* The call was answered: the handler's last writes end the phase.         *)
Answered == At("done") /\ call' = Idle /\ UNCHANGED <<remote, disturbances>>
EndPhase(next) == phase' = next /\ at' = "start"

SpecCommitted ==
  /\ phase = "spec" /\ at = "commit" /\ Answered
  /\ EndPhase("plan")
  /\ UNCHANGED <<decided, sandbox, history>>

-----------------------------------------------------------------------------
(* retrieveCodeContext clones the branch and looks for a runner, and finds *)
(* nothing amiss when it cannot; then the plan is made and committed.      *)
ProducePlan ==
  /\ phase = "plan" /\ at = "start"
  /\ \/ found' = detectTestSetup(TreeOf(branch)) /\ UNCHANGED disturbances
     \/ found' = "none" /\ Disturb
  /\ at' = "commit"
  /\ CommitFile("plan", "plan.md", IF revisions = 0 THEN "ours" ELSE "plain")
  /\ UNCHANGED <<remote, phase, language, pack, consent, revisions, sandbox,
                 history>>

(* The consent is saved and the plan presented.                            *)
PlanPresented ==
  /\ phase = "plan" /\ at = "commit" /\ Answered
  /\ consent' = found
  /\ EndPhase("gate")
  /\ UNCHANGED <<language, pack, found, revisions, sandbox, history>>

Approve ==
  /\ phase = "gate"
  /\ EndPhase("implement")
  /\ UNCHANGED <<gitVars, decided, sandbox, history>>

RequestChanges ==
  /\ phase = "gate"
  /\ revisions < MaxRevisions
  /\ revisions' = revisions + 1
  /\ EndPhase("plan")
  /\ UNCHANGED <<gitVars, language, pack, found, consent, sandbox,
                 history>>

-----------------------------------------------------------------------------
OpenSandbox ==
  /\ phase = "implement" /\ at = "start"
  /\ sandbox' = TreeOf(branch)
  /\ at' = IF consent = "none" THEN "tasks" ELSE "detect"
  /\ UNCHANGED <<gitVars, phase, decided, history>>

(* A restart finds the runner it has committed.  A list of files that      *)
(* cannot be had is empty, and nothing is found in it.                     *)
Detect ==
  /\ at = "detect"
  /\ LET verdict == detectTestSetup(sandbox) IN
       at' = IF verdict = "none" THEN "tasks" ELSE verdict
  /\ UNCHANGED <<gitVars, phase, decided, sandbox, history>>

DetectNothing ==
  /\ at = "detect"
  /\ Disturb
  /\ at' = "full" /\ blind' = TRUE
  /\ UNCHANGED <<remote, call, phase, decided, sandbox, proven, crashes>>

(* configFiles: the runner's configuration, with the test script merged    *)
(* into a manifest that can be parsed; and, if there are no tests, one.    *)
Mergeable == sandbox["package.json"] \notin {Absent, "broken"}
ConfigFiles ==
  IF pack = "python" THEN {"pytest.ini", "conftest.py"}
  ELSE {"vitest.config.ts"} \cup (IF Mergeable THEN {"package.json"} ELSE {})
Recipe == ConfigFiles \cup (IF at = "full" THEN {"setup.test"} ELSE {})

(* What the runner's installation writes.                                  *)
InstallArtifacts ==
  IF pack = "python" THEN {} ELSE {"package.json", "package-lock.json"}
Installed(tree) ==
  [p \in Path |->
     IF p \notin InstallArtifacts THEN tree[p]
     ELSE IF p = "package.json" /\ ~Present(tree, p) THEN "deps"
     ELSE IF tree[p] = "broken" THEN "broken" ELSE "ours"]

(* The paths that runBootstrap hands back, of which those that are there   *)
(* are committed.  Mutant: what was installed only.                        *)
ChangedByInstall == InstallArtifacts
ChangedPaths == Recipe \cup InstallArtifacts

(* npm runs no test without a manifest it can parse and a test script.     *)
CanPass(tree) ==
  pack = "typescript" => tree["package.json"] \in {"script", "ours"}

(* runBootstrap comes out green ...                                        *)
BootstrapGreen ==
  /\ at \in {"full", "runner-only"}
  /\ sandbox' = Installed(With(sandbox, [p \in Recipe |-> "ours"]))
  /\ CanPass(sandbox')
  /\ proven' = sandbox'
  /\ at' = "commitSetup"
  /\ CommitFiles("setup",
       [p \in {q \in ChangedPaths : Present(sandbox', q)} |-> sandbox'[p]])
  /\ UNCHANGED <<remote, disturbances, phase, decided, blind, crashes>>

(* ... or not, and the run stops.  Mutant: it carries on.                  *)
CarriesOn == at' = "tasks" /\ UNCHANGED phase
Stops == EndPhase("failed")

BootstrapNotGreen ==
  /\ at \in {"full", "runner-only"}
  /\ Stops
  /\ UNCHANGED <<gitVars, decided, sandbox, history>>

SetupCommitted ==
  /\ at = "commitSetup" /\ Answered
  /\ at' = "tasks"
  /\ UNCHANGED <<phase, decided, sandbox, history>>

(* One task stands for all: TaskTdd has the loop.                          *)
CommitTask ==
  /\ at = "tasks"
  /\ at' = "commit"
  /\ CommitFiles("task", [p \in {"feature"} |-> "ours"])
  /\ UNCHANGED <<remote, disturbances, phase, decided, sandbox, history>>

TasksCommitted ==
  /\ phase = "implement" /\ at = "commit" /\ Answered
  /\ EndPhase("review")
  /\ sandbox' = NoTree
  /\ UNCHANGED <<decided, history>>

-----------------------------------------------------------------------------
(* handleReview opens the pull request, and its body says what was         *)
(* consented to.                                                           *)
Review ==
  /\ phase = "review" /\ at = "start"
  /\ at' = "open"
  /\ OpenPullRequest(IF consent = "none" THEN "silent" ELSE "note")
  /\ UNCHANGED <<remote, disturbances, phase, decided, sandbox, history>>

PullRequestOpened ==
  /\ phase = "review" /\ at = "open" /\ Answered
  /\ EndPhase("parked")
  /\ UNCHANGED <<decided, sandbox, history>>

-----------------------------------------------------------------------------
(* A job ends before its time: a request was turned down, something threw, *)
(* or the process died.  It is attempted again from the start, but for the *)
(* plan, whose guard on the state lets no second attempt in.               *)
CutShort ==
  /\ phase \in Job /\ at # "start"
  /\ IF At("rejected") THEN UNCHANGED crashes
     ELSE crashes < MaxCrashes /\ crashes' = crashes + 1
  /\ EndPhase(IF phase = "plan" THEN "stranded" ELSE phase)
  /\ call' = Idle /\ sandbox' = NoTree
  /\ UNCHANGED <<remote, disturbances, decided, blind, proven>>

Handler ==
  \/ ProduceSpec \/ SpecCommitted \/ ProducePlan \/ PlanPresented
  \/ OpenSandbox \/ Detect \/ DetectNothing \/ BootstrapGreen
  \/ BootstrapNotGreen \/ SetupCommitted \/ CommitTask \/ TasksCommitted \/ Review
  \/ PullRequestOpened

Next ==
  \/ Handler \/ CutShort \/ Approve \/ RequestChanges
  \/ ClientStep /\ UNCHANGED setupVars
  \/ People /\ UNCHANGED setupVars

Spec == Init /\ [][Next]_vars

(* A handler goes on until it ends, and is attempted again if it must be.  *)
FairSpec ==
  Spec /\ WF_vars(Handler \/ CutShort \/ (ClientStep /\ UNCHANGED setupVars))

-----------------------------------------------------------------------------
TypeOK ==
  /\ GitTypeOK
  /\ phase \in Job \cup {"gate", "parked", "failed", "unsupported",
                          "stranded"}
  /\ at \in {"start", "commit", "detect", "full", "runner-only",
            "commitSetup", "tasks", "open"}
  /\ language \in Language
  /\ pack \in {"none", "typescript", "python"}
  /\ {found, consent} \subseteq {"none", "full", "runner-only"}
  /\ {sandbox, proven} \subseteq Tree
  /\ blind \in BOOLEAN
  /\ revisions \in 0 .. MaxRevisions /\ crashes \in 0 .. MaxCrashes

Pushed == \E i \in DOMAIN branch : i > 1 /\ branch[i].by = "people"
SetupCommits == {i \in DOMAIN branch : branch[i].by = "setup"}
SetupCommitLands == Cardinality(SetupCommits') > Cardinality(SetupCommits)

(* "A restart after the bootstrap commit already landed is a no-op": what  *)
(* the recipe commits is what hasTestRunner looks for.  While the files of *)
(* the sandbox can be listed, that is: if they cannot, nothing is found.   *)
SetupOnce == blind \/ Cardinality(SetupCommits) <= 1

(* "The bootstrap is verified before it is committed": the branch with the *)
(* setup commit is, file by file, the tree on which the suite was green.   *)
SetupProven == SetupCommitLands /\ ~Pushed => TreeOf(branch') = proven

(* "Existing test files are left untouched", the example test of an        *)
(* earlier setup included, while the files of the sandbox can be listed.   *)
OwnTestsUntouched ==
  SetupCommitLands /\ ~blind =>
    \A p \in {"own.test", "setup.test"} :
      Present(TreeOf(branch), p) => TreeOf(branch')[p] = TreeOf(branch)[p]

(* No setup commit does harm: it is both.                                  *)
SetupHarmless == [][SetupProven /\ OwnTestsUntouched]_vars

(* ... whatever happens.  The code does not keep these: see README.md.     *)
SetupOnceAlways == Cardinality(SetupCommits) <= 1
OwnTestsNeverTouched ==
  [][SetupCommitLands =>
       \A p \in {"own.test", "setup.test"} :
         Present(TreeOf(branch), p) => TreeOf(branch')[p] = TreeOf(branch)[p]]_vars

(* A pull request that the integrator opened announces a test setup        *)
(* exactly when one is on the branch, as long as nobody else pushes to it. *)
NoteTrue == pull \in Body /\ ~Pushed => (pull = "note" <=> SetupCommits # {})

(* ... and whoever pushes, or opened the pull request it reuses.  The code *)
(* does not keep these: see README.md.                                     *)
NoteTrueThoughPushed == pull \in Body => (pull = "note" <=> SetupCommits # {})
NoteTrueThoughReused ==
  phase = "parked" /\ pull # NoPull /\ ~Pushed =>
    (pull = "note" <=> SetupCommits # {})

(* "So the repo's own scripts survive": no test script that worked is      *)
(* replaced.  The code does not keep this: see README.md.                  *)
OwnScriptSurvives ==
  [][SetupCommitLands =>
       (TreeOf(branch)["package.json"] = "script" =>
        TreeOf(branch')["package.json"] = "script")]_vars

(* A handler that begins comes to an end, whatever is pushed, turned down  *)
(* or cut short on the way.                                                *)
JobsEnd == \A p \in Job : phase = p ~> phase # p
=============================================================================
