------------------------------ MODULE GitBranch -------------------------------
(***************************************************************************)
(* The working branch of one issue and its pull request, as GitHub keeps   *)
(* them, and the calls by which the integrator writes to them, one request *)
(* to GitHub per step (src/github/client.ts, src/github/integrator.ts).    *)
(* Maintainers may push to the branch, and open or close its pull request, *)
(* between any two requests.                                               *)
(*                                                                         *)
(* A reference is the list of its commits, oldest first, and the empty     *)
(* list if it does not exist; a commit is the tree it leaves behind and    *)
(* what it was made for.  Trees and commits that no reference leads to     *)
(* are not seen by anybody, and so making them is not a step.              *)
(***************************************************************************)
EXTENDS Naturals, SequencesExt

CONSTANTS
  Path,           \* the files that matter
  Text,           \* what a file may contain, Absent included
  HumanFiles,     \* bound: what maintainers may push, as <<path, text>>
  MaxDisturbances \* bound: how often people or the network interfere

Absent == "absent"

ASSUME FilesAssumption ==
  /\ Absent \in Text
  /\ HumanFiles \subseteq Path \X Text
ASSUME DisturbancesAssumption == MaxDisturbances \in Nat

VARIABLES
  main,        \* the head of the base branch
  branch,      \* the working branch
  pull,        \* its open pull request, by what the body says
  call,        \* the client's call under way
  rejected,    \* history: the requests GitHub has turned down, up to one
               \* more than the disturbances that may explain them
  disturbances \* how much has happened of what is bounded

remote == <<main, branch, pull, rejected>>
gitVars == <<remote, call, disturbances>>

Tree == [Path -> Text]
Purpose == {"people", "spec", "plan", "setup", "task"}
Commit == [by : Purpose, tree : Tree]
NoFiles == [p \in {} |-> Absent]
Idle == [op |-> "none", step |-> "idle", by |-> "people", files |-> NoFiles,
         head |-> <<>>, body |-> "silent"]

(* The body of a pull request of the integrator's: does it announce a test *)
(* setup?  There may be none open, or one that somebody else has opened.   *)
Body == {"silent", "note"}
NoPull == "none"

TreeOf(ref) == Last(ref).tree
With(tree, files) ==
  [p \in Path |-> IF p \in DOMAIN files THEN files[p] ELSE tree[p]]

GitInit ==
  /\ branch = <<>> /\ pull = NoPull /\ call = Idle
  /\ rejected = 0 /\ disturbances = 0

-----------------------------------------------------------------------------
(* The integrator begins a call; whoever began it takes its answer.        *)
CommitFile(by, path, text) ==
  call' = [op |-> "commitFile", step |-> "ensure", by |-> by,
           files |-> [p \in {path} |-> text], head |-> <<>>,
           body |-> "silent"]
CommitFiles(by, files) ==
  call' = [op |-> "commitFiles", step |-> "ensure", by |-> by,
           files |-> files, head |-> <<>>, body |-> "silent"]
OpenPullRequest(body) ==
  call' = [Idle EXCEPT !.op = "openPullRequest", !.step = "list",
                       !.body = body]

Committing == call.op \in {"commitFile", "commitFiles"}
At(step) == call.step = step
Goto(step) == call' = [call EXCEPT !.step = step]
Reject ==
  /\ Goto("rejected")
  /\ rejected' = IF rejected > disturbances THEN rejected ELSE rejected + 1
Disturb ==
  /\ disturbances < MaxDisturbances
  /\ disturbances' = disturbances + 1

(* getRef: is there a branch?                                              *)
BranchFound ==
  /\ At("ensure")
  /\ branch # <<>>
  /\ Goto("read")
  /\ UNCHANGED <<remote, disturbances>>

(* Any error is taken for a missing branch, which is forked from main.     *)
ForkFrom ==
  /\ At("ensure")
  /\ IF branch = <<>> THEN UNCHANGED disturbances ELSE Disturb
  /\ call' = [call EXCEPT !.step = "fork", !.head = main]
  /\ UNCHANGED remote

CreateRef ==
  /\ At("fork")
  /\ IF branch = <<>>
     THEN branch' = call.head /\ Goto("read") /\ UNCHANGED rejected
     ELSE Reject /\ UNCHANGED branch
  /\ UNCHANGED <<main, pull, disturbances>>

(* getRef, and getCommit for its tree; or getContent for the blob of the   *)
(* one file.                                                               *)
ReadHead ==
  /\ At("read")
  /\ call' = [call EXCEPT !.step = "write", !.head = branch]
  /\ UNCHANGED <<remote, disturbances>>

(* Any error of getContent is taken for a file that is not there.          *)
BlobNotRead ==
  /\ At("read") /\ call.op = "commitFile"
  /\ Disturb
  /\ call' = [call EXCEPT !.step = "write", !.head = <<>>]
  /\ UNCHANGED remote

(* What commitFiles commits.  Mutant: over the tree of the base branch.    *)
BuiltOnMain ==
  Append(call.head,
         [by |-> call.by, tree |-> With(TreeOf(main), call.files)])
Built ==
  Append(call.head,
         [by |-> call.by, tree |-> With(TreeOf(call.head), call.files)])

(* updateRef, which is not forced.                                         *)
FastForward == IsPrefix(branch, Built)

UpdateRef ==
  /\ At("write") /\ call.op = "commitFiles"
  /\ IF FastForward
     THEN branch' = Built /\ Goto("done") /\ UNCHANGED rejected
     ELSE Reject /\ UNCHANGED branch
  /\ UNCHANGED <<main, pull, disturbances>>

(* createOrUpdateFileContents replaces the very blob it is told of.        *)
(* Mutant: it is told of none.                                             *)
NoBlob(path) == Absent
Blob(path) == IF call.head = <<>> THEN Absent ELSE TreeOf(call.head)[path]

CreateOrUpdateFile ==
  /\ At("write") /\ call.op = "commitFile"
  /\ IF \A p \in DOMAIN call.files : TreeOf(branch)[p] = Blob(p)
     THEN /\ branch' = Append(branch, [by |-> call.by,
                               tree |-> With(TreeOf(branch), call.files)])
          /\ Goto("done")
          /\ UNCHANGED rejected
     ELSE Reject /\ UNCHANGED branch
  /\ UNCHANGED <<main, pull, disturbances>>

(* An open pull request is reused, whoever opened it, with the body it     *)
(* has.  Mutant: it is not looked for.                                     *)
FoundNever == FALSE
Found == pull # NoPull

ListPulls ==
  /\ At("list")
  /\ Goto(IF Found THEN "done" ELSE "create")
  /\ UNCHANGED <<remote, disturbances>>

(* GitHub allows one open pull request per branch.                         *)
CreatePull ==
  /\ At("create")
  /\ IF pull = NoPull
     THEN pull' = call.body /\ Goto("done") /\ UNCHANGED rejected
     ELSE Reject /\ UNCHANGED pull
  /\ UNCHANGED <<main, branch, disturbances>>

ClientStep ==
  \/ BranchFound \/ ForkFrom \/ CreateRef \/ ReadHead \/ BlobNotRead
  \/ UpdateRef \/ CreateOrUpdateFile \/ ListPulls \/ CreatePull

-----------------------------------------------------------------------------
(* Maintainers.                                                            *)
Push ==
  /\ branch # <<>>
  /\ Disturb
  /\ \E f \in HumanFiles :
       /\ TreeOf(branch)[f[1]] # f[2]
       /\ branch' = Append(branch, [by |-> "people",
            tree |-> With(TreeOf(branch), [p \in {f[1]} |-> f[2]])])
  /\ UNCHANGED <<main, pull, call, rejected>>

(* One that they open again is theirs.                                     *)
OpenOrClosePull ==
  /\ branch # <<>>
  /\ Disturb
  /\ pull' = IF pull = NoPull THEN "people" ELSE NoPull
  /\ UNCHANGED <<main, branch, call, rejected>>

People == Push \/ OpenOrClosePull

-----------------------------------------------------------------------------
Op == {"none", "commitFile", "commitFiles", "openPullRequest"}
Step == {"idle", "ensure", "fork", "read", "write", "list", "create", "done",
         "rejected"}
GitTypeOK ==
  /\ main \in Seq(Commit) /\ branch \in Seq(Commit)
  /\ pull \in {NoPull, "people"} \cup Body
  /\ call \in [op : Op, step : Step, by : Purpose, files : {call.files},
               head : Seq(Commit), body : Body]
  /\ DOMAIN call.files \subseteq Path
  /\ \A p \in DOMAIN call.files : call.files[p] \in Text
  /\ disturbances \in 0 .. MaxDisturbances /\ rejected \in Nat

(* The branch is only ever added to: no commit is lost, whoever made it,   *)
(* although the client reads the head and moves the branch by separate     *)
(* requests (client.ts:262-286).                                           *)
HistoryKept == IsPrefix(branch, branch')

(* A commit changes the files it was made for and leaves everybody else's  *)
(* work on the others alone ("one commit over the branch head").           *)
OnlyNamedFilesChange ==
  branch # <<>> /\ Last(branch').by # "people" =>
    \A p \in Path \ DOMAIN call.files :
      TreeOf(branch')[p] = TreeOf(branch)[p]

(* Other people's work is kept: both.                                      *)
WorkKept == [][HistoryKept /\ OnlyNamedFilesChange]_branch

(* A call is safe to repeat after it was cut short anywhere: GitHub turns  *)
(* down no more requests than people and the network have interfered with. *)
RetriesAccepted == rejected <= disturbances
=============================================================================
