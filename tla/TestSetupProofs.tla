---------------------------- MODULE TestSetupProofs ----------------------------
(***************************************************************************)
(* What holds of the working branch, its pull request and the test setup   *)
(* on it for repositories and pushes of every kind, and however often      *)
(* people and the network interfere and jobs are cut short.                *)
(***************************************************************************)
EXTENDS TestSetup, SequenceTheorems, FiniteSetTheorems, TLAPS

-----------------------------------------------------------------------------
(* Prefixes, by their elements.                                            *)
LEMMA PrefixByElement ==
  ASSUME NEW S, NEW s \in Seq(S), NEW t \in Seq(S)
  PROVE  IsPrefix(s, t) <=>
           Len(s) <= Len(t) /\ \A i \in 1 .. Len(s) : s[i] = t[i]
<1>1. Len(s) \in Nat /\ Len(t) \in Nat
  OBVIOUS
<1>2. CASE Len(s) <= Len(t)
  <2> DEFINE a == SubSeq(s, 1, Len(s))
             b == SubSeq(t, 1, Len(s))
  <2>1. /\ a \in Seq(S) /\ Len(a) = Len(s)
        /\ \A i \in 1 .. Len(s) : a[i] = s[i]
    BY <1>1, SubSeqProperties
  <2>2. /\ b \in Seq(S) /\ Len(b) = Len(s)
        /\ \A i \in 1 .. Len(s) : b[i] = t[i]
    BY <1>1, <1>2, SubSeqProperties
  <2>3. a = b <=> \A i \in 1 .. Len(s) : s[i] = t[i]
    <3> HIDE DEF a, b
    <3>1. ASSUME \A i \in 1 .. Len(s) : s[i] = t[i] PROVE a = b
      BY <2>1, <2>2, <3>1, SeqEqual
    <3> QED BY <2>1, <2>2, <3>1
  <2> QED BY <1>2, <2>3 DEF IsPrefix
<1> QED BY <1>2 DEF IsPrefix

LEMMA Appended ==
  ASSUME NEW S, NEW s \in Seq(S), NEW e \in S
  PROVE  /\ Append(s, e) \in Seq(S) /\ Append(s, e) # <<>>
         /\ Len(Append(s, e)) = Len(s) + 1 /\ Len(s) \in Nat
         /\ \A i \in 1 .. Len(s) : Append(s, e)[i] = s[i]
         /\ Append(s, e)[Len(s) + 1] = e /\ Last(Append(s, e)) = e
         /\ IsPrefix(s, Append(s, e))
<1>1. /\ Append(s, e) \in Seq(S) /\ Append(s, e) # <<>>
      /\ Len(Append(s, e)) = Len(s) + 1 /\ Len(s) \in Nat
      /\ \A i \in 1 .. Len(s) : Append(s, e)[i] = s[i]
      /\ Append(s, e)[Len(s) + 1] = e
  BY AppendProperties
<1>2. Last(Append(s, e)) = e
  BY <1>1 DEF Last
<1>3. IsPrefix(s, Append(s, e))
  <2>1. Len(s) <= Len(Append(s, e))
        /\ \A i \in 1 .. Len(s) : s[i] = Append(s, e)[i]
    BY <1>1
  <2> QED BY <1>1, <2>1, PrefixByElement
<1> QED BY <1>1, <1>2, <1>3

LEMMA PrefixGrows ==
  ASSUME NEW S, NEW s \in Seq(S), NEW t \in Seq(S), NEW e \in S,
         IsPrefix(s, t)
  PROVE  IsPrefix(s, Append(t, e))
<1>1. /\ Append(t, e) \in Seq(S) /\ Len(Append(t, e)) = Len(t) + 1
      /\ \A i \in 1 .. Len(t) : Append(t, e)[i] = t[i]
      /\ Len(s) \in Nat /\ Len(t) \in Nat
  BY Appended
<1>2. Len(s) <= Len(t) /\ \A i \in 1 .. Len(s) : s[i] = t[i]
  BY PrefixByElement
<1>3. Len(s) <= Len(Append(t, e))
      /\ \A i \in 1 .. Len(s) : s[i] = Append(t, e)[i]
  BY <1>1, <1>2
<1> QED BY <1>1, <1>3, PrefixByElement

(* There is nothing between a sequence and itself with one element more.   *)
LEMMA PrefixBetween ==
  ASSUME NEW S, NEW s \in Seq(S), NEW t \in Seq(S), NEW e \in S,
         IsPrefix(s, t), IsPrefix(t, Append(s, e))
  PROVE  t = s \/ t = Append(s, e)
<1> DEFINE u == Append(s, e)
<1>1. /\ u \in Seq(S) /\ Len(u) = Len(s) + 1
      /\ Len(s) \in Nat /\ Len(t) \in Nat
  BY Appended
<1>2. Len(s) <= Len(t) /\ \A i \in 1 .. Len(s) : s[i] = t[i]
  BY PrefixByElement
<1>0. IsPrefix(t, u)
  OBVIOUS
<1> HIDE DEF u
<1>3. Len(t) <= Len(u) /\ \A i \in 1 .. Len(t) : t[i] = u[i]
  BY <1>1, <1>0, PrefixByElement
<1>4. CASE Len(t) = Len(s)
  BY <1>1, <1>2, <1>4, SeqEqual
<1>5. CASE Len(t) = Len(u)
  <2>1. t \in Seq(S) /\ u \in Seq(S)
    BY <1>1
  <2>2. \A i \in 1 .. Len(t) : t[i] = u[i]
    BY <1>3
  <2>3. Len(t) = Len(u)
    BY <1>5
  <2>4. t = u
    BY <2>1, <2>2, <2>3, SeqEqual
  <2> QED BY <2>4 DEF u
<1> QED BY <1>1, <1>2, <1>3, <1>4, <1>5 DEF u

-----------------------------------------------------------------------------
(* A request that GitHub may turn down now: somebody has interfered since  *)
(* the client looked.                                                      *)
Disputed ==
  \/ At("fork") /\ branch # <<>>
  \/ At("write") /\ branch # call.head
  \/ At("create") /\ pull # NoPull
Explained == rejected + (IF Disputed THEN 1 ELSE 0) <= disturbances

Forked == Len(main) = 1 /\ main[1].by = "people"
HeadKnown ==
  /\ At("fork") => call.head = main
  /\ At("read") => branch # <<>>
  /\ At("write") => branch # <<>> /\ IsPrefix(call.head, branch)
  /\ At("write") /\ call.op = "commitFiles" => call.head # <<>>
  /\ At("list") \/ At("create") => call.op = "openPullRequest"
Begun == branch = <<>> \/ branch[1].by = "people"

GitInv == GitTypeOK /\ Forked /\ Begun /\ HeadKnown /\ Explained


-----------------------------------------------------------------------------
LEMMA WithTyped ==
  ASSUME NEW tree \in Tree, NEW files, DOMAIN files \subseteq Path,
         \A p \in DOMAIN files : files[p] \in Text
  PROVE  /\ With(tree, files) \in Tree
         /\ \A p \in Path : With(tree, files)[p] =
              IF p \in DOMAIN files THEN files[p] ELSE tree[p]
BY DEF With, Tree

LEMMA TreeTyped ==
  ASSUME NEW ref \in Seq(Commit), ref # <<>>
  PROVE  TreeOf(ref) \in Tree /\ Last(ref) \in Commit /\ Len(ref) \in Nat \ {0}
<1>1. Len(ref) \in Nat \ {0}
  BY EmptySeq
<1>2. ref[Len(ref)] \in Commit
  BY <1>1, ElementOfSeq
<1> QED BY <1>1, <1>2 DEF TreeOf, Last, Commit

LEMMA CommitTyped ==
  ASSUME GitTypeOK, NEW by \in Purpose, NEW ref \in Seq(Commit), ref # <<>>,
         NEW files, DOMAIN files \subseteq Path,
         \A p \in DOMAIN files : files[p] \in Text
  PROVE  [by |-> by, tree |-> With(TreeOf(ref), files)] \in Commit
BY TreeTyped, WithTyped DEF Commit

(* There is a head to write over, and commitFiles knows of one.            *)
LEMMA HeadThere ==
  ASSUME GitInv, At("write")
  PROVE  /\ call.head \in Seq(Commit) /\ branch # <<>>
         /\ call.op = "commitFiles" => call.head # <<>>
BY DEF GitInv, GitTypeOK, HeadKnown

(* A handler leaves the remote alone, and at most begins a call or gives   *)
(* one up.                                                                 *)
Begins ==
  /\ call' \in [op : Op, step : {"idle", "ensure", "list"}, by : Purpose,
                files : {call'.files}, head : {<<>>}, body : Body]
  /\ DOMAIN call'.files \subseteq Path
  /\ \A p \in DOMAIN call'.files : call'.files[p] \in Text
  /\ call'.step = "list" => call'.op = "openPullRequest"

LEMMA BeginStep ==
  ASSUME GitInv, UNCHANGED remote, call' = call \/ Begins,
         \/ disturbances' = disturbances
         \/ Disturb
  PROVE  GitInv'
<1> USE DEF GitInv
<1>1. /\ disturbances \in Nat /\ disturbances' \in 0 .. MaxDisturbances
      /\ disturbances' \in {disturbances, disturbances + 1}
  BY DisturbancesAssumption DEF GitTypeOK, Disturb
<1>2. /\ main' = main /\ branch' = branch /\ pull' = pull
      /\ rejected' = rejected
  BY DEF remote
<1>3. CASE call' = call
  <2>1. GitTypeOK'
    BY <1>1, <1>2, <1>3 DEF GitTypeOK
  <2>2. Forked' /\ Begun' /\ HeadKnown'
    BY <1>2, <1>3 DEF Forked, Begun, HeadKnown, At
  <2>3. Explained'
    BY <1>1, <1>2, <1>3 DEF Explained, Disputed, At, GitTypeOK
  <2> QED BY <2>1, <2>2, <2>3
<1>4. CASE call' # call
  <2> USE DEF Begins
  <2>1. call'.step \in {"idle", "ensure", "list"}
    BY <1>4
  <2>2. GitTypeOK'
    <3>1. <<>> \in Seq(Commit)
      BY EmptySeq
    <3>2. call' \in [op : Op, step : Step, by : Purpose,
                     files : {call'.files}, head : Seq(Commit),
                     body : Body]
      BY <1>4, <3>1 DEF Step
    <3> QED BY <1>1, <1>2, <1>4, <3>2 DEF GitTypeOK
  <2>3. Forked' /\ Begun' /\ HeadKnown'
    BY <1>2, <1>4, <2>1 DEF Forked, Begun, HeadKnown, At
  <2>4. Explained'
    BY <1>1, <1>2, <2>1 DEF Explained, Disputed, At, GitTypeOK
  <2> QED BY <2>2, <2>3, <2>4
<1> QED BY <1>3, <1>4

(* What a request makes of the branch: nothing, a fork of the base branch, *)
(* or the commit that was asked for, over the head as it is now.           *)
Built1 == [by |-> call.by, tree |-> With(TreeOf(branch), call.files)]
Forks == branch = <<>> /\ branch' = main
Lands ==
  /\ branch # <<>> /\ Committing
  /\ branch' = Append(branch, Built1) /\ Built1 \in Commit
  /\ call'.step = "done"
Repeats ==
  branch # <<>> /\ branch' = branch /\ Last(branch).by = call.by
Answers ==
  /\ call' = [op |-> call.op, step |-> call'.step, by |-> call.by,
              files |-> call.files, head |-> call'.head, body |-> call.body]
  /\ call'.step \in Step \ {"idle"} /\ call'.head \in Seq(Commit)
  /\ call.step \notin {"idle", "done", "rejected"}

LEMMA ClientEffect ==
  ASSUME GitInv, ClientStep
  PROVE  /\ Answers
         /\ branch' = branch \/ Forks \/ Lands
         /\ Committing /\ call'.step = "done" => Lands \/ Repeats
<1> USE DEF GitInv
<1>1. /\ branch \in Seq(Commit) /\ main \in Seq(Commit)
      /\ call \in [op : Op, step : Step, by : Purpose, files : {call.files},
                   head : Seq(Commit), body : Body]
  BY DEF GitTypeOK
<1>2. ASSUME NEW step, call' = [call EXCEPT !.step = step],
             step \in Step \ {"idle"},
             call.step \notin {"idle", "done", "rejected"}
      PROVE  Answers /\ call'.step = step
  BY <1>1, <1>2 DEF Answers
<1>3. ASSUME NEW step, NEW head \in Seq(Commit),
             call' = [call EXCEPT !.step = step, !.head = head],
             step \in Step \ {"idle"},
             call.step \notin {"idle", "done", "rejected"}
      PROVE  Answers /\ call'.step = step
  BY <1>1, <1>3 DEF Answers
<1>4. CASE BranchFound
  BY <1>2, <1>4 DEF BranchFound, Goto, At, remote, Step
<1>5. CASE ForkFrom
  BY <1>1, <1>3, <1>5 DEF ForkFrom, At, remote, Step
<1>6. CASE CreateRef
  <2>1. Answers /\ call'.step \in {"read", "rejected"}
    BY <1>2, <1>6 DEF CreateRef, Reject, Goto, At, Step
  <2> QED BY <1>6, <2>1 DEF CreateRef, Forks, HeadKnown, At
<1>7. CASE ReadHead
  BY <1>1, <1>3, <1>7 DEF ReadHead, At, remote, Step
<1>12. CASE BlobNotRead
  BY <1>1, <1>3, <1>12, EmptySeq DEF BlobNotRead, At, remote, Step
<1>8. CASE UpdateRef
  <2>1. Answers /\ call'.step \in {"done", "rejected"}
        /\ (call'.step = "done" => FastForward /\ branch' = Built)
        /\ (call'.step # "done" => branch' = branch)
    BY <1>2, <1>8 DEF UpdateRef, Reject, Goto, At, Step
  <2>2. CASE call'.step = "done"
    <3> DEFINE e == [by |-> call.by, tree |-> With(TreeOf(call.head), call.files)]
    <3>1. /\ call.head \in Seq(Commit) /\ call.head # <<>> /\ branch # <<>>
          /\ IsPrefix(call.head, branch)
      BY <1>8, HeadThere DEF UpdateRef, HeadKnown
    <3>2. e \in Commit
      BY <1>1, <3>1, CommitTyped DEF GitTypeOK
    <3>3. Built = Append(call.head, e) /\ IsPrefix(branch, Built)
      BY <2>1, <2>2 DEF Built, FastForward
    <3>4. branch = call.head \/ branch = Built
      BY <1>1, <3>1, <3>2, <3>3, PrefixBetween
    <3>5. Committing
      BY <1>8 DEF UpdateRef, Committing
    <3>6. CASE branch = call.head
      <4>1. e = Built1 /\ branch' = Append(branch, e)
        BY <2>1, <2>2, <3>3, <3>6 DEF Built1
      <4>2. Lands
        BY <2>2, <3>1, <3>2, <3>5, <4>1 DEF Lands
      <4> QED BY <2>1, <4>2
    <3>7. CASE branch = Built
      <4>1. Last(Built) = e
        BY <3>1, <3>2, <3>3, Appended
      <4>2. Repeats
        BY <2>1, <2>2, <3>1, <3>7, <4>1 DEF Repeats
      <4>3. branch' = branch
        BY <2>1, <2>2, <3>7
      <4> QED BY <2>1, <4>2, <4>3
    <3> QED BY <3>4, <3>6, <3>7
  <2>3. CASE call'.step # "done"
    BY <2>1, <2>3
  <2> QED BY <2>2, <2>3
<1>9. CASE CreateOrUpdateFile
  <2>1. Answers /\ call'.step \in {"done", "rejected"}
        /\ (call'.step = "done" => branch' = Append(branch, Built1))
        /\ (call'.step # "done" => branch' = branch)
    BY <1>2, <1>9 DEF CreateOrUpdateFile, Reject, Goto, At, Step, Built1
  <2>2. branch # <<>> /\ Committing
    BY <1>9, HeadThere DEF CreateOrUpdateFile, Committing
  <2>3. Built1 \in Commit
    BY <1>1, <2>2, CommitTyped DEF Built1, GitTypeOK
  <2> QED BY <2>1, <2>2, <2>3 DEF Lands
<1>10. CASE ListPulls
  <2>1. Answers
    BY <1>2, <1>10 DEF ListPulls, Goto, At, Step
  <2>2. branch' = branch
    BY <1>10 DEF ListPulls, remote
  <2>3. ~Committing
    BY <1>10 DEF ListPulls, HeadKnown, At, Committing
  <2> QED BY <2>1, <2>2, <2>3
<1>11. CASE CreatePull
  <2>1. Answers
    BY <1>2, <1>11 DEF CreatePull, Reject, Goto, At, Step
  <2>2. branch' = branch /\ ~Committing
    BY <1>11 DEF CreatePull, HeadKnown, At, Committing
  <2> QED BY <2>1, <2>2
<1> QED BY <1>4, <1>5, <1>6, <1>7, <1>8, <1>9, <1>10, <1>11, <1>12
        DEF ClientStep

(* What it makes of the pull request: nothing, or one of the integrator's. *)
LEMMA PullEffect ==
  ASSUME GitInv, ClientStep
  PROVE  pull' = pull \/ (~Committing /\ pull' = call.body)
BY DEF GitInv, HeadKnown, ClientStep, BranchFound, ForkFrom, CreateRef,
       ReadHead, BlobNotRead, UpdateRef, CreateOrUpdateFile, ListPulls,
       CreatePull, remote, At, Committing

LEMMA CommitLands ==
  ASSUME GitInv, Lands
  PROVE  /\ branch' \in Seq(Commit) /\ branch' # <<>>
         /\ Len(branch') = Len(branch) + 1 /\ Len(branch) \in Nat \ {0}
         /\ \A i \in 1 .. Len(branch) : branch'[i] = branch[i]
         /\ branch'[Len(branch')] = Built1 /\ TreeOf(branch') = Built1.tree
         /\ IsPrefix(branch, branch')
<1>1. branch \in Seq(Commit) /\ branch # <<>>
  BY DEF GitInv, GitTypeOK, Lands
<1>2. branch' = Append(branch, Built1) /\ Built1 \in Commit
  BY DEF Lands
<1>3. Len(branch) \in Nat \ {0}
  BY <1>1, EmptySeq
<1> QED BY <1>1, <1>2, <1>3, Appended DEF TreeOf

(* The same for a push.                                                    *)
PushedOn(f) ==
  [by |-> "people", tree |-> With(TreeOf(branch), [p \in {f[1]} |-> f[2]])]
LEMMA PushEffect ==
  ASSUME GitInv, Push
  PROVE  \E f \in HumanFiles :
           /\ f[1] \in Path /\ f[2] \in Text /\ branch # <<>>
           /\ branch' \in Seq(Commit) /\ branch' # <<>>
           /\ Len(branch') = Len(branch) + 1 /\ Len(branch) \in Nat \ {0}
           /\ \A i \in 1 .. Len(branch) : branch'[i] = branch[i]
           /\ branch'[Len(branch')] = PushedOn(f)
           /\ TreeOf(branch') = PushedOn(f).tree
           /\ PushedOn(f).tree \in Tree
           /\ \A p \in Path : PushedOn(f).tree[p] =
                IF p = f[1] THEN f[2] ELSE TreeOf(branch)[p]
           /\ branch' # branch
           /\ \A s \in Seq(Commit) : IsPrefix(s, branch) => IsPrefix(s, branch')
<1>1. PICK f \in HumanFiles : branch' = Append(branch, PushedOn(f))
  BY DEF Push, PushedOn
<1>2. branch \in Seq(Commit) /\ branch # <<>>
  BY DEF Push, GitInv, GitTypeOK
<1>3. f[1] \in Path /\ f[2] \in Text
  BY FilesAssumption
<1> DEFINE files == [p \in {f[1]} |-> f[2]]
<1>4. DOMAIN files \subseteq Path /\ \A p \in DOMAIN files : files[p] \in Text
  BY <1>3
<1>5. /\ With(TreeOf(branch), files) \in Tree
      /\ \A p \in Path : With(TreeOf(branch), files)[p] =
           IF p \in DOMAIN files THEN files[p] ELSE TreeOf(branch)[p]
  BY <1>2, <1>4, TreeTyped, WithTyped
<1>6. PushedOn(f) \in Commit /\ PushedOn(f).tree = With(TreeOf(branch), files)
  BY <1>5 DEF PushedOn, Commit, Purpose
<1>7. Len(branch) \in Nat \ {0}
  BY <1>2, EmptySeq
<1>8. /\ branch' \in Seq(Commit) /\ branch' # <<>>
      /\ Len(branch') = Len(branch) + 1
      /\ \A i \in 1 .. Len(branch) : branch'[i] = branch[i]
      /\ branch'[Len(branch')] = PushedOn(f)
      /\ TreeOf(branch') = PushedOn(f).tree
  BY <1>1, <1>2, <1>6, Appended DEF TreeOf
<1>9. branch' # branch
  BY <1>7, <1>8
<1>10. \A s \in Seq(Commit) : IsPrefix(s, branch) => IsPrefix(s, branch')
  BY <1>1, <1>2, <1>6, PrefixGrows
<1> QED BY <1>2, <1>3, <1>5, <1>6, <1>7, <1>8, <1>9, <1>10

LEMMA PushStep ==
  ASSUME GitInv, Push
  PROVE  GitInv'
<1> USE DEF GitInv
<1>1. PICK f \in HumanFiles :
        /\ branch' \in Seq(Commit) /\ branch # <<>> /\ branch' # <<>>
        /\ Len(branch) \in Nat \ {0}
        /\ \A i \in 1 .. Len(branch) : branch'[i] = branch[i]
        /\ \A s \in Seq(Commit) : IsPrefix(s, branch) => IsPrefix(s, branch')
  BY PushEffect
<1>2. /\ UNCHANGED <<main, pull, call, rejected>>
      /\ disturbances < MaxDisturbances /\ disturbances' = disturbances + 1
      /\ disturbances \in Nat /\ rejected \in Nat
  BY DEF Push, Disturb, GitTypeOK
<1>3. GitTypeOK'
  BY <1>1, <1>2, DisturbancesAssumption DEF GitTypeOK
<1>4. Forked' /\ Begun' /\ HeadKnown'
  <2>1. branch'[1] = branch[1]
    BY <1>1
  <2>2. call.head \in Seq(Commit)
    BY DEF GitTypeOK
  <2> QED BY <1>1, <1>2, <2>1, <2>2 DEF Forked, Begun, HeadKnown, At
<1>5. rejected <= disturbances
  BY <1>2 DEF Explained
<1>6. Explained'
  BY <1>2, <1>5 DEF Explained
<1> QED BY <1>3, <1>4, <1>6

LEMMA PullStep ==
  ASSUME GitInv, OpenOrClosePull
  PROVE  GitInv'
<1> USE DEF GitInv
<1>1. /\ UNCHANGED <<main, branch, call, rejected>>
      /\ pull' \in {NoPull, "people"}
      /\ disturbances < MaxDisturbances /\ disturbances' = disturbances + 1
      /\ disturbances \in Nat /\ rejected \in Nat
  BY DEF OpenOrClosePull, Disturb, GitTypeOK
<1>2. GitTypeOK'
  BY <1>1, DisturbancesAssumption DEF GitTypeOK
<1>3. Forked' /\ Begun' /\ HeadKnown'
  BY <1>1 DEF Forked, Begun, HeadKnown, At
<1>4. rejected <= disturbances
  BY <1>1 DEF Explained
<1>5. Explained'
  BY <1>1, <1>4 DEF Explained
<1> QED BY <1>2, <1>3, <1>5

(* A request is only turned down if somebody has interfered.               *)
LEMMA RejectExplained ==
  ASSUME GitInv, Reject, Disputed, UNCHANGED <<branch, pull, disturbances>>
  PROVE  Explained' /\ rejected' \in Nat /\ call'.step = "rejected"
<1>1. call'.step = "rejected"
  BY DEF Reject, Goto, GitInv, GitTypeOK
<1>2. rejected \in Nat /\ disturbances \in Nat /\ rejected + 1 <= disturbances
  BY DEF GitInv, GitTypeOK, Explained
<1>3. rejected' = rejected + 1
  BY <1>2 DEF Reject
<1>4. ~Disputed'
  BY <1>1 DEF Disputed, At
<1> QED BY <1>1, <1>2, <1>3, <1>4 DEF Explained

LEMMA ClientGitStep ==
  ASSUME GitInv, ClientStep
  PROVE  GitInv'
<1> USE DEF GitInv
<1>1. /\ Answers
      /\ branch' = branch \/ Forks \/ Lands
      /\ Committing /\ call'.step = "done" => Lands \/ Repeats
  BY ClientEffect
<1>2. main' = main /\ pull' \in {NoPull, "people"} \cup Body
  BY DEF ClientStep, BranchFound, ForkFrom, CreateRef, ReadHead, BlobNotRead,
         UpdateRef, CreateOrUpdateFile, ListPulls, CreatePull, remote, GitTypeOK
<1>3. /\ rejected \in Nat /\ disturbances \in Nat /\ rejected <= disturbances
      /\ disturbances <= MaxDisturbances
  BY DEF Explained, GitTypeOK
<1>4. /\ branch' \in Seq(Commit)
      /\ branch # <<>> => branch' # <<>> /\ branch'[1] = branch[1]
      /\ branch = <<>> => branch' \in {branch, main}
  <2>1. CASE branch' = branch
    BY <2>1 DEF GitTypeOK
  <2>2. CASE Forks
    BY <2>2 DEF GitTypeOK, Forks
  <2>3. CASE Lands
    BY <2>3, CommitLands DEF Lands
  <2> QED BY <1>1, <2>1, <2>2, <2>3
<1>5. Forked' /\ Begun'
  BY <1>2, <1>4 DEF Forked, Begun
<1>6. main # <<>>
  BY DEF Forked
<1>7. /\ call' \in [op : Op, step : Step, by : Purpose, files : {call'.files},
                    head : Seq(Commit), body : Body]
      /\ call'.files = call.files /\ call'.op = call.op
  BY <1>1 DEF Answers, GitTypeOK
<1> DEFINE Known == HeadKnown' /\ Explained' /\ rejected' \in Nat
                    /\ disturbances' \in {disturbances, disturbances + 1}
                    /\ disturbances' <= MaxDisturbances
<1>8. ASSUME BranchFound PROVE Known
  <2>1. call'.step = "read" /\ branch' = branch /\ branch # <<>>
        /\ rejected' = rejected /\ disturbances' = disturbances
    BY <1>8 DEF BranchFound, Goto, remote, GitTypeOK
  <2> QED BY <1>3, <2>1 DEF HeadKnown, Explained, Disputed, At
<1>9. ASSUME ForkFrom PROVE Known
  <2>1. call'.step = "fork" /\ call'.head = main /\ branch' = branch
        /\ rejected' = rejected
        /\ IF branch = <<>> THEN disturbances' = disturbances
           ELSE /\ disturbances' = disturbances + 1
                /\ disturbances < MaxDisturbances
    BY <1>9 DEF ForkFrom, remote, Disturb, GitTypeOK
  <2> QED BY <1>2, <1>3, <2>1, DisturbancesAssumption
          DEF HeadKnown, Explained, Disputed, At
<1>10. ASSUME CreateRef PROVE Known
  <2>1. disturbances' = disturbances /\ pull' = pull
    BY <1>10 DEF CreateRef
  <2>2. CASE branch = <<>>
    <3>1. call'.step = "read" /\ branch' = main /\ rejected' = rejected
      BY <1>10, <2>2 DEF CreateRef, Goto, GitTypeOK, HeadKnown, At
    <3> QED BY <1>3, <1>6, <2>1, <3>1 DEF HeadKnown, Explained, Disputed, At
  <2>3. CASE branch # <<>>
    <3>1. Reject /\ branch' = branch /\ Disputed
      BY <1>10, <2>3 DEF CreateRef, Disputed
    <3>2. Explained' /\ rejected' \in Nat /\ call'.step = "rejected"
      BY <2>1, <3>1, RejectExplained
    <3> QED BY <1>3, <2>1, <3>2 DEF HeadKnown, At
  <2> QED BY <2>2, <2>3
<1>11. ASSUME ReadHead PROVE Known
  <2>1. call'.step = "write" /\ call'.head = branch /\ branch' = branch
        /\ rejected' = rejected /\ disturbances' = disturbances
        /\ branch # <<>>
    BY <1>11 DEF ReadHead, remote, GitTypeOK, HeadKnown, At
  <2>2. IsPrefix(branch, branch)
    BY PrefixByElement DEF GitTypeOK
  <2> QED BY <1>3, <2>1, <2>2 DEF HeadKnown, Explained, Disputed, At
<1>18. ASSUME BlobNotRead PROVE Known
  <2>1. call'.step = "write" /\ call'.head = <<>> /\ branch' = branch
        /\ call'.op = "commitFile" /\ rejected' = rejected
        /\ disturbances' = disturbances + 1
        /\ disturbances < MaxDisturbances /\ branch # <<>>
    BY <1>18 DEF BlobNotRead, Disturb, remote, GitTypeOK, HeadKnown, At
  <2>2. IsPrefix(<<>>, branch)
    <3>1. <<>> \in Seq(Commit) /\ Len(<<>>) = 0 /\ Len(branch) \in Nat
      BY EmptySeq DEF GitTypeOK
    <3>2. Len(<<>>) <= Len(branch) /\ \A i \in 1 .. Len(<<>>) : FALSE
      BY <3>1
    <3> QED BY <3>1, <3>2, PrefixByElement DEF GitTypeOK
  <2> QED BY <1>3, <2>1, <2>2, DisturbancesAssumption
          DEF HeadKnown, Explained, Disputed, At
<1>12. ASSUME UpdateRef PROVE Known
  <2>1. disturbances' = disturbances /\ pull' = pull
    BY <1>12 DEF UpdateRef
  <2>2. CASE FastForward
    <3>1. call'.step = "done" /\ rejected' = rejected
      BY <1>12, <2>2 DEF UpdateRef, Goto, GitTypeOK
    <3> QED BY <1>3, <2>1, <3>1 DEF HeadKnown, Explained, Disputed, At
  <2>3. CASE ~FastForward
    <3>1. Reject /\ branch' = branch
      BY <1>12, <2>3 DEF UpdateRef
    <3>2. branch # call.head
      <4>1. SUFFICES ASSUME branch = call.head PROVE FastForward
        BY <2>3
      <4>2. call.head \in Seq(Commit) /\ call.head # <<>>
        BY <1>12, HeadThere DEF UpdateRef
      <4>3. [by |-> call.by, tree |-> With(TreeOf(call.head), call.files)]
              \in Commit
        BY <4>2, CommitTyped DEF GitTypeOK
      <4> QED BY <4>1, <4>2, <4>3, Appended DEF FastForward, Built
    <3>3. Explained' /\ rejected' \in Nat /\ call'.step = "rejected"
      BY <1>12, <2>1, <3>1, <3>2, RejectExplained DEF Disputed, UpdateRef
    <3> QED BY <1>3, <2>1, <3>3 DEF HeadKnown, At
  <2> QED BY <2>2, <2>3
<1>13. ASSUME CreateOrUpdateFile PROVE Known
  <2>1. disturbances' = disturbances /\ pull' = pull
    BY <1>13 DEF CreateOrUpdateFile
  <2>2. CASE \A p \in DOMAIN call.files : TreeOf(branch)[p] = Blob(p)
    <3>1. call'.step = "done" /\ rejected' = rejected
      BY <1>13, <2>2 DEF CreateOrUpdateFile, Goto, GitTypeOK
    <3> QED BY <1>3, <2>1, <3>1 DEF HeadKnown, Explained, Disputed, At
  <2>3. CASE ~\A p \in DOMAIN call.files : TreeOf(branch)[p] = Blob(p)
    <3>1. Reject /\ branch' = branch
      BY <1>13, <2>3 DEF CreateOrUpdateFile
    <3>2. branch # call.head
      BY <1>13, <2>3, HeadThere DEF Blob, CreateOrUpdateFile
    <3>3. Explained' /\ rejected' \in Nat /\ call'.step = "rejected"
      BY <1>13, <2>1, <3>1, <3>2, RejectExplained
      DEF Disputed, CreateOrUpdateFile
    <3> QED BY <1>3, <2>1, <3>3 DEF HeadKnown, At
  <2> QED BY <2>2, <2>3
<1>14. ASSUME ListPulls PROVE Known
  <2>1. /\ call'.step \in {"done", "create"} /\ call.op = "openPullRequest"
        /\ call'.step = "create" => pull = NoPull
        /\ branch' = branch /\ pull' = pull
        /\ rejected' = rejected /\ disturbances' = disturbances
    BY <1>14 DEF ListPulls, Goto, remote, GitTypeOK, HeadKnown, At, Found
  <2> QED BY <1>3, <1>7, <2>1 DEF HeadKnown, Explained, Disputed, At
<1>15. ASSUME CreatePull PROVE Known
  <2>1. disturbances' = disturbances /\ branch' = branch
    BY <1>15 DEF CreatePull
  <2>2. CASE pull # NoPull
    <3>1. Reject /\ pull' = pull
      BY <1>15, <2>2 DEF CreatePull
    <3>2. Explained' /\ rejected' \in Nat /\ call'.step = "rejected"
      BY <1>15, <2>1, <2>2, <3>1, RejectExplained DEF Disputed, CreatePull
    <3> QED BY <1>3, <2>1, <3>2 DEF HeadKnown, At
  <2>3. CASE pull = NoPull
    <3>1. call'.step = "done" /\ rejected' = rejected
      BY <1>15, <2>3 DEF CreatePull, Goto, GitTypeOK
    <3> QED BY <1>3, <2>1, <3>1 DEF HeadKnown, Explained, Disputed, At
  <2> QED BY <2>2, <2>3
<1>16. Known
  BY <1>8, <1>9, <1>10, <1>11, <1>12, <1>13, <1>14, <1>15,
     <1>18 DEF ClientStep
<1>17. GitTypeOK'
  BY <1>2, <1>3, <1>4, <1>7, <1>16 DEF GitTypeOK
<1> QED BY <1>5, <1>16, <1>17

(* Nobody's work is lost by a request, or changed beyond what it is for.   *)
LEMMA WorkKeptStep ==
  ASSUME GitInv, ClientStep \/ Push, branch' # branch
  PROVE  HistoryKept /\ OnlyNamedFilesChange
<1> USE DEF GitInv
<1>1. branch \in Seq(Commit)
  BY DEF GitTypeOK
<1>2. CASE ClientStep
  <2>1. Forks \/ Lands
    BY <1>2, ClientEffect
  <2>2. CASE Forks
    <3>1. main \in Seq(Commit) /\ Len(main) \in Nat /\ Len(branch) = 0
      BY <2>2 DEF GitTypeOK, Forks
    <3>2. Len(branch) <= Len(main) /\ \A i \in 1 .. Len(branch) : FALSE
      BY <3>1
    <3>3. IsPrefix(branch, main)
      BY <1>1, <3>1, <3>2, PrefixByElement
    <3> QED BY <2>2, <3>3 DEF Forks, HistoryKept, OnlyNamedFilesChange
  <2>3. CASE Lands
    <3>1. IsPrefix(branch, branch') /\ TreeOf(branch') = Built1.tree
      BY <2>3, CommitLands
    <3>2. branch # <<>>
      BY <2>3 DEF Lands
    <3>3. \A p \in Path \ DOMAIN call.files :
            Built1.tree[p] = TreeOf(branch)[p]
      BY <1>1, <3>2, TreeTyped, WithTyped DEF Built1, GitTypeOK
    <3> QED BY <3>1, <3>3 DEF HistoryKept, OnlyNamedFilesChange
  <2> QED BY <2>1, <2>2, <2>3
<1>3. CASE Push
  <2>1. PICK f \in HumanFiles :
          /\ branch' \in Seq(Commit)
          /\ branch'[Len(branch')] = PushedOn(f)
          /\ \A s \in Seq(Commit) : IsPrefix(s, branch) => IsPrefix(s, branch')
    BY <1>3, PushEffect
  <2>2. IsPrefix(branch, branch)
    BY <1>1, PrefixByElement
  <2>3. Last(branch').by = "people"
    BY <2>1 DEF Last, PushedOn
  <2> QED BY <1>1, <2>1, <2>2, <2>3 DEF HistoryKept, OnlyNamedFilesChange
<1> QED BY <1>2, <1>3

-----------------------------------------------------------------------------
(* The test setup.  Hypotheses on what maintainers push: nobody removes    *)
(* the configuration of the runner, nobody adds the example test.          *)
NobodyRemovesRunner ==
  \A f \in HumanFiles :
    f[1] \in {"vitest.config.ts", "pytest.ini"} => f[2] # Absent
NobodyAddsSetupTest == \A f \in HumanFiles : f[1] # "setup.test"

(* By what a setup that was committed is recognised.                       *)
Sign == IF pack = "python" THEN "pytest.ini" ELSE "vitest.config.ts"
Landed == SetupCommits # {}
OnlyOne == \A i, j \in SetupCommits : i = j

BranchSigned == Present(TreeOf(branch), Sign)
SandboxSigned == Present(sandbox, Sign)
BranchRuns == hasTestRunner(TreeOf(branch))
SandboxRuns == hasTestRunner(sandbox)
BranchTested == Present(TreeOf(branch), "setup.test")
SandboxTested == Present(sandbox, "setup.test")
Same == sandbox = TreeOf(branch)
Proves == With(TreeOf(branch), call.files) = proven

(* Who calls, and for which files.                                         *)
Papers == {"spec.md", "plan.md", "feature"}
CallFits ==
  /\ call = Idle \/ at \in {"commit", "commitSetup", "open"}
  /\ at \in {"commit", "commitSetup"} => Committing
  /\ call.by = "setup" <=> at = "commitSetup"
  /\ \A p \in DOMAIN call.files : call.files[p] # Absent
  /\ call.by # "setup" => DOMAIN call.files \subseteq Papers
  /\ call.by = "setup" =>
       Sign \in DOMAIN call.files /\ "own.test" \notin DOMAIN call.files
  /\ at = "open" => (call.body = "note" <=> consent # "none")

(* A pull request of the integrator's is opened last, and its body says    *)
(* what was consented to.                                                  *)
BodyFits ==
  pull \in Body =>
    phase \in {"review", "parked"} /\ (pull = "note" <=> consent # "none")

PhaseFits ==
  /\ at \in {"detect", "full", "runner-only", "commitSetup"} =>
       phase = "implement" /\ consent # "none"
  /\ at = "tasks" => phase = "implement"
  /\ at = "open" => phase = "review"
  /\ at # "start" => phase \in Job
  /\ phase = "spec" => found = "none"
  /\ phase = "spec" /\ at = "commit" => pack # "none"
  /\ phase = "spec" /\ at = "commit" /\ At("done") => branch # <<>>
  /\ phase \in {"plan", "gate", "implement", "review", "parked"} =>
       pack # "none" /\ branch # <<>>
  /\ phase \in {"gate", "implement", "review", "parked"} => consent = found

(* A setup is committed with consent, and every one that was begun is.     *)
LandedFits ==
  /\ Landed => consent # "none" /\ phase \notin {"spec", "plan", "gate"}
  /\ at = "commitSetup" /\ At("done") => Landed

(* Once it is committed no other one is made.                              *)
OnceInv ==
  NobodyRemovesRunner /\ ~blind =>
    /\ OnlyOne
    /\ at \in {"full", "runner-only"} => ~Landed
    /\ at = "commitSetup" /\ ~At("done") => ~Landed
    /\ Landed => BranchSigned
    /\ at = "detect" /\ Landed => SandboxSigned

(* What was found to be needed still is, until it is committed.            *)
NoteInv ==
  ~Pushed =>
    /\ found # "none" /\ ~Landed => ~BranchRuns
    /\ at = "detect" /\ ~Landed => ~SandboxRuns
    /\ phase = "implement" /\ at \in {"tasks", "commit"} =>
         (consent # "none" => Landed)
    /\ phase \in {"review", "parked"} => (consent # "none" => Landed)

(* The sandbox is the branch, and the commit makes the branch the sandbox. *)
ProvenInv ==
  ~Pushed =>
    /\ at \in {"detect", "full", "runner-only"} => Same
    /\ at = "commitSetup" /\ ~At("done") => Proves

(* The example test is only written where there is none.                   *)
OwnInv ==
  NobodyAddsSetupTest /\ ~blind =>
    /\ at \in {"detect", "full", "runner-only"} =>
         (SandboxTested <=> BranchTested)
    /\ at = "full" => ~SandboxTested
    /\ at = "commitSetup" /\ ~At("done")
         /\ "setup.test" \in DOMAIN call.files => ~BranchTested

SetupInv ==
  /\ TypeOK /\ GitInv /\ CallFits /\ PhaseFits /\ BodyFits
  /\ LandedFits /\ OnceInv /\ NoteInv /\ ProvenInv /\ OwnInv

-----------------------------------------------------------------------------
(* What becomes of these while the branch is left alone ...                *)
LEMMA BranchStill ==
  ASSUME UNCHANGED remote
  PROVE  /\ Landed' <=> Landed
         /\ OnlyOne' <=> OnlyOne
         /\ Pushed' <=> Pushed
         /\ BranchTested' <=> BranchTested
         /\ TreeOf(branch)' = TreeOf(branch)
         /\ branch' = branch /\ pull' = pull
         /\ pack' = pack => /\ Sign' = Sign
                            /\ BranchSigned' <=> BranchSigned
                            /\ BranchRuns' <=> BranchRuns
<1>1. branch' = branch /\ pull' = pull
  BY DEF remote
<1>2. SetupCommits' = SetupCommits
  BY <1>1 DEF SetupCommits
<1>3. ASSUME pack' = pack
      PROVE  /\ Sign' = Sign
             /\ BranchSigned' <=> BranchSigned
             /\ BranchRuns' <=> BranchRuns
  BY <1>1, <1>3 DEF Sign, BranchSigned, BranchRuns, TreeOf, Last, Present,
                    hasTestRunner, PackageJson
<1> QED BY <1>1, <1>2, <1>3
        DEF Landed, OnlyOne, Pushed, BranchTested, TreeOf, Last, Present

(* ... and the sandbox.                                                    *)
LEMMA SandboxStill ==
  ASSUME UNCHANGED <<sandbox, pack>>
  PROVE  /\ SandboxSigned' <=> SandboxSigned
         /\ SandboxRuns' <=> SandboxRuns
         /\ SandboxTested' <=> SandboxTested
BY DEF SandboxSigned, SandboxRuns, SandboxTested, Sign, Present, hasTestRunner,
       PackageJson

LEMMA IdleBegins ==
  ASSUME call' = Idle
  PROVE  /\ Begins
         /\ call'.op = "none" /\ call'.by = "people" /\ call'.step = "idle"
         /\ DOMAIN call'.files = {}
BY DEF Begins, Idle, NoFiles, Op, Purpose, Body

LEMMA FileBegins ==
  ASSUME NEW by \in Purpose, NEW path \in Path, NEW text \in Text,
         CommitFile(by, path, text)
  PROVE  /\ Begins
         /\ call'.op = "commitFile" /\ call'.by = by /\ call'.step = "ensure"
         /\ DOMAIN call'.files = {path} /\ call'.files[path] = text
BY DEF Begins, CommitFile, Op, Body

LEMMA FilesBegin ==
  ASSUME NEW by \in Purpose, NEW files, DOMAIN files \subseteq Path,
         \A p \in DOMAIN files : files[p] \in Text,
         CommitFiles(by, files)
  PROVE  /\ Begins
         /\ call'.op = "commitFiles" /\ call'.by = by /\ call'.step = "ensure"
         /\ call'.files = files
BY DEF Begins, CommitFiles, Op, Body

LEMMA PullBegins ==
  ASSUME NEW body \in Body, OpenPullRequest(body)
  PROVE  /\ Begins
         /\ call'.op = "openPullRequest" /\ call'.by = "people"
         /\ call'.step = "list" /\ DOMAIN call'.files = {}
         /\ call'.body = body
BY DEF Begins, OpenPullRequest, Idle, NoFiles, Op, Purpose

-----------------------------------------------------------------------------
(* ... and the handlers, one by one.                                       *)
LEMMA InitSetup ==
  ASSUME Init
  PROVE  SetupInv
<1>1. PICK tree \in Repos : main = <<[by |-> "people", tree |-> tree]>>
  BY DEF Init
<1>2. /\ branch = <<>> /\ pull = NoPull /\ call = Idle /\ rejected = 0
      /\ disturbances = 0 /\ language \in Language
      /\ phase = "spec" /\ at = "start" /\ pack = "none"
      /\ found = "none" /\ consent = "none" /\ revisions = 0
      /\ sandbox = NoTree /\ blind = FALSE /\ proven = NoTree
      /\ crashes = 0
  BY DEF Init, GitInit
<1>3. /\ call.op = "none" /\ call.step = "idle" /\ call.by = "people"
      /\ DOMAIN call.files = {} /\ call.head = <<>>
      /\ call \in [op : Op, step : Step, by : Purpose, files : {call.files},
                   head : {<<>>}, body : Body]
  BY <1>2 DEF Idle, NoFiles, Op, Step, Purpose, Body
<1>4. main \in Seq(Commit) /\ Len(main) = 1 /\ main[1].by = "people"
  <2>1. [by |-> "people", tree |-> tree] \in Commit
    BY RepoAssumption DEF Commit, Purpose, Tree
  <2> QED BY <1>1, <2>1
<1>5. GitTypeOK
  <2>1. branch \in Seq(Commit)
    BY <1>2, EmptySeq
  <2>2. call \in [op : Op, step : Step, by : Purpose, files : {call.files},
                  head : Seq(Commit), body : Body]
    BY <1>2, <1>3, <2>1
  <2>3. DOMAIN call.files \subseteq Path /\ pull = NoPull
        /\ \A p \in DOMAIN call.files : call.files[p] \in Text
    BY <1>2, <1>3
  <2>4. disturbances \in 0 .. MaxDisturbances /\ rejected \in Nat
    BY <1>2, DisturbancesAssumption
  <2> QED BY <1>4, <2>1, <2>2, <2>3, <2>4 DEF GitTypeOK
<1>6. GitInv
  BY <1>2, <1>3, <1>4, <1>5
  DEF GitInv, Forked, Begun, HeadKnown, Explained, Disputed, At
<1>7. NoTree \in Tree
  BY FilesAssumption DEF NoTree, Tree
<1>8. MaxRevisions \in Nat /\ MaxCrashes \in Nat
  BY BoundsAssumption
<1>9. TypeOK
  <2>1. revisions \in 0 .. MaxRevisions /\ crashes \in 0 .. MaxCrashes
    BY <1>2, <1>8
  <2>2. blind \in BOOLEAN /\ {sandbox, proven} \subseteq Tree
    BY <1>2, <1>7
  <2>3. /\ phase \in Job /\ at = "start" /\ language \in Language
        /\ pack = "none" /\ {found, consent} \subseteq {"none"}
    BY <1>2 DEF Job
  <2> QED BY <1>5, <2>1, <2>2, <2>3 DEF TypeOK
<1>10. ~Landed /\ OnlyOne
  BY <1>2 DEF Landed, OnlyOne, SetupCommits
<1> QED BY <1>2, <1>3, <1>6, <1>9, <1>10
        DEF SetupInv, CallFits, PhaseFits, BodyFits, LandedFits, OnceInv,
            NoteInv, ProvenInv, OwnInv, At, NoPull, Body

LEMMA PackResolved ==
  \A tree, listed :
    Resolved(tree, listed) \in {"none", "typescript", "python"}
BY DEF Resolved, Detected, ForLanguage

LEMMA SetupDetected ==
  \A tree :
    /\ detectTestSetup(tree) \in {"none", "full", "runner-only"}
    /\ detectTestSetup(tree) = "none" <=> hasTestRunner(tree)
    /\ detectTestSetup(tree) = "full" => ~Present(tree, "setup.test")
BY DEF detectTestSetup, HasTests

LEMMA ProduceSpecStep ==
  ASSUME SetupInv, ProduceSpec
  PROVE  SetupInv'
<1> USE DEF SetupInv
<1>1. PICK listed \in BOOLEAN :
        /\ IF listed THEN disturbances' = disturbances ELSE Disturb
        /\ IF Resolved(TreeOf(main), listed) = "none"
           THEN phase' = "unsupported" /\ UNCHANGED <<at, pack, call>>
           ELSE /\ pack' = Resolved(TreeOf(main), listed)
                /\ at' = "commit"
                /\ CommitFile("spec", "spec.md", "ours")
                /\ UNCHANGED phase
  BY DEF ProduceSpec
<1>2. /\ UNCHANGED <<remote, language, found, consent, revisions, sandbox,
                     history>>
      /\ phase = "spec" /\ at = "start"
  BY DEF ProduceSpec
<1>3. pack' # pack => pack' \in {"typescript", "python"}
  BY <1>1, PackResolved
<1>4. \/ call' = call /\ at' = "start" /\ phase' = "unsupported"
      \/ /\ Begins /\ call'.op = "commitFile" /\ call'.by = "spec"
         /\ call'.step = "ensure" /\ DOMAIN call'.files = {"spec.md"}
         /\ call'.files["spec.md"] # Absent
         /\ at' = "commit" /\ phase' = "spec"
         /\ pack' \in {"typescript", "python"}
  <2>1. "ours" \in Text /\ "spec.md" \in Path /\ "spec" \in Purpose
    BY RepoAssumption DEF Purpose, RepoFile
  <2>2. CASE Resolved(TreeOf(main), listed) = "none"
    BY <1>1, <1>2, <2>2
  <2>3. CASE Resolved(TreeOf(main), listed) # "none"
    <3>1. CommitFile("spec", "spec.md", "ours")
      BY <1>1, <2>3
    <3> QED BY <1>1, <1>2, <2>1, <2>3, <3>1, PackResolved, FileBegins DEF Absent
  <2> QED BY <2>2, <2>3
<1>5. GitInv'
  <2>1. call' = call \/ Begins
    BY <1>4
  <2>2. disturbances' = disturbances \/ Disturb
    BY <1>1
  <2> QED BY <1>2, <2>1, <2>2, BeginStep
<1>6. TypeOK'
  BY <1>2, <1>3, <1>4, <1>5 DEF TypeOK, GitInv, history, Job
<1>7. /\ ~Landed /\ ~Landed' /\ OnlyOne' /\ (Pushed' <=> Pushed)
      /\ pull' = pull
  BY <1>2, BranchStill DEF LandedFits, OnceInv, Landed, OnlyOne
<1>8. UNCHANGED <<found, consent, blind>>
  BY <1>2 DEF history
<1>9. CallFits'
  BY <1>2, <1>4 DEF CallFits, Committing, Papers
<1>10. PhaseFits' /\ BodyFits'
  BY <1>2, <1>4, <1>7, <1>8 DEF PhaseFits, BodyFits, At, Job
<1>11. LandedFits'
  BY <1>4, <1>7 DEF LandedFits
<1> QED BY <1>2, <1>4, <1>5, <1>6, <1>7, <1>8, <1>9, <1>10, <1>11
        DEF PhaseFits, OnceInv, NoteInv, ProvenInv, OwnInv

(* What every handler that knows its language pack leaves as it is.        *)
LEMMA HandlerStill ==
  ASSUME SetupInv, UNCHANGED <<remote, pack>>, call' = call \/ Begins,
         disturbances' = disturbances \/ Disturb
  PROVE  /\ GitInv'
         /\ Landed' <=> Landed
         /\ OnlyOne' <=> OnlyOne
         /\ Pushed' <=> Pushed
         /\ BranchTested' <=> BranchTested
         /\ TreeOf(branch)' = TreeOf(branch)
         /\ branch' = branch /\ pull' = pull /\ pack' = pack /\ Sign' = Sign
         /\ BranchSigned' <=> BranchSigned
         /\ BranchRuns' <=> BranchRuns
BY BeginStep, BranchStill DEF SetupInv

LEMMA SpecCommittedStep ==
  ASSUME SetupInv, SpecCommitted
  PROVE  SetupInv'
<1> USE DEF SetupInv
<1>1. /\ phase = "spec" /\ at = "commit" /\ phase' = "plan" /\ at' = "start"
      /\ call' = Idle /\ call.step = "done"
      /\ UNCHANGED <<remote, disturbances, language, pack, found, consent,
                     revisions, sandbox, blind, proven, crashes>>
  BY DEF SpecCommitted, Answered, EndPhase, decided, history, At
<1>2. /\ Begins /\ call'.op = "none" /\ call'.by = "people"
      /\ call'.step = "idle" /\ DOMAIN call'.files = {}
  BY <1>1, IdleBegins
<1>3. /\ GitInv' /\ (Landed' <=> Landed) /\ (OnlyOne' <=> OnlyOne)
      /\ (Pushed' <=> Pushed) /\ pull' = pull /\ branch' = branch
  BY <1>1, <1>2, HandlerStill
<1>4. TypeOK'
  BY <1>1, <1>3 DEF TypeOK, GitInv, Job
<1>5. ~Landed /\ OnlyOne
  BY <1>1 DEF LandedFits, OnlyOne, Landed
<1>6. CallFits'
  BY <1>1, <1>2 DEF CallFits
<1>7. PhaseFits' /\ BodyFits'
  BY <1>1, <1>3 DEF PhaseFits, BodyFits, At
<1> QED BY <1>1, <1>3, <1>4, <1>5, <1>6, <1>7
        DEF PhaseFits, LandedFits, OnceInv, NoteInv, ProvenInv, OwnInv

LEMMA ProducePlanStep ==
  ASSUME SetupInv, ProducePlan
  PROVE  SetupInv'
<1> USE DEF SetupInv
<1> DEFINE text == IF revisions = 0 THEN "ours" ELSE "plain"
<1>1. /\ phase = "plan" /\ at = "start" /\ at' = "commit"
      /\ CommitFile("plan", "plan.md", text)
      /\ UNCHANGED <<remote, phase, language, pack, consent, revisions,
                     sandbox, blind, proven, crashes>>
      /\ \/ found' = detectTestSetup(TreeOf(branch))
         \/ found' = "none"
      /\ disturbances' = disturbances \/ Disturb
  BY DEF ProducePlan, history
<1>2. text \in Text /\ text # Absent /\ "plan.md" \in Path /\ "plan" \in Purpose
  BY RepoAssumption DEF Absent, RepoFile, Purpose
<1> HIDE DEF text
<1>3. /\ Begins /\ call'.op = "commitFile" /\ call'.by = "plan"
      /\ call'.step = "ensure" /\ DOMAIN call'.files = {"plan.md"}
      /\ call'.files["plan.md"] # Absent
  BY <1>1, <1>2, FileBegins
<1>4. /\ GitInv' /\ (Landed' <=> Landed) /\ (OnlyOne' <=> OnlyOne)
      /\ (Pushed' <=> Pushed) /\ branch' = branch /\ pack' = pack
      /\ pull' = pull /\ (BranchRuns' <=> BranchRuns)
  BY <1>1, <1>3, HandlerStill
<1>5. /\ found' \in {"none", "full", "runner-only"}
      /\ found' # "none" => ~BranchRuns
  BY <1>1, SetupDetected DEF BranchRuns
<1>6. TypeOK'
  BY <1>1, <1>4, <1>5 DEF TypeOK, GitInv
<1>7. ~Landed /\ OnlyOne
  BY <1>1 DEF LandedFits, OnlyOne, Landed
<1>8. CallFits'
  BY <1>1, <1>3 DEF CallFits, Committing, Papers
<1>9. PhaseFits' /\ BodyFits'
  BY <1>1, <1>4 DEF PhaseFits, BodyFits, At, Job
<1> QED BY <1>1, <1>4, <1>5, <1>6, <1>7, <1>8, <1>9
        DEF LandedFits, OnceInv, NoteInv, ProvenInv, OwnInv

LEMMA PlanPresentedStep ==
  ASSUME SetupInv, PlanPresented
  PROVE  SetupInv'
<1> USE DEF SetupInv
<1>1. /\ phase = "plan" /\ at = "commit" /\ phase' = "gate" /\ at' = "start"
      /\ call' = Idle /\ consent' = found
      /\ UNCHANGED <<remote, disturbances, language, pack, found, revisions,
                     sandbox, blind, proven, crashes>>
  BY DEF PlanPresented, Answered, EndPhase, history
<1>2. /\ Begins /\ call'.op = "none" /\ call'.by = "people"
      /\ call'.step = "idle" /\ DOMAIN call'.files = {}
  BY <1>1, IdleBegins
<1>3. /\ GitInv' /\ (Landed' <=> Landed) /\ (OnlyOne' <=> OnlyOne)
      /\ (Pushed' <=> Pushed) /\ branch' = branch /\ pack' = pack
      /\ pull' = pull /\ (BranchRuns' <=> BranchRuns)
  BY <1>1, <1>2, HandlerStill
<1>4. TypeOK'
  BY <1>1, <1>3 DEF TypeOK, GitInv, Job
<1>5. ~Landed /\ OnlyOne
  BY <1>1 DEF LandedFits, OnlyOne, Landed
<1>6. CallFits'
  BY <1>1, <1>2 DEF CallFits
<1>7. PhaseFits' /\ BodyFits'
  BY <1>1, <1>3 DEF PhaseFits, BodyFits, At
<1> QED BY <1>1, <1>3, <1>4, <1>5, <1>6, <1>7
        DEF PhaseFits, LandedFits, OnceInv, NoteInv, ProvenInv, OwnInv

(* The plan gate: what its comment makes of the run.                       *)
LEMMA GateStep ==
  ASSUME SetupInv, Approve \/ RequestChanges
  PROVE  SetupInv'
<1> USE DEF SetupInv
<1>1. /\ phase = "gate" /\ phase' \in {"implement", "plan"} /\ at' = "start"
      /\ UNCHANGED <<remote, call, disturbances, language, pack, found,
                     consent, sandbox, blind, proven, crashes>>
      /\ \/ revisions' = revisions
         \/ revisions < MaxRevisions /\ revisions' = revisions + 1
  BY DEF Approve, RequestChanges, EndPhase, gitVars, decided, history
<1>2. at = "start"
  BY <1>1 DEF PhaseFits, Job
<1>3. /\ GitInv' /\ (Landed' <=> Landed) /\ (OnlyOne' <=> OnlyOne)
      /\ (Pushed' <=> Pushed) /\ branch' = branch /\ pack' = pack
      /\ pull' = pull /\ (BranchRuns' <=> BranchRuns)
  BY <1>1, HandlerStill
<1>4. TypeOK'
  <2>1. revisions' \in 0 .. MaxRevisions
    BY <1>1, BoundsAssumption DEF TypeOK
  <2> QED BY <1>1, <1>3, <2>1 DEF TypeOK, GitInv, Job
<1>5. ~Landed /\ OnlyOne
  BY <1>1 DEF LandedFits, OnlyOne, Landed
<1>6. CallFits'
  BY <1>1, <1>2 DEF CallFits, Committing
<1>7. PhaseFits' /\ BodyFits'
  BY <1>1, <1>3 DEF PhaseFits, BodyFits, At
<1> QED BY <1>1, <1>3, <1>4, <1>5, <1>6, <1>7
        DEF PhaseFits, LandedFits, OnceInv, NoteInv, ProvenInv, OwnInv

LEMMA SignRuns ==
  ASSUME NEW tree, pack \in {"typescript", "python"}, Present(tree, Sign)
  PROVE  hasTestRunner(tree)
BY DEF Sign, hasTestRunner, Present

LEMMA OpenSandboxStep ==
  ASSUME SetupInv, OpenSandbox
  PROVE  SetupInv'
<1> USE DEF SetupInv
<1>1. /\ phase = "implement" /\ at = "start" /\ sandbox' = TreeOf(branch)
      /\ at' = IF consent = "none" THEN "tasks" ELSE "detect"
      /\ UNCHANGED <<remote, call, disturbances, phase, language, pack, found,
                     consent, revisions, blind, proven, crashes>>
  BY DEF OpenSandbox, gitVars, decided, history
<1>2. consent = found /\ branch # <<>> /\ call = Idle
  BY <1>1 DEF PhaseFits, CallFits
<1>3. /\ GitInv' /\ (Landed' <=> Landed) /\ (OnlyOne' <=> OnlyOne)
      /\ (Pushed' <=> Pushed) /\ branch' = branch /\ pack' = pack
      /\ pull' = pull /\ (BranchRuns' <=> BranchRuns)
      /\ (BranchSigned' <=> BranchSigned)
      /\ (BranchTested' <=> BranchTested) /\ TreeOf(branch)' = TreeOf(branch)
      /\ Sign' = Sign
  BY <1>1, HandlerStill
<1>4. TypeOK'
  <2>1. TreeOf(branch) \in Tree
    BY <1>2, TreeTyped DEF GitInv, GitTypeOK
  <2> QED BY <1>1, <1>3, <2>1 DEF TypeOK, GitInv
<1>5. /\ Same' /\ (SandboxSigned' <=> BranchSigned)
      /\ (SandboxTested' <=> BranchTested)
  BY <1>1, <1>3
  DEF Same, SandboxSigned, SandboxTested, BranchSigned, BranchTested, Present
<1>6. SandboxRuns' <=> BranchRuns
  <2>1. SandboxRuns' <=> BranchRuns'
    BY <1>1, <1>3 DEF SandboxRuns, BranchRuns, hasTestRunner, PackageJson,
                      Present
  <2> QED BY <1>3, <2>1
<1>7. CallFits'
  BY <1>1, <1>3 DEF CallFits, Committing
<1>8. PhaseFits' /\ BodyFits'
  BY <1>1, <1>3 DEF PhaseFits, BodyFits, At, Job
<1> QED BY <1>1, <1>2, <1>3, <1>4, <1>5, <1>6, <1>7, <1>8
        DEF LandedFits, OnceInv, NoteInv, ProvenInv, OwnInv

LEMMA DetectStep ==
  ASSUME SetupInv, Detect
  PROVE  SetupInv'
<1> USE DEF SetupInv
<1> DEFINE verdict == detectTestSetup(sandbox)
<1>1. /\ at = "detect"
      /\ at' = IF verdict = "none" THEN "tasks" ELSE verdict
      /\ UNCHANGED <<remote, call, disturbances, phase, language, pack, found,
                     consent, revisions, sandbox, blind, proven,
                     crashes>>
  BY DEF Detect, gitVars, decided, history
<1>2. /\ verdict \in {"none", "full", "runner-only"}
      /\ verdict = "none" <=> SandboxRuns
      /\ verdict = "full" => ~SandboxTested
  BY SetupDetected DEF SandboxRuns, SandboxTested
<1> HIDE DEF verdict
<1>3. /\ phase = "implement" /\ consent # "none" /\ call = Idle
      /\ pack \in {"typescript", "python"}
  BY <1>1 DEF PhaseFits, CallFits, TypeOK
<1>4. SandboxSigned => SandboxRuns
  BY <1>3, SignRuns DEF SandboxSigned, SandboxRuns
<1>5. /\ GitInv' /\ (Landed' <=> Landed) /\ (OnlyOne' <=> OnlyOne)
      /\ (Pushed' <=> Pushed) /\ branch' = branch /\ pack' = pack
      /\ pull' = pull /\ (BranchRuns' <=> BranchRuns)
      /\ (BranchSigned' <=> BranchSigned)
      /\ (BranchTested' <=> BranchTested) /\ TreeOf(branch)' = TreeOf(branch)
      /\ Sign' = Sign
  BY <1>1, HandlerStill
<1>6. /\ SandboxRuns' <=> SandboxRuns
      /\ SandboxTested' <=> SandboxTested
      /\ Same' <=> Same
  BY <1>1, <1>5, SandboxStill DEF Same
<1>7. TypeOK'
  BY <1>1, <1>2, <1>5 DEF TypeOK, GitInv
<1>8. CallFits'
  BY <1>1, <1>2, <1>3, <1>5 DEF CallFits, Committing
<1>9. PhaseFits' /\ BodyFits'
  BY <1>1, <1>2, <1>3, <1>5 DEF PhaseFits, BodyFits, At, Job
<1>10. LandedFits'
  BY <1>1, <1>2, <1>5 DEF LandedFits
<1>11. OnceInv'
  BY <1>1, <1>2, <1>4, <1>5 DEF OnceInv
<1>12. NoteInv'
  BY <1>1, <1>2, <1>3, <1>5 DEF NoteInv
<1> QED BY <1>1, <1>2, <1>5, <1>6, <1>7, <1>8, <1>9, <1>10, <1>11, <1>12
        DEF ProvenInv, OwnInv

LEMMA DetectNothingStep ==
  ASSUME SetupInv, DetectNothing
  PROVE  SetupInv'
<1> USE DEF SetupInv
<1>1. /\ at = "detect" /\ at' = "full" /\ blind' = TRUE /\ Disturb
      /\ UNCHANGED <<remote, call, phase, language, pack, found, consent,
                     revisions, sandbox, proven, crashes>>
  BY DEF DetectNothing, decided
<1>2. phase = "implement" /\ consent # "none" /\ call = Idle
  BY <1>1 DEF PhaseFits, CallFits
<1>3. /\ GitInv' /\ (Landed' <=> Landed)
      /\ (Pushed' <=> Pushed) /\ pull' = pull
      /\ branch' = branch /\ pack' = pack /\ (BranchRuns' <=> BranchRuns)
      /\ TreeOf(branch)' = TreeOf(branch) /\ Sign' = Sign
  BY <1>1, HandlerStill
<1>4. Same' <=> Same
  BY <1>1, <1>3 DEF Same
<1>5. TypeOK'
  BY <1>1, <1>3 DEF TypeOK, GitInv
<1>6. CallFits'
  BY <1>1, <1>2, <1>3 DEF CallFits, Committing
<1>7. PhaseFits' /\ BodyFits'
  BY <1>1, <1>2, <1>3 DEF PhaseFits, BodyFits, At, Job
<1>8. LandedFits' /\ NoteInv'
  BY <1>1, <1>2, <1>3 DEF LandedFits, NoteInv
<1> QED BY <1>1, <1>3, <1>4, <1>5, <1>6, <1>7, <1>8
        DEF OnceInv, ProvenInv, OwnInv

LEMMA BootstrapNotGreenStep ==
  ASSUME SetupInv, BootstrapNotGreen
  PROVE  SetupInv'
<1> USE DEF SetupInv
<1>1. /\ at \in {"full", "runner-only"} /\ phase' = "failed" /\ at' = "start"
      /\ UNCHANGED <<remote, call, disturbances, language, pack, found,
                     consent, revisions, sandbox, blind, proven,
                     crashes>>
  BY DEF BootstrapNotGreen, Stops, EndPhase, gitVars, decided, history
<1>2. phase = "implement" /\ consent # "none" /\ call = Idle
  BY <1>1 DEF PhaseFits, CallFits
<1>3. /\ GitInv' /\ (Landed' <=> Landed) /\ (OnlyOne' <=> OnlyOne)
      /\ (Pushed' <=> Pushed) /\ pull' = pull /\ (BranchRuns' <=> BranchRuns)
      /\ (BranchSigned' <=> BranchSigned) /\ Sign' = Sign
  BY <1>1, HandlerStill
<1>4. TypeOK'
  BY <1>1, <1>3 DEF TypeOK, GitInv
<1>5. CallFits'
  BY <1>1, <1>2, <1>3 DEF CallFits, Committing
<1>6. PhaseFits' /\ BodyFits'
  BY <1>1, <1>2, <1>3 DEF PhaseFits, BodyFits
<1> QED BY <1>1, <1>2, <1>3, <1>4, <1>5, <1>6
        DEF LandedFits, OnceInv, NoteInv, ProvenInv, OwnInv

LEMMA SetupCommittedStep ==
  ASSUME SetupInv, SetupCommitted
  PROVE  SetupInv'
<1> USE DEF SetupInv
<1>1. /\ at = "commitSetup" /\ call.step = "done" /\ at' = "tasks"
      /\ call' = Idle
      /\ UNCHANGED <<remote, disturbances, phase, language, pack, found,
                     consent, revisions, sandbox, blind, proven,
                     crashes>>
  BY DEF SetupCommitted, Answered, At, decided, history
<1>2. phase = "implement" /\ consent # "none" /\ Landed
  BY <1>1 DEF PhaseFits, LandedFits, At
<1>3. /\ Begins /\ call'.op = "none" /\ call'.by = "people"
      /\ call'.step = "idle" /\ DOMAIN call'.files = {}
  BY <1>1, IdleBegins
<1>4. /\ GitInv' /\ (Landed' <=> Landed) /\ (OnlyOne' <=> OnlyOne)
      /\ (Pushed' <=> Pushed) /\ branch' = branch /\ pack' = pack
      /\ pull' = pull /\ (BranchSigned' <=> BranchSigned)
  BY <1>1, <1>3, HandlerStill
<1>5. TypeOK'
  BY <1>1, <1>4 DEF TypeOK, GitInv
<1>6. CallFits'
  BY <1>1, <1>3 DEF CallFits
<1>7. PhaseFits' /\ BodyFits'
  BY <1>1, <1>2, <1>4 DEF PhaseFits, BodyFits, At, Job
<1> QED BY <1>1, <1>2, <1>4, <1>5, <1>6, <1>7
        DEF LandedFits, OnceInv, NoteInv, ProvenInv, OwnInv

LEMMA CommitTaskStep ==
  ASSUME SetupInv, CommitTask
  PROVE  SetupInv'
<1> USE DEF SetupInv
<1>1. /\ at = "tasks" /\ at' = "commit"
      /\ CommitFiles("task", [p \in {"feature"} |-> "ours"])
      /\ UNCHANGED <<remote, disturbances, phase, language, pack, found,
                     consent, revisions, sandbox, blind, proven,
                     crashes>>
  BY DEF CommitTask, decided, history
<1> DEFINE files == [p \in {"feature"} |-> "ours"]
<1>2. /\ DOMAIN files = {"feature"} /\ DOMAIN files \subseteq Path
      /\ \A p \in DOMAIN files : files[p] \in Text /\ files[p] # Absent
      /\ CommitFiles("task", files) /\ "task" \in Purpose
  BY <1>1, RepoAssumption DEF RepoFile, Purpose, Absent
<1> HIDE DEF files
<1>3. /\ Begins /\ call'.op = "commitFiles" /\ call'.by = "task"
      /\ call'.step = "ensure" /\ call'.files = files
  BY <1>2, FilesBegin
<1>4. phase = "implement"
  BY <1>1 DEF PhaseFits
<1>5. /\ GitInv' /\ (Landed' <=> Landed) /\ (OnlyOne' <=> OnlyOne)
      /\ (Pushed' <=> Pushed) /\ branch' = branch /\ pack' = pack
      /\ pull' = pull /\ (BranchSigned' <=> BranchSigned)
      /\ (BranchRuns' <=> BranchRuns)
  BY <1>1, <1>3, HandlerStill
<1>6. TypeOK'
  BY <1>1, <1>5 DEF TypeOK, GitInv
<1>7. CallFits'
  BY <1>1, <1>2, <1>3 DEF CallFits, Committing, Papers
<1>8. PhaseFits' /\ BodyFits'
  BY <1>1, <1>4, <1>5 DEF PhaseFits, BodyFits, At, Job
<1> QED BY <1>1, <1>4, <1>5, <1>6, <1>7, <1>8
        DEF LandedFits, OnceInv, NoteInv, ProvenInv, OwnInv

LEMMA TasksCommittedStep ==
  ASSUME SetupInv, TasksCommitted
  PROVE  SetupInv'
<1> USE DEF SetupInv
<1>1. /\ phase = "implement" /\ at = "commit" /\ phase' = "review"
      /\ at' = "start" /\ call' = Idle /\ sandbox' = NoTree
      /\ UNCHANGED <<remote, disturbances, language, pack, found, consent,
                     revisions, blind, proven, crashes>>
  BY DEF TasksCommitted, Answered, EndPhase, decided, history
<1>2. /\ Begins /\ call'.op = "none" /\ call'.by = "people"
      /\ call'.step = "idle" /\ DOMAIN call'.files = {}
  BY <1>1, IdleBegins
<1>3. /\ GitInv' /\ (Landed' <=> Landed) /\ (OnlyOne' <=> OnlyOne)
      /\ (Pushed' <=> Pushed) /\ branch' = branch /\ pack' = pack
      /\ pull' = pull /\ (BranchSigned' <=> BranchSigned)
      /\ (BranchRuns' <=> BranchRuns)
  BY <1>1, <1>2, HandlerStill
<1>4. TypeOK'
  <2>1. NoTree \in Tree
    BY FilesAssumption DEF NoTree, Tree
  <2> QED BY <1>1, <1>3, <2>1 DEF TypeOK, GitInv, Job
<1>5. CallFits'
  BY <1>1, <1>2 DEF CallFits
<1>6. PhaseFits' /\ BodyFits'
  BY <1>1, <1>3 DEF PhaseFits, BodyFits, At
<1> QED BY <1>1, <1>3, <1>4, <1>5, <1>6
        DEF PhaseFits, LandedFits, OnceInv, NoteInv, ProvenInv, OwnInv

LEMMA ReviewStep ==
  ASSUME SetupInv, Review
  PROVE  SetupInv'
<1> USE DEF SetupInv
<1>1. /\ phase = "review" /\ at = "start" /\ at' = "open"
      /\ OpenPullRequest(IF consent = "none" THEN "silent" ELSE "note")
      /\ UNCHANGED <<remote, disturbances, phase, language, pack, found,
                     consent, revisions, sandbox, blind, proven,
                     crashes>>
  BY DEF Review, decided, history
<1>2. /\ Begins /\ call'.op = "openPullRequest" /\ call'.by = "people"
      /\ call'.step = "list" /\ DOMAIN call'.files = {}
      /\ call'.body = IF consent = "none" THEN "silent" ELSE "note"
  BY <1>1, PullBegins DEF Body
<1>3. /\ GitInv' /\ (Landed' <=> Landed) /\ (OnlyOne' <=> OnlyOne)
      /\ (Pushed' <=> Pushed) /\ branch' = branch /\ pack' = pack
      /\ pull' = pull /\ (BranchSigned' <=> BranchSigned)
      /\ (BranchRuns' <=> BranchRuns)
  BY <1>1, <1>2, HandlerStill
<1>4. TypeOK'
  BY <1>1, <1>3 DEF TypeOK, GitInv
<1>5. CallFits'
  BY <1>1, <1>2 DEF CallFits
<1>6. PhaseFits' /\ BodyFits'
  BY <1>1, <1>3 DEF PhaseFits, BodyFits, At, Job
<1> QED BY <1>1, <1>3, <1>4, <1>5, <1>6
        DEF LandedFits, OnceInv, NoteInv, ProvenInv, OwnInv

LEMMA PullRequestOpenedStep ==
  ASSUME SetupInv, PullRequestOpened
  PROVE  SetupInv'
<1> USE DEF SetupInv
<1>1. /\ phase = "review" /\ at = "open" /\ phase' = "parked"
      /\ at' = "start" /\ call' = Idle
      /\ UNCHANGED <<remote, disturbances, language, pack, found, consent,
                     revisions, sandbox, blind, proven, crashes>>
  BY DEF PullRequestOpened, Answered, EndPhase, decided, history
<1>2. /\ Begins /\ call'.op = "none" /\ call'.by = "people"
      /\ call'.step = "idle" /\ DOMAIN call'.files = {}
  BY <1>1, IdleBegins
<1>3. /\ GitInv' /\ (Landed' <=> Landed) /\ (OnlyOne' <=> OnlyOne)
      /\ (Pushed' <=> Pushed) /\ branch' = branch /\ pack' = pack
      /\ pull' = pull /\ (BranchSigned' <=> BranchSigned)
      /\ (BranchRuns' <=> BranchRuns)
  BY <1>1, <1>2, HandlerStill
<1>4. TypeOK'
  BY <1>1, <1>3 DEF TypeOK, GitInv
<1>5. CallFits'
  BY <1>1, <1>2 DEF CallFits
<1>6. PhaseFits' /\ BodyFits'
  BY <1>1, <1>3 DEF PhaseFits, BodyFits, At
<1> QED BY <1>1, <1>3, <1>4, <1>5, <1>6
        DEF PhaseFits, LandedFits, OnceInv, NoteInv, ProvenInv, OwnInv

LEMMA CutShortStep ==
  ASSUME SetupInv, CutShort
  PROVE  SetupInv'
<1> USE DEF SetupInv
<1>1. /\ phase \in Job /\ at # "start" /\ at' = "start" /\ call' = Idle
      /\ phase' = (IF phase = "plan" THEN "stranded" ELSE phase)
      /\ sandbox' = NoTree
      /\ \/ crashes' = crashes
         \/ crashes < MaxCrashes /\ crashes' = crashes + 1
      /\ UNCHANGED <<remote, disturbances, language, pack, found, consent,
                     revisions, blind, proven>>
  BY DEF CutShort, EndPhase, decided
<1>2. /\ Begins /\ call'.op = "none" /\ call'.by = "people"
      /\ call'.step = "idle" /\ DOMAIN call'.files = {}
  BY <1>1, IdleBegins
<1>3. /\ GitInv' /\ (Landed' <=> Landed) /\ (OnlyOne' <=> OnlyOne)
      /\ (Pushed' <=> Pushed) /\ branch' = branch /\ pack' = pack
      /\ pull' = pull /\ (BranchSigned' <=> BranchSigned)
      /\ (BranchRuns' <=> BranchRuns)
  BY <1>1, <1>2, HandlerStill
<1>4. TypeOK'
  <2>1. NoTree \in Tree
    BY FilesAssumption DEF NoTree, Tree
  <2>2. crashes' \in 0 .. MaxCrashes
    BY <1>1, BoundsAssumption DEF TypeOK
  <2> QED BY <1>1, <1>3, <2>1, <2>2 DEF TypeOK, GitInv
<1>5. CallFits'
  BY <1>1, <1>2 DEF CallFits
<1>6. PhaseFits' /\ BodyFits'
  BY <1>1, <1>3 DEF PhaseFits, BodyFits, At, Job
<1> QED BY <1>1, <1>3, <1>4, <1>5, <1>6
        DEF PhaseFits, LandedFits, OnceInv, NoteInv, ProvenInv, OwnInv, Job

(* The files of a setup: only the paths handed back differ from what was   *)
(* in the sandbox, and they are all there.                                 *)
LEMMA PathsChanged ==
  /\ ChangedPaths \subseteq Path /\ Recipe \subseteq ChangedPaths
  /\ InstallArtifacts \subseteq ChangedPaths
  /\ Sign \in ChangedPaths /\ "own.test" \notin ChangedPaths
  /\ "setup.test" \in ChangedPaths <=> at = "full"
<1>1. ConfigFiles \subseteq Path /\ Sign \in ConfigFiles
      /\ "own.test" \notin ConfigFiles /\ "setup.test" \notin ConfigFiles
  BY RepoAssumption DEF ConfigFiles, Sign, RepoFile
<1>2. InstallArtifacts \subseteq Path /\ "own.test" \notin InstallArtifacts
      /\ "setup.test" \notin InstallArtifacts
  BY RepoAssumption DEF InstallArtifacts, RepoFile
<1>3. "setup.test" \in Path /\ Sign # "setup.test"
  BY RepoAssumption DEF RepoFile, Sign
<1> QED BY <1>1, <1>2, <1>3 DEF ChangedPaths, Recipe

LEMMA GreenTree ==
  ASSUME sandbox \in Tree,
         NEW tree, tree = Installed(With(sandbox, [p \in Recipe |-> "ours"]))
  PROVE  /\ tree \in Tree
         /\ \A p \in Path \ ChangedPaths : tree[p] = sandbox[p]
         /\ \A p \in ChangedPaths : Present(tree, p)
<1> DEFINE mid == With(sandbox, [p \in Recipe |-> "ours"])
<1>1. /\ mid \in Tree
      /\ \A p \in Path : mid[p] = IF p \in Recipe THEN "ours" ELSE sandbox[p]
  <2> DEFINE files == [p \in Recipe |-> "ours"]
  <2>1. DOMAIN files = Recipe /\ Recipe \subseteq Path
        /\ \A p \in Recipe : files[p] = "ours" /\ files[p] \in Text
    BY PathsChanged, RepoAssumption
  <2> HIDE DEF files
  <2>2. /\ With(sandbox, files) \in Tree
        /\ \A p \in Path : With(sandbox, files)[p] =
             IF p \in DOMAIN files THEN files[p] ELSE sandbox[p]
    BY <2>1, WithTyped
  <2> QED BY <2>1, <2>2 DEF files
<1> HIDE DEF mid
<1>2. /\ tree = [p \in Path |->
           IF p \notin InstallArtifacts THEN mid[p]
           ELSE IF p = "package.json" /\ mid[p] = Absent THEN "deps"
           ELSE IF mid[p] = "broken" THEN "broken" ELSE "ours"]
  BY DEF Installed, Present, mid
<1>3. /\ \A p \in Path : mid[p] \in Text
      /\ "deps" \in Text /\ "ours" \in Text /\ Absent = "absent"
  BY <1>1, RepoAssumption DEF Tree, Absent
<1>4. tree \in Tree
  BY <1>2, <1>3 DEF Tree
<1>5. ASSUME NEW p \in Path \ ChangedPaths PROVE tree[p] = sandbox[p]
  BY <1>1, <1>2, <1>5, PathsChanged
<1>6. ASSUME NEW p \in ChangedPaths PROVE Present(tree, p)
  <2>1. p \in Path /\ (p \in Recipe \/ p \in InstallArtifacts)
    BY <1>6, PathsChanged DEF ChangedPaths
  <2>2. p \in Recipe => mid[p] = "ours"
    BY <1>1, <2>1
  <2> QED BY <1>2, <1>3, <2>1, <2>2 DEF Present
<1> QED BY <1>4, <1>5, <1>6

LEMMA BootstrapGreenStep ==
  ASSUME SetupInv, BootstrapGreen
  PROVE  SetupInv'
<1> USE DEF SetupInv
<1> DEFINE files == [p \in {q \in ChangedPaths : Present(sandbox', q)} |->
                       sandbox'[p]]
<1>1. /\ at \in {"full", "runner-only"} /\ at' = "commitSetup"
      /\ sandbox' = Installed(With(sandbox, [p \in Recipe |-> "ours"]))
      /\ proven' = sandbox' /\ CommitFiles("setup", files)
      /\ UNCHANGED <<remote, disturbances, phase, language, pack, found,
                     consent, revisions, blind, crashes>>
  BY DEF BootstrapGreen, decided
<1>2. /\ sandbox \in Tree /\ sandbox' \in Tree
      /\ \A p \in Path \ ChangedPaths : sandbox'[p] = sandbox[p]
      /\ \A p \in ChangedPaths : Present(sandbox', p)
  BY <1>1, GreenTree DEF TypeOK
<1>3. /\ DOMAIN files = ChangedPaths
      /\ \A p \in ChangedPaths : files[p] = sandbox'[p]
  BY <1>2
<1>4. /\ DOMAIN files \subseteq Path /\ "setup" \in Purpose
      /\ \A p \in DOMAIN files : files[p] \in Text /\ files[p] # Absent
  BY <1>2, <1>3, PathsChanged DEF Tree, Present, Purpose
<1>5. With(sandbox, files) = sandbox'
  BY <1>2, <1>3 DEF With, Tree
<1> HIDE DEF files
<1>6. /\ Begins /\ call'.op = "commitFiles" /\ call'.by = "setup"
      /\ call'.step = "ensure" /\ call'.files = files
  BY <1>1, <1>4, FilesBegin
<1>7. phase = "implement" /\ consent # "none" /\ call = Idle
  BY <1>1 DEF PhaseFits, CallFits
<1>8. /\ GitInv' /\ (Landed' <=> Landed) /\ (OnlyOne' <=> OnlyOne)
      /\ (Pushed' <=> Pushed) /\ branch' = branch /\ pack' = pack
      /\ pull' = pull /\ (BranchSigned' <=> BranchSigned)
      /\ (BranchRuns' <=> BranchRuns)
      /\ (BranchTested' <=> BranchTested) /\ Sign' = Sign
      /\ TreeOf(branch)' = TreeOf(branch)
  BY <1>1, <1>6, HandlerStill
<1>9. TypeOK'
  BY <1>1, <1>2, <1>8 DEF TypeOK, GitInv
<1>10. CallFits'
  BY <1>1, <1>3, <1>4, <1>6, <1>8, PathsChanged DEF CallFits, Committing
<1>11. PhaseFits' /\ BodyFits'
  BY <1>1, <1>7, <1>8 DEF PhaseFits, BodyFits, At, Job
<1>12. LandedFits' /\ OnceInv'
  BY <1>1, <1>6, <1>7, <1>8 DEF LandedFits, OnceInv, At
<1>13. NoteInv'
  BY <1>1, <1>7, <1>8 DEF NoteInv
<1>14. ProvenInv'
  <2>1. Same => Proves'
    <3>1. ASSUME Same
          PROVE  With(TreeOf(branch)', call'.files) = proven'
      BY <1>1, <1>5, <1>6, <1>8, <3>1 DEF Same
    <3> QED BY <3>1 DEF Proves, With
  <2> QED BY <1>1, <1>8, <2>1 DEF ProvenInv
<1>15. OwnInv'
  <2>1. "setup.test" \in DOMAIN call'.files => at = "full"
    BY <1>3, <1>6, PathsChanged
  <2> QED BY <1>1, <1>8, <2>1 DEF OwnInv
<1> QED BY <1>8, <1>9, <1>10, <1>11, <1>12, <1>13, <1>14, <1>15

-----------------------------------------------------------------------------
(* What a commit makes of the history ...                                  *)
LEMMA CommitsAfter ==
  ASSUME branch \in Seq(Commit), branch # <<>>,
         Len(branch') = Len(branch) + 1,
         \A i \in 1 .. Len(branch) : branch'[i] = branch[i],
         branch' \in Seq(Commit)
  PROVE  /\ branch'[Len(branch')].by # "setup" => SetupCommits' = SetupCommits
         /\ branch'[Len(branch')].by = "setup" =>
              SetupCommits' = SetupCommits \cup {Len(branch')}
         /\ Len(branch') \notin SetupCommits
         /\ Pushed => Pushed'
         /\ branch'[Len(branch')].by = "people" => Pushed'
<1>1. Len(branch) \in Nat \ {0} /\ Len(branch') \in Nat
  BY EmptySeq
<1>2. /\ DOMAIN branch = 1 .. Len(branch)
      /\ DOMAIN branch' = 1 .. Len(branch')
  BY LenProperties
<1>3. DOMAIN branch' = DOMAIN branch \cup {Len(branch')}
      /\ Len(branch') \notin DOMAIN branch /\ Len(branch') > 1
  BY <1>1, <1>2
<1>4. \A i \in DOMAIN branch : branch'[i] = branch[i]
  BY <1>2
<1>5. /\ SetupCommits = {i \in DOMAIN branch : branch[i].by = "setup"}
      /\ SetupCommits' = {i \in DOMAIN branch' : branch'[i].by = "setup"}
  BY DEF SetupCommits
<1>6. \A i : i \in SetupCommits' <=>
        \/ i \in SetupCommits
        \/ i = Len(branch') /\ branch'[Len(branch')].by = "setup"
  BY <1>3, <1>4, <1>5
<1>7. Len(branch') \notin SetupCommits
  BY <1>3, <1>5
<1>8. Pushed => Pushed'
  BY <1>3, <1>4 DEF Pushed
<1>9. branch'[Len(branch')].by = "people" => Pushed'
  BY <1>3 DEF Pushed
<1> QED BY <1>6, <1>7, <1>8, <1>9

(* ... and a fork.                                                         *)
LEMMA CommitsForked ==
  ASSUME GitInv, Forks
  PROVE  /\ SetupCommits = {} /\ SetupCommits' = {}
         /\ ~Landed /\ ~Landed' /\ OnlyOne' /\ ~Pushed /\ branch' # <<>>
<1>1. /\ branch = <<>> /\ branch' = main /\ Len(main) = 1
      /\ main[1].by = "people" /\ main \in Seq(Commit)
  BY DEF GitInv, GitTypeOK, Forked, Forks
<1>2. DOMAIN branch = {} /\ DOMAIN branch' = {1} /\ branch' # <<>>
  BY <1>1, LenProperties, EmptySeq
<1>3. SetupCommits = {} /\ SetupCommits' = {}
  BY <1>1, <1>2 DEF SetupCommits
<1> QED BY <1>2, <1>3 DEF Landed, OnlyOne, Pushed

(* Papers decide nothing.                                                  *)
LEMMA PapersAside ==
  ASSUME NEW t, NEW u, \A p \in Path \ Papers : u[p] = t[p]
  PROVE  /\ hasTestRunner(u) <=> hasTestRunner(t)
         /\ Present(u, Sign) <=> Present(t, Sign)
         /\ Present(u, "setup.test") <=> Present(t, "setup.test")
<1>1. {"apps/web/package.json", "package.json", "vite.config.ts",
       "vitest.config.ts", "pyproject.toml", "pytest.ini", "conftest.py",
       "setup.test"} \subseteq Path \ Papers
  BY RepoAssumption DEF RepoFile, Papers
<1> QED BY <1>1 DEF hasTestRunner, PackageJson, Present, Sign

LEMMA BuiltTree ==
  ASSUME GitInv, Lands
  PROVE  \A p \in Path : TreeOf(branch')[p] =
           IF p \in DOMAIN call.files THEN call.files[p] ELSE TreeOf(branch)[p]
<1>1. TreeOf(branch') = Built1.tree
  BY CommitLands
<1>2. TreeOf(branch) \in Tree
  BY TreeTyped DEF Lands, GitInv, GitTypeOK
<1>3. \A p \in Path : With(TreeOf(branch), call.files)[p] =
        IF p \in DOMAIN call.files THEN call.files[p] ELSE TreeOf(branch)[p]
  BY <1>2, WithTyped DEF GitInv, GitTypeOK
<1> QED BY <1>1, <1>3 DEF Built1

(* While a request is under way the variables of the setup stand still.    *)
LEMMA ClientSetupStep ==
  ASSUME SetupInv, ClientStep, UNCHANGED setupVars
  PROVE  SetupInv'
<1> USE DEF SetupInv
<1>1. UNCHANGED <<phase, at, language, pack, found, consent, revisions,
                  sandbox, blind, proven, crashes>>
  BY DEF setupVars, decided, history
<1>2. /\ call'.op = call.op /\ call'.by = call.by /\ call'.files = call.files
      /\ call'.body = call.body
      /\ pull' = pull \/ (~Committing /\ pull' = call.body)
      /\ call.step \notin {"idle", "done", "rejected"}
      /\ call'.step # "idle"
      /\ branch' = branch \/ Forks \/ Lands
      /\ Committing /\ call'.step = "done" => Lands \/ Repeats
  BY ClientEffect, PullEffect DEF Answers
<1>3. at \in {"commit", "commitSetup", "open"}
  BY <1>2 DEF CallFits, Idle
<1>4. /\ phase \in Job /\ (branch = <<>> => phase = "spec")
      /\ Sign' = Sign
  BY <1>1, <1>3 DEF PhaseFits, Job, Sign
<1>5. GitInv'
  BY ClientGitStep
<1>6. TypeOK'
  BY <1>1, <1>5 DEF TypeOK, GitInv
<1>7. CallFits'
  BY <1>1, <1>2, <1>3, <1>4 DEF CallFits, Committing
<1> DEFINE Kept ==
      /\ branch # <<>> => branch' # <<>>
      /\ Committing /\ call'.step = "done" => branch' # <<>>
      /\ Landed' => Landed \/ call.by = "setup"
      /\ call.by = "setup" /\ call'.step = "done" => Landed'
      /\ OnceInv' /\ NoteInv' /\ ProvenInv'
      /\ at = "commitSetup" /\ call'.step # "done" =>
           (BranchTested' <=> BranchTested)
<1>8. ASSUME branch' = branch PROVE Kept
  <2>1. /\ (Landed' <=> Landed) /\ (OnlyOne' <=> OnlyOne)
        /\ (Pushed' <=> Pushed) /\ (BranchTested' <=> BranchTested)
        /\ (BranchSigned' <=> BranchSigned) /\ (BranchRuns' <=> BranchRuns)
        /\ (SandboxSigned' <=> SandboxSigned)
        /\ (SandboxRuns' <=> SandboxRuns)
    <3>1. SetupCommits' = SetupCommits
      BY <1>8 DEF SetupCommits
    <3> QED BY <1>1, <1>4, <1>8, <3>1, SandboxStill
            DEF Landed, OnlyOne, Pushed, BranchTested, BranchSigned,
                BranchRuns, TreeOf, Last, Present, hasTestRunner, PackageJson
  <2>2. Proves' <=> Proves
    BY <1>1, <1>2, <1>8 DEF Proves, With, TreeOf, Last
  <2>3. call.by = "setup" /\ call'.step = "done" => Landed'
    <3>1. SUFFICES ASSUME call.by = "setup", call'.step = "done"
                   PROVE  Landed
      BY <2>1
    <3>2. Committing
      BY <3>1 DEF CallFits
    <3>3. CASE Lands
      <4>1. branch' # branch
        BY <3>3, CommitLands
      <4> QED BY <1>8, <4>1
    <3>4. CASE Repeats
      <4>1. Len(branch) \in DOMAIN branch /\ branch[Len(branch)].by = "setup"
        BY <3>1, <3>4, TreeTyped, LenProperties
        DEF Repeats, Last, GitInv, GitTypeOK
      <4> QED BY <4>1 DEF Landed, SetupCommits
    <3> QED BY <1>2, <3>1, <3>2, <3>3, <3>4
  <2>4. Committing /\ call'.step = "done" => branch' # <<>>
    BY <1>2, <1>8 DEF Lands, Repeats
  <2>5. OnceInv' /\ NoteInv' /\ ProvenInv'
    BY <1>1, <1>2, <1>3, <2>1, <2>2 DEF OnceInv, NoteInv, ProvenInv, At
  <2> QED BY <1>8, <2>1, <2>3, <2>4, <2>5
<1>9. ASSUME Forks PROVE Kept
  <2>1. /\ ~Landed /\ ~Landed' /\ OnlyOne' /\ ~Pushed /\ branch' # <<>>
    BY <1>9, CommitsForked
  <2>2. phase = "spec" /\ at = "commit" /\ found = "none"
    BY <1>3, <1>4, <1>9 DEF Forks, PhaseFits
  <2>3. call.by # "setup"
    BY <2>2 DEF CallFits
  <2>4. OnceInv' /\ NoteInv' /\ ProvenInv'
    BY <1>1, <2>1, <2>2 DEF OnceInv, NoteInv, ProvenInv
  <2> QED BY <2>1, <2>2, <2>3, <2>4
<1>10. ASSUME Lands PROVE Kept
  <2>1. /\ branch' # <<>> /\ call'.step = "done" /\ Committing
        /\ branch # <<>> /\ branch \in Seq(Commit) /\ branch' \in Seq(Commit)
        /\ Len(branch') = Len(branch) + 1
        /\ \A i \in 1 .. Len(branch) : branch'[i] = branch[i]
        /\ branch'[Len(branch')].by = call.by
    BY <1>10, CommitLands DEF Lands, Built1, GitInv, GitTypeOK
  <2>2. /\ call.by # "setup" => SetupCommits' = SetupCommits
        /\ call.by = "setup" =>
             SetupCommits' = SetupCommits \cup {Len(branch')}
        /\ Pushed => Pushed'
    BY <2>1, CommitsAfter
  <2>3. \A p \in Path : TreeOf(branch')[p] =
          IF p \in DOMAIN call.files THEN call.files[p] ELSE TreeOf(branch)[p]
    BY <1>10, BuiltTree
  <2>4. CASE call.by = "setup"
    <3>1. at = "commitSetup" /\ Sign \in DOMAIN call.files
          /\ call.files[Sign] # Absent /\ DOMAIN call.files \subseteq Path
      BY <2>4 DEF CallFits, GitInv, GitTypeOK
    <3>2. BranchSigned'
      BY <1>1, <1>4, <2>3, <3>1 DEF BranchSigned, Present, TreeOf, Last
    <3>3. Landed' /\ (~Landed => OnlyOne')
      BY <2>2, <2>4 DEF Landed, OnlyOne
    <3>4. OnceInv'
      BY <1>1, <1>2, <2>1, <3>1, <3>2, <3>3 DEF OnceInv, At
    <3>5. NoteInv' /\ ProvenInv'
      BY <1>1, <2>1, <3>1, <3>3 DEF NoteInv, ProvenInv, At, PhaseFits
    <3> QED BY <2>1, <2>4, <3>3, <3>4, <3>5
  <2>5. CASE call.by # "setup"
    <3>1. at # "commitSetup" /\ DOMAIN call.files \subseteq Papers
      BY <2>5 DEF CallFits
    <3>2. \A p \in Path \ Papers : TreeOf(branch')[p] = TreeOf(branch)[p]
      BY <2>3, <3>1
    <3>3. /\ hasTestRunner(TreeOf(branch')) <=> hasTestRunner(TreeOf(branch))
          /\ Present(TreeOf(branch'), Sign) <=> Present(TreeOf(branch), Sign)
      BY <3>2, PapersAside
    <3>4. /\ BranchSigned' <=> BranchSigned
          /\ BranchRuns' <=> BranchRuns
      BY <1>1, <1>4, <3>3
      DEF BranchSigned, BranchRuns, TreeOf, Last, Present, hasTestRunner,
          PackageJson
    <3>5. (Landed' <=> Landed) /\ (OnlyOne' <=> OnlyOne)
      BY <2>2, <2>5 DEF Landed, OnlyOne
    <3>6. OnceInv' /\ NoteInv' /\ ProvenInv'
      BY <1>1, <1>3, <2>2, <3>1, <3>4, <3>5 DEF OnceInv, NoteInv, ProvenInv
    <3> QED BY <2>1, <2>5, <3>1, <3>5, <3>6
  <2> QED BY <2>4, <2>5
<1>11. Kept
  BY <1>2, <1>8, <1>9, <1>10
<1> HIDE DEF Kept
<1>15. BodyFits'
  <2>1. ~Committing => at = "open" /\ phase = "review"
    BY <1>3 DEF CallFits, PhaseFits
  <2> QED BY <1>1, <1>2, <2>1 DEF BodyFits, CallFits
<1>12. PhaseFits'
  <2>1. /\ branch # <<>> => branch' # <<>>
        /\ Committing /\ call'.step = "done" => branch' # <<>>
    BY <1>11 DEF Kept
  <2> QED BY <1>1, <2>1 DEF PhaseFits, CallFits, At
<1>13. LandedFits'
  <2>1. /\ Landed' => Landed \/ call.by = "setup"
        /\ call.by = "setup" /\ call'.step = "done" => Landed'
    BY <1>11 DEF Kept
  <2> QED BY <1>1, <2>1 DEF LandedFits, CallFits, PhaseFits, At
<1>14. OwnInv'
  <2>1. at = "commitSetup" /\ call'.step # "done" =>
          (BranchTested' <=> BranchTested)
    BY <1>11 DEF Kept
  <2> QED BY <1>1, <1>2, <1>3, <2>1 DEF OwnInv, At
<1> QED BY <1>5, <1>6, <1>7, <1>11, <1>12, <1>13, <1>14, <1>15 DEF Kept

(* Maintainers push, and open or close the pull request.                   *)
LEMMA PushSetupStep ==
  ASSUME SetupInv, Push, UNCHANGED setupVars
  PROVE  SetupInv'
<1> USE DEF SetupInv
<1>1. /\ UNCHANGED <<phase, at, language, pack, found, consent, revisions,
                     sandbox, blind, proven, crashes>>
      /\ call' = call /\ pull' = pull
  BY DEF setupVars, decided, history, Push
<1>2. PICK f \in HumanFiles :
        /\ f[1] \in Path /\ branch # <<>>
        /\ branch' \in Seq(Commit) /\ branch' # <<>>
        /\ Len(branch') = Len(branch) + 1
        /\ \A i \in 1 .. Len(branch) : branch'[i] = branch[i]
        /\ branch'[Len(branch')] = PushedOn(f)
        /\ TreeOf(branch') = PushedOn(f).tree
        /\ \A p \in Path : PushedOn(f).tree[p] =
             IF p = f[1] THEN f[2] ELSE TreeOf(branch)[p]
  BY PushEffect
<1>3. SetupCommits' = SetupCommits /\ Pushed'
  <2>1. branch'[Len(branch')].by = "people"
    BY <1>2 DEF PushedOn
  <2>2. branch \in Seq(Commit)
    BY DEF GitInv, GitTypeOK
  <2> QED BY <1>2, <2>1, <2>2, CommitsAfter
<1>4. (Landed' <=> Landed) /\ (OnlyOne' <=> OnlyOne) /\ Sign' = Sign
  BY <1>1, <1>3 DEF Landed, OnlyOne, Sign
<1>5. GitInv'
  BY PushStep
<1>6. TypeOK'
  BY <1>1, <1>5 DEF TypeOK, GitInv
<1>7. CallFits' /\ LandedFits'
  BY <1>1, <1>4 DEF CallFits, LandedFits, Committing, At
<1>8. PhaseFits' /\ BodyFits'
  BY <1>1, <1>2 DEF PhaseFits, BodyFits, At
<1>9. OnceInv'
  <2>1. NobodyRemovesRunner /\ BranchSigned => BranchSigned'
    <3>1. SUFFICES ASSUME NobodyRemovesRunner, TreeOf(branch)[Sign] # Absent
                   PROVE  TreeOf(branch')[Sign] # Absent
      BY <1>4 DEF BranchSigned, Present, TreeOf, Last
    <3>2. Sign \in Path /\ Sign \in {"vitest.config.ts", "pytest.ini"}
      BY RepoAssumption DEF Sign, RepoFile
    <3> QED BY <1>2, <3>1, <3>2 DEF NobodyRemovesRunner
  <2>2. SandboxSigned' <=> SandboxSigned
    BY <1>1, SandboxStill
  <2> QED BY <1>1, <1>4, <2>1, <2>2 DEF OnceInv, At
<1>10. NoteInv' /\ ProvenInv'
  BY <1>3 DEF NoteInv, ProvenInv
<1>11. OwnInv'
  <2>1. NobodyAddsSetupTest => (BranchTested' <=> BranchTested)
    <3>1. SUFFICES ASSUME NobodyAddsSetupTest
                   PROVE  TreeOf(branch')["setup.test"] =
                            TreeOf(branch)["setup.test"]
      BY DEF BranchTested, Present, TreeOf, Last
    <3>2. "setup.test" \in Path
      BY RepoAssumption DEF RepoFile
    <3> QED BY <1>2, <3>1, <3>2 DEF NobodyAddsSetupTest
  <2>2. SandboxTested' <=> SandboxTested
    BY <1>1, SandboxStill
  <2> QED BY <1>1, <2>1, <2>2 DEF OwnInv, At
<1> QED BY <1>5, <1>6, <1>7, <1>8, <1>9, <1>10, <1>11

(* Nothing but the pull request and what has happened changes.             *)
LEMMA StillStep ==
  ASSUME SetupInv, GitInv', UNCHANGED <<main, branch, call, setupVars>>,
         pull' = pull \/ pull' \notin Body
  PROVE  SetupInv'
<1> USE DEF SetupInv
<1>1. UNCHANGED <<phase, at, language, pack, found, consent, revisions,
                  sandbox, blind, proven, crashes>>
  BY DEF setupVars, decided, history
<1>2. SetupCommits' = SetupCommits
  BY DEF SetupCommits
<1>3. /\ (Landed' <=> Landed) /\ (OnlyOne' <=> OnlyOne)
      /\ (Pushed' <=> Pushed) /\ Sign' = Sign
      /\ TreeOf(branch)' = TreeOf(branch)
  BY <1>1, <1>2 DEF Landed, OnlyOne, Pushed, Sign, TreeOf, Last
<1>4. /\ (BranchTested' <=> BranchTested)
      /\ (BranchSigned' <=> BranchSigned) /\ (BranchRuns' <=> BranchRuns)
      /\ (SandboxSigned' <=> SandboxSigned)
      /\ (SandboxRuns' <=> SandboxRuns)
      /\ (SandboxTested' <=> SandboxTested)
  BY <1>1, <1>3, SandboxStill
  DEF BranchTested, BranchSigned, BranchRuns, Present, hasTestRunner,
      PackageJson
<1>5. (Same' <=> Same) /\ (Proves' <=> Proves)
  BY <1>1, <1>3 DEF Same, Proves, With
<1>6. TypeOK'
  BY <1>1 DEF TypeOK, GitInv
<1>7. CallFits' /\ PhaseFits' /\ BodyFits' /\ LandedFits'
  BY <1>1, <1>3 DEF CallFits, PhaseFits, BodyFits, LandedFits, Committing, At
<1> QED BY <1>1, <1>3, <1>4, <1>5, <1>6, <1>7
        DEF OnceInv, NoteInv, ProvenInv, OwnInv, At

LEMMA SetupStep ==
  ASSUME SetupInv, [Next]_vars
  PROVE  SetupInv'
<1>1. CASE Handler
  BY <1>1, ProduceSpecStep, SpecCommittedStep, ProducePlanStep,
     PlanPresentedStep, OpenSandboxStep, DetectStep, DetectNothingStep,
     BootstrapGreenStep, BootstrapNotGreenStep, SetupCommittedStep,
     CommitTaskStep, TasksCommittedStep, ReviewStep, PullRequestOpenedStep
  DEF Handler
<1>2. CASE CutShort \/ Approve \/ RequestChanges
  BY <1>2, CutShortStep, GateStep
<1>3. CASE ClientStep /\ UNCHANGED setupVars
  BY <1>3, ClientSetupStep
<1>4. CASE People /\ UNCHANGED setupVars
  <2>1. CASE Push
    BY <1>4, <2>1, PushSetupStep
  <2>2. CASE OpenOrClosePull
    <3>1. GitInv' /\ UNCHANGED <<main, branch, call>> /\ pull' \notin Body
      BY <2>2, PullStep DEF SetupInv, OpenOrClosePull, NoPull, Body
    <3> QED BY <1>4, <3>1, StillStep
  <2> QED BY <1>4, <2>1, <2>2 DEF People
<1>5. CASE UNCHANGED vars
  <2>1. UNCHANGED <<remote, call, disturbances, main, branch, pull, setupVars>>
    BY <1>5 DEF vars, gitVars, remote
  <2>2. GitInv'
    BY <2>1, BeginStep DEF SetupInv
  <2> QED BY <2>1, <2>2, StillStep
<1> QED BY <1>1, <1>2, <1>3, <1>4, <1>5 DEF Next

-----------------------------------------------------------------------------
(* A step that adds a setup commit is the answer to the call for it.       *)
LEMMA SetupLands ==
  ASSUME SetupInv, [Next]_vars, SetupCommitLands
  PROVE  Lands /\ call.by = "setup" /\ UNCHANGED setupVars
         /\ call.step # "done"
<1> USE DEF SetupInv
<1>1. SetupCommits' # SetupCommits
  <2>1. Cardinality(SetupCommits) \in Nat
    <3>1. IsFiniteSet(1 .. Len(branch))
      BY FS_Interval DEF GitInv, GitTypeOK
    <3>2. SetupCommits \subseteq 1 .. Len(branch)
      BY LenProperties DEF SetupCommits, GitInv, GitTypeOK
    <3> QED BY <3>1, <3>2, FS_Subset, FS_CardinalityType
  <2>2. SUFFICES ASSUME SetupCommits' = SetupCommits
                 PROVE  Cardinality(SetupCommits') = Cardinality(SetupCommits)
    BY <2>1 DEF SetupCommitLands
  <2> QED BY <2>2
<1>2. branch' # branch
  BY <1>1 DEF SetupCommits
<1>3. (ClientStep \/ Push) /\ UNCHANGED setupVars
  BY <1>2 DEF Next, Handler, ProduceSpec, SpecCommitted, ProducePlan,
     PlanPresented, OpenSandbox, Detect, DetectNothing, BootstrapGreen,
     BootstrapNotGreen, SetupCommitted, CommitTask, TasksCommitted, Review,
     PullRequestOpened, CutShort, Approve, RequestChanges, People,
     OpenOrClosePull, Answered, remote, gitVars, vars
<1>4. ~Push
  <2>1. SUFFICES ASSUME Push PROVE SetupCommits' = SetupCommits
    BY <1>1
  <2>2. PICK f \in HumanFiles :
          /\ branch # <<>> /\ branch' \in Seq(Commit)
          /\ Len(branch') = Len(branch) + 1
          /\ \A i \in 1 .. Len(branch) : branch'[i] = branch[i]
          /\ branch'[Len(branch')] = PushedOn(f)
    BY <2>1, PushEffect
  <2>3. branch'[Len(branch')].by = "people" /\ branch \in Seq(Commit)
    BY <2>2 DEF PushedOn, GitInv, GitTypeOK
  <2> QED BY <2>2, <2>3, CommitsAfter
<1>5. (Forks \/ Lands) /\ call.step # "done"
  BY <1>2, <1>3, <1>4, ClientEffect DEF Answers
<1>6. ~Forks
  BY <1>1, CommitsForked
<1>7. call.by = "setup"
  <2>1. SUFFICES ASSUME call.by # "setup" PROVE SetupCommits' = SetupCommits
    BY <1>1
  <2>2. /\ branch # <<>> /\ branch \in Seq(Commit) /\ branch' \in Seq(Commit)
        /\ Len(branch') = Len(branch) + 1
        /\ \A i \in 1 .. Len(branch) : branch'[i] = branch[i]
        /\ branch'[Len(branch')].by = call.by
    BY <1>5, <1>6, CommitLands DEF Lands, Built1, GitInv, GitTypeOK
  <2> QED BY <2>1, <2>2, CommitsAfter
<1> QED BY <1>3, <1>5, <1>6, <1>7

LEMMA HarmlessStep ==
  ASSUME SetupInv, [Next]_vars
  PROVE  SetupProven /\ (NobodyAddsSetupTest => OwnTestsUntouched)
<1> USE DEF SetupInv
<1>1. SUFFICES ASSUME SetupCommitLands
               PROVE  /\ ~Pushed => TreeOf(branch') = proven
                      /\ NobodyAddsSetupTest /\ ~blind =>
                           \A p \in {"own.test", "setup.test"} :
                             Present(TreeOf(branch), p) =>
                               TreeOf(branch')[p] = TreeOf(branch)[p]
  BY DEF SetupProven, OwnTestsUntouched
<1>2. /\ Lands /\ call.by = "setup" /\ call.step # "done"
      /\ at = "commitSetup"
  BY <1>1, SetupLands DEF CallFits
<1>3. TreeOf(branch') = With(TreeOf(branch), call.files)
  BY <1>2, CommitLands DEF Built1
<1>4. \A p \in Path : TreeOf(branch')[p] =
        IF p \in DOMAIN call.files THEN call.files[p] ELSE TreeOf(branch)[p]
  BY <1>2, BuiltTree
<1>5. ~Pushed => TreeOf(branch') = proven
  BY <1>2, <1>3 DEF ProvenInv, Proves, At
<1>6. "own.test" \in Path /\ "setup.test" \in Path
  BY RepoAssumption DEF RepoFile
<1>7. TreeOf(branch')["own.test"] = TreeOf(branch)["own.test"]
  BY <1>2, <1>4, <1>6 DEF CallFits
<1>8. ASSUME NobodyAddsSetupTest, ~blind, Present(TreeOf(branch), "setup.test")
      PROVE  TreeOf(branch')["setup.test"] = TreeOf(branch)["setup.test"]
  BY <1>2, <1>4, <1>6, <1>8 DEF OwnInv, BranchTested, At
<1> QED BY <1>5, <1>7, <1>8

LEMMA WorkKeptByAll ==
  ASSUME SetupInv, [Next]_vars, branch' # branch
  PROVE  HistoryKept /\ OnlyNamedFilesChange
<1>1. ClientStep \/ Push
  BY DEF Next, Handler, ProduceSpec, SpecCommitted, ProducePlan,
     PlanPresented, OpenSandbox, Detect, DetectNothing, BootstrapGreen,
     BootstrapNotGreen, SetupCommitted, CommitTask, TasksCommitted, Review,
     PullRequestOpened, CutShort, Approve, RequestChanges, People,
     OpenOrClosePull, Answered, remote, gitVars, vars
<1> QED BY <1>1, WorkKeptStep DEF SetupInv

(* At most one, counted.                                                   *)
LEMMA OnceCounted ==
  ASSUME SetupInv, NobodyRemovesRunner
  PROVE  SetupOnce
<1>1. SUFFICES ASSUME ~blind PROVE Cardinality(SetupCommits) <= 1
  BY DEF SetupOnce
<1>2. OnlyOne
  BY <1>1 DEF SetupInv, OnceInv
<1>3. CASE SetupCommits = {}
  BY <1>3, FS_EmptySet
<1>4. CASE SetupCommits # {}
  <2>1. PICK i \in SetupCommits : TRUE
    BY <1>4
  <2>2. SetupCommits = {i}
    BY <1>2, <2>1 DEF OnlyOne
  <2> QED BY <2>2, FS_Singleton
<1> QED BY <1>3, <1>4

-----------------------------------------------------------------------------
(* The invariant the theorems rest on, by induction.                       *)
THEOREM SetupInvariant == Spec => []SetupInv
<1>1. Init => SetupInv
  BY InitSetup
<1>2. SetupInv /\ [Next]_vars => SetupInv'
  BY SetupStep
<1> QED BY <1>1, <1>2, PTL DEF Spec

(* Every variable keeps its type: the branch and its pull request, the     *)
(* call under way, and the decisions on the test setup.                    *)
THEOREM TestSetupTypeCorrect == Spec => []TypeOK
<1>1. SetupInv => TypeOK
  BY DEF SetupInv
<1> QED BY <1>1, SetupInvariant, PTL

(* GitHub turns down no more requests than people and the network have     *)
(* interfered with: a call that was cut short anywhere may be repeated.    *)
THEOREM RetriesAcceptedAlways == Spec => []RetriesAccepted
<1>1. SetupInv => RetriesAccepted
  BY DEF SetupInv, GitInv, GitTypeOK, Explained, RetriesAccepted
<1> QED BY <1>1, SetupInvariant, PTL

(* No request loses a commit or touches a file it was not made for, though *)
(* the head is read and the branch moved by separate requests.             *)
THEOREM WorkKeptAlways == Spec => WorkKept
<1>1. SetupInv /\ [Next]_vars => [HistoryKept /\ OnlyNamedFilesChange]_branch
  BY WorkKeptByAll
<1> QED BY <1>1, SetupInvariant, PTL DEF Spec, WorkKept

(* A pull request that the integrator opened announces a setup exactly     *)
(* when one is on the branch, if nobody else pushes to it.                 *)
THEOREM NoteTrueAlways == Spec => []NoteTrue
<1>1. SetupInv => NoteTrue
  BY DEF SetupInv, NoteTrue, NoteInv, BodyFits, LandedFits, Landed
<1> QED BY <1>1, SetupInvariant, PTL

(* A restart after the setup commit has landed makes no second one, while  *)
(* the files can be listed and nobody removes the runner's configuration.  *)
THEOREM SetupMadeOnce ==
  ASSUME NobodyRemovesRunner
  PROVE  Spec => []SetupOnce
<1>1. SetupInv => SetupOnce
  BY OnceCounted
<1> QED BY <1>1, SetupInvariant, PTL

(* What is committed is, file by file, what was proven, and overwrites no  *)
(* test of the repository, while nobody else adds a setup test meanwhile.  *)
THEOREM SetupHarmlessAlways ==
  ASSUME NobodyAddsSetupTest
  PROVE  Spec => SetupHarmless
<1>1. SetupInv /\ [Next]_vars => [SetupProven /\ OwnTestsUntouched]_vars
  BY HarmlessStep
<1> QED BY <1>1, SetupInvariant, PTL DEF Spec, SetupHarmless
=============================================================================
