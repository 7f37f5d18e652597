---------------------------- MODULE JobQueueProofs ----------------------------
(***************************************************************************)
(* What holds of the job queue for any number of jobs and crashes, any     *)
(* finite number of workers, any lease and any backoff, and handlers that  *)
(* take any time.  The argument: no two workers have the same claim of a   *)
(* job (ClaimsUnique), so at most one has the claim the row shows; another *)
(* worker can take the job from it only when the lease has run out, which  *)
(* was counted when it did; so each overrun pays for one stray, and each   *)
(* stray for one settled row that is changed (OverrunsPay).                *)
(***************************************************************************)
EXTENDS JobQueue, FiniteSetTheorems, TLAPS

USE DEF table, vars

LEMMA AnswerTypes ==
  ASSUME TypeOK, NEW w \in Worker, holding[w] \in JobId,
         NEW outcome \in Status, Answer(w, outcome)
  PROVE  /\ now' \in Nat
         /\ status' \in [JobId -> Status]
         /\ attempts' \in [JobId -> Nat]
         /\ holding' \in [Worker -> JobId \cup {NoJob}]
         /\ claim' \in [Worker -> Nat]
         /\ crashes' \in [JobId -> Nat]
         /\ overruns' \in [JobId -> Nat]
         /\ revised' \in [JobId -> Nat]
BY DEF TypeOK, Answer, LetGo

(* Every variable stays within its type, whatever the workers do.          *)
LEMMA TypeStep == TypeOK /\ [Next]_vars => TypeOK'
<1> SUFFICES ASSUME TypeOK, [Next]_vars PROVE TypeOK'
  OBVIOUS
<1> USE PolicyAssumption, BoundsAssumption, NoJobAssumption
<1> USE DEF TypeOK, Status
<1>1. ASSUME NEW j \in JobId, EnqueueJob(j) PROVE TypeOK'
  BY <1>1 DEF EnqueueJob
<1>2. ASSUME NEW w \in Worker, NEW j \in JobId, ClaimNextJob(w, j)
      PROVE TypeOK'
  <2>1. /\ status' \in [JobId -> Status] /\ attempts' \in [JobId -> Nat]
        /\ lockedAt' \in [JobId -> Nat]
    BY <1>2 DEF ClaimNextJob
  <2>2. /\ holding' \in [Worker -> JobId \cup {NoJob}]
        /\ claim' \in [Worker -> Nat]
    BY <1>2 DEF ClaimNextJob
  <2> QED BY <1>2, <2>1, <2>2 DEF ClaimNextJob
<1>3. ASSUME NEW w \in Worker, MarkJobDone(w) PROVE TypeOK'
  BY <1>3, AnswerTypes DEF MarkJobDone
<1>4. ASSUME NEW w \in Worker, DeadLetter(w) PROVE TypeOK'
  BY <1>4, AnswerTypes DEF DeadLetter
<1>5. ASSUME NEW w \in Worker, Retry(w) PROVE TypeOK'
  <2>1. holding[w] \in JobId /\ attempts[holding[w]] \in 0 .. MaxAttempts
    BY <1>5 DEF Retry, OutOfAttempts
  <2>2. RetryDue(holding[w]) \in Nat
    BY <2>1 DEF RetryDue
  <2> QED BY <1>5, <2>1, <2>2, AnswerTypes DEF Retry
<1>6. ASSUME NEW w \in Worker, Crash(w) PROVE TypeOK'
  <2>1. /\ holding' \in [Worker -> JobId \cup {NoJob}]
        /\ claim' \in [Worker -> Nat]
    BY <1>6 DEF Crash, LetGo
  <2>2. crashes' \in [JobId -> Nat]
    BY <1>6 DEF Crash
  <2> QED BY <1>6, <2>1, <2>2 DEF Crash
<1>7. CASE Tick
  BY <1>7 DEF Tick
<1>8. CASE UNCHANGED vars
  BY <1>8
<1> QED
  BY <1>1, <1>2, <1>3, <1>4, <1>5, <1>6, <1>7, <1>8 DEF Next, FailOrRetryJob

(* Every state of every run is well-typed: TypeOK is inductive.            *)
THEOREM TypeCorrect == Spec => []TypeOK
<1>1. Init => TypeOK
  BY DEF Init, TypeOK, Status
<1> QED
  BY <1>1, TypeStep, PTL DEF Spec

-----------------------------------------------------------------------------
(* A worker that lets go of its job leaves the claims of the others alone. *)
LEMMA LetGoKeepsClaims ==
  ASSUME TypeOK, ClaimsUnique, NEW w \in Worker, LetGo(w),
         attempts' = attempts
  PROVE  ClaimsUnique'
BY NoJobAssumption DEF TypeOK, ClaimsUnique, LetGo

(* Claims are numbered: the next is greater than all there were.           *)
LEMMA ClaimsStep ==
  TypeOK /\ ClaimsUnique /\ [Next]_vars => ClaimsUnique'
<1> SUFFICES ASSUME TypeOK, ClaimsUnique, [Next]_vars PROVE ClaimsUnique'
  OBVIOUS
<1>1. ASSUME NEW j \in JobId, EnqueueJob(j) PROVE ClaimsUnique'
  BY <1>1 DEF EnqueueJob, ClaimsUnique
<1>2. ASSUME NEW w \in Worker, NEW j \in JobId, ClaimNextJob(w, j)
      PROVE ClaimsUnique'
  <2>1. /\ attempts' = [attempts EXCEPT ![j] = @ + 1]
        /\ holding' = [holding EXCEPT ![w] = j]
        /\ claim' = [claim EXCEPT ![w] = attempts[j] + 1]
        /\ holding[w] = NoJob
    BY <1>2 DEF ClaimNextJob
  <2>2. SUFFICES ASSUME NEW v \in Worker, NEW u \in Worker,
                        holding'[v] # NoJob, holding'[u] = holding'[v]
                 PROVE  /\ claim'[v] <= attempts'[holding'[v]]
                        /\ claim'[v] = claim'[u] => v = u
    BY DEF ClaimsUnique
  <2>3. ASSUME NEW x \in Worker, x # w
        PROVE  holding'[x] = holding[x] /\ claim'[x] = claim[x]
    BY <2>1, <2>3 DEF TypeOK
  <2>4. /\ holding'[w] = j /\ claim'[w] = attempts[j] + 1
        /\ attempts'[j] = attempts[j] + 1
        /\ attempts[j] \in Nat
    BY <2>1 DEF TypeOK
  <2>5. ASSUME NEW x \in Worker, x # w, holding[x] = j
        PROVE  claim[x] <= attempts[j] /\ claim[x] \in Nat
    BY <2>5, NoJobAssumption DEF ClaimsUnique, TypeOK
  <2>6. CASE v # w /\ u # w
    <3>1. /\ claim[v] <= attempts[holding[v]]
          /\ claim[v] = claim[u] => v = u
      BY <2>2, <2>3, <2>6 DEF ClaimsUnique
    <3>2. holding[v] \in JobId /\ claim[v] \in Nat
      BY <2>2, <2>3, <2>6 DEF TypeOK
    <3>3. attempts'[holding[v]] \in {attempts[holding[v]],
                                     attempts[holding[v]] + 1}
      BY <2>1, <3>2 DEF TypeOK
    <3>4. attempts[holding[v]] \in Nat
      BY <3>2 DEF TypeOK
    <3> QED BY <2>3, <2>6, <3>1, <3>2, <3>3, <3>4
  <2>7. CASE v = w /\ u # w
    BY <2>2, <2>3, <2>4, <2>5, <2>7
  <2>8. CASE v # w /\ u = w
    BY <2>2, <2>3, <2>4, <2>5, <2>8
  <2>9. CASE v = w /\ u = w
    BY <2>4, <2>9
  <2> QED BY <2>6, <2>7, <2>8, <2>9
<1>3. ASSUME NEW w \in Worker, MarkJobDone(w) PROVE ClaimsUnique'
  BY <1>3, LetGoKeepsClaims DEF MarkJobDone, Answer
<1>4. ASSUME NEW w \in Worker, FailOrRetryJob(w) PROVE ClaimsUnique'
  BY <1>4, LetGoKeepsClaims DEF FailOrRetryJob, DeadLetter, Retry, Answer
<1>5. ASSUME NEW w \in Worker, Crash(w) PROVE ClaimsUnique'
  BY <1>5, LetGoKeepsClaims DEF Crash
<1>6. CASE Tick
  BY <1>6 DEF Tick, ClaimsUnique
<1>7. CASE UNCHANGED vars
  BY <1>7 DEF ClaimsUnique
<1> QED
  BY <1>1, <1>2, <1>3, <1>4, <1>5, <1>6, <1>7 DEF Next

(* At most one worker has the claim that the row of a job shows.           *)
LEMMA OneClaim ==
  ASSUME ClaimsUnique, NEW j \in JobId, NEW v \in Worker, NEW w \in Worker,
         HasClaim(v, j), HasClaim(w, j)
  PROVE  v = w
BY NoJobAssumption DEF ClaimsUnique, HasClaim

-----------------------------------------------------------------------------
(* What a step does to one job.                                            *)

(* Nothing that its workers or its lease could tell.                       *)
Same(j) ==
  /\ Holders(j)' = Holders(j)
  /\ \A v \in Worker : HasClaim(v, j)' <=> HasClaim(v, j)

LEMMA SameView ==
  ASSUME NEW j \in JobId, Same(j)
  PROVE  /\ Strays(j)' = Strays(j)
         /\ Claimed(j)' <=> Claimed(j)
         /\ now' = now /\ lockedAt'[j] = lockedAt[j] => (Late(j)' <=> Late(j))
<1>1. Holders(j) \subseteq Worker
  BY DEF Holders
<1>2. Strays(j)' = Strays(j)
  BY <1>1 DEF Same, Strays
<1>3. Claimed(j)' <=> Claimed(j)
  BY DEF Same, Claimed
<1> QED BY <1>2, <1>3 DEF Late

(* Another job's worker comes or goes.                                     *)
LEMMA Elsewhere ==
  ASSUME TypeOK, NEW j \in JobId, NEW w \in Worker, holding[w] # j,
         holding'[w] # j,
         \A v \in Worker : v # w =>
           holding'[v] = holding[v] /\ claim'[v] = claim[v],
         status'[j] = status[j], attempts'[j] = attempts[j]
  PROVE  Same(j)
<1>1. \A v \in Worker : HasClaim(v, j)' <=> HasClaim(v, j)
  BY DEF HasClaim
<1>2. Holders(j)' = Holders(j)
  BY DEF Holders
<1> QED BY <1>1, <1>2 DEF Same

(* The workers at a job are its strays and the one that has the claim.     *)
LEMMA HoldersCount ==
  ASSUME ClaimsUnique, NEW j \in JobId
  PROVE  /\ IsFiniteSet(Holders(j)) /\ IsFiniteSet(Strays(j))
         /\ Cardinality(Holders(j)) \in Nat /\ Cardinality(Strays(j)) \in Nat
         /\ Cardinality(Holders(j))
              = Cardinality(Strays(j)) + (IF Claimed(j) THEN 1 ELSE 0)
         /\ \A v \in Worker : HasClaim(v, j) =>
              v \notin Strays(j) /\ Holders(j) = Strays(j) \cup {v}
         /\ ~Claimed(j) => Holders(j) = Strays(j)
<1>1. Holders(j) \in SUBSET Worker /\ Strays(j) \in SUBSET Worker
  BY DEF Holders, Strays
<1>2. IsFiniteSet(Holders(j)) /\ IsFiniteSet(Strays(j))
  BY <1>1, WorkerAssumption, FS_Subset
<1>3. Cardinality(Holders(j)) \in Nat /\ Cardinality(Strays(j)) \in Nat
  BY <1>2, FS_CardinalityType
<1>4. ASSUME NEW v \in Worker, HasClaim(v, j)
      PROVE  v \notin Strays(j) /\ Holders(j) = Strays(j) \cup {v}
  <2>1. v \in Holders(j)
    BY <1>4 DEF HasClaim, Holders
  <2>2. \A u \in Holders(j) : HasClaim(u, j) => u = v
    BY <1>1, <1>4, OneClaim
  <2> QED BY <1>4, <2>1, <2>2 DEF Strays
<1>5. ~Claimed(j) => Holders(j) = Strays(j)
  BY <1>1 DEF Claimed, Strays
<1>6. CASE Claimed(j)
  <2>1. PICK v \in Worker : HasClaim(v, j)
    BY <1>6 DEF Claimed
  <2>2. Cardinality(Strays(j) \cup {v}) = Cardinality(Strays(j)) + 1
    BY <1>2, <1>4, <2>1, FS_AddElement
  <2> QED BY <1>2, <1>3, <1>4, <1>5, <1>6, <2>1, <2>2
<1> QED BY <1>2, <1>3, <1>4, <1>5, <1>6

(* A claim: everybody who was at the job is a stray now.                   *)
LEMMA ClaimEffect ==
  ASSUME TypeOK, ClaimsUnique, NEW w \in Worker, NEW j \in JobId,
         ClaimNextJob(w, j)
  PROVE  /\ w \notin Holders(j)
         /\ \A v \in Worker : HasClaim(v, j)' <=> v = w
         /\ Strays(j)' = Holders(j)
         /\ Claimed(j)' /\ ~Late(j)'
         /\ Claimed(j) => Late(j)
         /\ \A k \in JobId : k # j => Same(k)
<1>1. /\ holding[w] = NoJob /\ Claimable(j) /\ now' = now
      /\ status' = [status EXCEPT ![j] = "in_progress"]
      /\ attempts' = [attempts EXCEPT ![j] = @ + 1]
      /\ lockedAt' = [lockedAt EXCEPT ![j] = now]
      /\ holding' = [holding EXCEPT ![w] = j]
      /\ claim' = [claim EXCEPT ![w] = attempts[j] + 1]
  BY DEF ClaimNextJob
<1>2. ASSUME NEW v \in Worker, v # w
      PROVE  holding'[v] = holding[v] /\ claim'[v] = claim[v]
  BY <1>1, <1>2 DEF TypeOK
<1>3. /\ holding'[w] = j /\ claim'[w] = attempts[j] + 1
      /\ status'[j] = "in_progress" /\ attempts'[j] = attempts[j] + 1
      /\ lockedAt'[j] = now
      /\ attempts[j] \in Nat
  BY <1>1 DEF TypeOK
<1>4. w \notin Holders(j)
  BY <1>1, NoJobAssumption DEF Holders
<1>5. ASSUME NEW v \in Worker PROVE HasClaim(v, j)' <=> v = w
  <2>1. CASE v = w
    BY <1>3, <2>1 DEF HasClaim
  <2>2. CASE v # w /\ holding[v] = j
    <3>1. claim[v] <= attempts[j] /\ claim[v] \in Nat
      BY <2>2, NoJobAssumption DEF ClaimsUnique, TypeOK
    <3> QED BY <1>2, <1>3, <2>2, <3>1 DEF HasClaim
  <2>3. CASE v # w /\ holding[v] # j
    BY <1>2, <2>3 DEF HasClaim
  <2> QED BY <2>1, <2>2, <2>3
<1>6. Strays(j)' = Holders(j)
  <2>1. Holders(j)' = Holders(j) \cup {w}
    BY <1>2, <1>3 DEF Holders
  <2>2. Holders(j) \subseteq Worker
    BY DEF Holders
  <2> QED BY <1>4, <1>5, <2>1, <2>2 DEF Strays
<1>7. Claimed(j)'
  BY <1>5 DEF Claimed
<1>8. ~Late(j)'
  <2>1. now \in Nat /\ Lease \in Nat
    BY PolicyAssumption DEF TypeOK
  <2> QED BY <1>1, <1>3, <2>1 DEF Late
<1>9. Claimed(j) => Late(j)
  <2>1. Claimed(j) => lockedAt[j] < now - Lease
    BY <1>1 DEF Claimed, HasClaim, Claimable, LeaseExpired
  <2>2. lockedAt[j] \in Nat /\ now \in Nat /\ Lease \in Nat
    BY PolicyAssumption DEF TypeOK
  <2> QED BY <2>1, <2>2 DEF Late
<1>10. ASSUME NEW k \in JobId, k # j PROVE Same(k)
  <2>1. holding[w] # k /\ holding'[w] # k
    BY <1>1, <1>3, <1>10, NoJobAssumption
  <2>2. status'[k] = status[k] /\ attempts'[k] = attempts[k]
    BY <1>1, <1>10 DEF TypeOK
  <2> QED BY <1>2, <2>1, <2>2, Elsewhere
<1> QED BY <1>4, <1>5, <1>6, <1>7, <1>8, <1>9, <1>10

(* An answer: whoever else is at the job is a stray now, entitled or not.  *)
LEMMA AnswerEffect ==
  ASSUME TypeOK, NEW w \in Worker, NEW j \in JobId, holding[w] = j,
         NEW outcome \in {"done", "failed", "queued"}, Answer(w, outcome)
  PROVE  /\ w \in Holders(j)
         /\ status'[j] = outcome
         /\ \A v \in Worker : ~HasClaim(v, j)'
         /\ Strays(j)' = Holders(j) \ {w}
         /\ ~Claimed(j)' /\ ~Late(j)'
         /\ revised'[j] = IF status[j] \in Settled \ {outcome}
                          THEN revised[j] + 1 ELSE revised[j]
         /\ \A k \in JobId : k # j =>
              /\ Same(k)
              /\ status'[k] = status[k] /\ revised'[k] = revised[k]
<1>1. /\ status' = [status EXCEPT ![j] = outcome]
      /\ revised' = [revised EXCEPT ![j] =
           IF status[j] \in Settled \ {outcome} THEN @ + 1 ELSE @]
      /\ holding' = [holding EXCEPT ![w] = NoJob]
      /\ claim' = [claim EXCEPT ![w] = 0]
      /\ attempts' = attempts
  BY DEF Answer, LetGo
<1>2. \A v \in Worker : v # w =>
        holding'[v] = holding[v] /\ claim'[v] = claim[v]
  BY <1>1 DEF TypeOK
<1>3. holding'[w] = NoJob /\ status'[j] = outcome
  BY <1>1 DEF TypeOK
<1>4. \A v \in Worker : ~HasClaim(v, j)'
  BY <1>3 DEF HasClaim
<1>5. Holders(j)' = Holders(j) \ {w}
  BY <1>2, <1>3, NoJobAssumption DEF Holders
<1>6. Strays(j)' = Holders(j) \ {w}
  <2>1. Holders(j) \subseteq Worker
    BY DEF Holders
  <2> QED BY <1>4, <1>5, <2>1 DEF Strays
<1>7. ~Claimed(j)' /\ ~Late(j)'
  BY <1>4 DEF Claimed, Late
<1>8. ASSUME NEW k \in JobId, k # j
      PROVE  Same(k) /\ status'[k] = status[k] /\ revised'[k] = revised[k]
  <2>1. status'[k] = status[k] /\ revised'[k] = revised[k]
    BY <1>1, <1>8 DEF TypeOK
  <2>2. holding[w] # k /\ holding'[w] # k /\ attempts'[k] = attempts[k]
    BY <1>1, <1>3, <1>8, NoJobAssumption
  <2> QED BY <1>2, <2>1, <2>2, Elsewhere
<1>9. revised'[j] = IF status[j] \in Settled \ {outcome}
                    THEN revised[j] + 1 ELSE revised[j]
  BY <1>1 DEF TypeOK
<1>10. w \in Holders(j)
  BY DEF Holders
<1> QED BY <1>3, <1>4, <1>6, <1>7, <1>8, <1>9, <1>10

(* The three answers there are.                                            *)
LEMMA Answers ==
  ASSUME TypeOK, NEW w \in Worker, MarkJobDone(w) \/ FailOrRetryJob(w)
  PROVE  /\ holding[w] \in JobId
         /\ \E outcome \in {"done", "failed", "queued"} :
              /\ Answer(w, outcome)
              /\ outcome = "queued" => attempts[holding[w]] < MaxAttempts
              /\ \A k \in JobId : k # holding[w] => lockedAt'[k] = lockedAt[k]
<1>1. holding[w] \in JobId
  BY DEF MarkJobDone, FailOrRetryJob, DeadLetter, Retry, TypeOK
<1>2. CASE MarkJobDone(w)
  BY <1>1, <1>2 DEF MarkJobDone
<1>3. CASE DeadLetter(w)
  BY <1>1, <1>3 DEF DeadLetter
<1>4. CASE Retry(w)
  <2>1. attempts[holding[w]] < MaxAttempts
    BY <1>1, <1>4, PolicyAssumption DEF Retry, OutOfAttempts, TypeOK
  <2>2. \A k \in JobId : k # holding[w] => lockedAt'[k] = lockedAt[k]
    BY <1>1, <1>4 DEF Retry, TypeOK
  <2> QED BY <1>1, <1>4, <2>1, <2>2 DEF Retry
<1> QED BY <1>2, <1>3, <1>4 DEF FailOrRetryJob

(* A death: one worker less, and nobody else notices.                      *)
LEMMA CrashEffect ==
  ASSUME TypeOK, NEW w \in Worker, Crash(w), NEW j \in JobId, holding[w] = j
  PROVE  /\ w \in Holders(j)
         /\ \A v \in Worker : HasClaim(v, j)' <=> HasClaim(v, j) /\ v # w
         /\ Strays(j)' = Strays(j) \ {w}
         /\ Late(j)' => Late(j)
         /\ crashes'[j] = crashes[j] + 1
         /\ \A k \in JobId : k # j => Same(k) /\ crashes'[k] = crashes[k]
<1>1. /\ holding' = [holding EXCEPT ![w] = NoJob]
      /\ claim' = [claim EXCEPT ![w] = 0]
      /\ crashes' = [crashes EXCEPT ![j] = @ + 1]
      /\ now' = now /\ status' = status /\ attempts' = attempts
      /\ lockedAt' = lockedAt
  BY DEF Crash, LetGo
<1>2. \A v \in Worker : v # w =>
        holding'[v] = holding[v] /\ claim'[v] = claim[v]
  BY <1>1 DEF TypeOK
<1>3. holding'[w] = NoJob
  BY <1>1 DEF TypeOK
<1>4. ASSUME NEW v \in Worker
      PROVE  HasClaim(v, j)' <=> HasClaim(v, j) /\ v # w
  <2>1. CASE v = w
    BY <1>3, <2>1, NoJobAssumption DEF HasClaim
  <2>2. CASE v # w
    BY <1>1, <1>2, <2>2 DEF HasClaim
  <2> QED BY <2>1, <2>2
<1>5. Strays(j)' = Strays(j) \ {w}
  <2>1. Holders(j)' = Holders(j) \ {w}
    BY <1>2, <1>3, NoJobAssumption DEF Holders
  <2>2. Holders(j) \subseteq Worker
    BY DEF Holders
  <2> QED BY <1>4, <2>1, <2>2 DEF Strays
<1>6. Late(j)' => Late(j)
  BY <1>1, <1>4 DEF Late, Claimed
<1>7. crashes'[j] = crashes[j] + 1
  BY <1>1 DEF TypeOK
<1>8. ASSUME NEW k \in JobId, k # j
      PROVE  Same(k) /\ crashes'[k] = crashes[k]
  <2>1. crashes'[k] = crashes[k]
    BY <1>1, <1>8 DEF TypeOK
  <2>2. holding[w] # k /\ holding'[w] # k
    BY <1>3, <1>8, NoJobAssumption
  <2> QED BY <1>1, <1>2, <2>1, <2>2, Elsewhere
<1>9. w \in Holders(j)
  BY DEF Holders
<1> QED BY <1>4, <1>5, <1>6, <1>7, <1>8, <1>9

(* Neither a new job nor the clock changes who is at what; the clock       *)
(* counts the claims that it outruns.                                      *)
LEMMA EnqueueEffect ==
  ASSUME TypeOK, NEW i \in JobId, EnqueueJob(i), NEW j \in JobId
  PROVE  Same(j) /\ now' = now /\ lockedAt' = lockedAt
<1>1. /\ holding' = holding /\ claim' = claim /\ attempts' = attempts
      /\ now' = now /\ lockedAt' = lockedAt
      /\ status' = [status EXCEPT ![i] = "queued"] /\ status[i] = "none"
  BY DEF EnqueueJob
<1>2. status'[j] = "in_progress" <=> status[j] = "in_progress"
  BY <1>1 DEF TypeOK
<1> QED BY <1>1, <1>2 DEF Same, Holders, HasClaim

LEMMA TickEffect ==
  ASSUME TypeOK, Tick, NEW j \in JobId
  PROVE  /\ Same(j) /\ lockedAt' = lockedAt /\ now' = now + 1
         /\ Late(j)' => /\ Claimed(j)
                        /\ ~Late(j) => overruns'[j] = overruns[j] + 1
         /\ overruns'[j] >= overruns[j]
         /\ Late(j) => Late(j)'
<1>1. /\ holding' = holding /\ claim' = claim /\ attempts' = attempts
      /\ status' = status /\ lockedAt' = lockedAt /\ now' = now + 1
      /\ overruns'[j] = IF Claimed(j) /\ lockedAt[j] + Lease = now
                        THEN overruns[j] + 1 ELSE overruns[j]
  BY DEF Tick
<1>2. Same(j)
  BY <1>1 DEF Same, Holders, HasClaim
<1>3. Claimed(j)' <=> Claimed(j)
  BY <1>2, SameView
<1>4. /\ now \in Nat /\ Lease \in Nat /\ lockedAt[j] \in Nat
      /\ overruns[j] \in Nat
  BY PolicyAssumption DEF TypeOK
<1>5. Late(j)' => Claimed(j) /\ lockedAt[j] + Lease <= now
  BY <1>1, <1>3, <1>4 DEF Late
<1>6. Late(j)' /\ ~Late(j) => overruns'[j] = overruns[j] + 1
  <2>1. Late(j)' /\ ~Late(j) => Claimed(j) /\ lockedAt[j] + Lease = now
    BY <1>4, <1>5 DEF Late
  <2> QED BY <1>1, <2>1
<1>7. overruns'[j] >= overruns[j]
  BY <1>1, <1>4
<1>8. Late(j) => Late(j)'
  BY <1>1, <1>3, <1>4 DEF Late
<1> QED BY <1>1, <1>2, <1>5, <1>6, <1>7, <1>8

-----------------------------------------------------------------------------
(* OverrunsPay, of one job.                                                *)
Pays(j) ==
  Cardinality(Strays(j)) + (IF Late(j) THEN 1 ELSE 0) + revised[j]
    <= overruns[j]

Accounts == TypeOK /\ ClaimsUnique /\ OverrunsPay

LEMMA AccountsTypes ==
  ASSUME TypeOK, ClaimsUnique, NEW j \in JobId
  PROVE  /\ revised[j] \in Nat /\ overruns[j] \in Nat
         /\ Cardinality(Strays(j)) \in Nat /\ Cardinality(Holders(j)) \in Nat
BY HoldersCount DEF TypeOK

(* A job that the step does not touch.                                     *)
LEMMA PaysAsBefore ==
  ASSUME NEW j \in JobId, Pays(j), Same(j), now' = now,
         lockedAt'[j] = lockedAt[j], revised'[j] = revised[j],
         overruns' = overruns
  PROVE  Pays(j)'
BY SameView DEF Pays

LEMMA PaysAnswer ==
  ASSUME TypeOK, ClaimsUnique, NEW w \in Worker, NEW j \in JobId, Pays(j),
         holding[w] = j, NEW outcome \in {"done", "failed", "queued"},
         Answer(w, outcome)
  PROVE  Pays(j)'
<1>1. /\ Strays(j)' = Holders(j) \ {w} /\ w \in Holders(j)
      /\ ~Late(j)'
      /\ revised'[j] = IF status[j] \in Settled \ {outcome}
                       THEN revised[j] + 1 ELSE revised[j]
      /\ overruns'[j] = overruns[j]
  <2>1. overruns'[j] = overruns[j]
    BY DEF Answer
  <2> QED BY <2>1, AnswerEffect
<1>2. Cardinality(Strays(j)') = Cardinality(Holders(j)) - 1
  <2>1. IsFiniteSet(Holders(j))
    BY HoldersCount
  <2>2. Cardinality(Holders(j) \ {w}) = Cardinality(Holders(j)) - 1
    BY <1>1, <2>1, FS_RemoveElement
  <2> QED BY <1>1, <2>2
<1>3. /\ Cardinality(Holders(j))
           = Cardinality(Strays(j)) + (IF Claimed(j) THEN 1 ELSE 0)
      /\ Cardinality(Holders(j)) \in Nat /\ Cardinality(Strays(j)) \in Nat
  BY HoldersCount
<1>4. revised[j] \in Nat /\ overruns[j] \in Nat
  BY AccountsTypes
<1>5. CASE Claimed(j)
  <2>1. revised'[j] = revised[j]
    BY <1>1, <1>5 DEF Claimed, HasClaim, Settled
  <2>2. Cardinality(Strays(j)') = Cardinality(Strays(j))
    BY <1>2, <1>3, <1>5
  <2>3. Cardinality(Strays(j)) + revised[j] <= overruns[j]
    BY <1>3, <1>4 DEF Pays
  <2> QED BY <1>1, <2>1, <2>2, <2>3, <1>3, <1>4 DEF Pays
<1>6. CASE ~Claimed(j)
  <2>1. revised'[j] <= revised[j] + 1 /\ revised'[j] \in Nat
    BY <1>1, <1>4
  <2>2. Cardinality(Strays(j)') = Cardinality(Strays(j)) - 1
    BY <1>2, <1>3, <1>6
  <2>3. Cardinality(Strays(j)) + revised[j] <= overruns[j]
    BY <1>3, <1>4, <1>6 DEF Pays, Late
  <2> QED BY <1>1, <2>1, <2>2, <2>3, <1>3, <1>4 DEF Pays
<1> QED BY <1>5, <1>6

(* Every step is paid for.                                                 *)
LEMMA PaysStep ==
  ASSUME TypeOK, ClaimsUnique, OverrunsPay, [Next]_vars, NEW j \in JobId
  PROVE  Pays(j)'
<1>0. /\ Pays(j)
      /\ revised[j] \in Nat /\ overruns[j] \in Nat
      /\ Cardinality(Strays(j)) \in Nat /\ Cardinality(Holders(j)) \in Nat
  BY AccountsTypes DEF OverrunsPay, Pays
<1>1. ASSUME NEW i \in JobId, EnqueueJob(i) PROVE Pays(j)'
  <2>1. Same(j) /\ now' = now /\ lockedAt' = lockedAt
    BY <1>1, EnqueueEffect
  <2> QED BY <1>0, <1>1, <2>1, PaysAsBefore DEF EnqueueJob
<1>2. ASSUME NEW w \in Worker, NEW i \in JobId, ClaimNextJob(w, i)
      PROVE  Pays(j)'
  <2>1. now' = now /\ revised' = revised /\ overruns' = overruns
    BY <1>2 DEF ClaimNextJob
  <2>2. CASE i # j
    <3>1. Same(j)
      BY <1>2, <2>2, ClaimEffect
    <3>2. lockedAt'[j] = lockedAt[j]
      BY <1>2, <2>2 DEF ClaimNextJob, TypeOK
    <3> QED BY <1>0, <2>1, <3>1, <3>2, PaysAsBefore
  <2>3. CASE i = j
    <3>1. Strays(j)' = Holders(j) /\ ~Late(j)' /\ (Claimed(j) => Late(j))
      BY <1>2, <2>3, ClaimEffect
    <3>2. Cardinality(Holders(j))
            = Cardinality(Strays(j)) + (IF Claimed(j) THEN 1 ELSE 0)
      BY HoldersCount
    <3>3. Cardinality(Holders(j)) + revised[j] <= overruns[j]
      <4>1. CASE Claimed(j)
        BY <1>0, <3>1, <3>2, <4>1 DEF Pays
      <4>2. CASE ~Claimed(j)
        BY <1>0, <3>2, <4>2 DEF Pays, Late
      <4> QED BY <4>1, <4>2
    <3> QED BY <1>0, <2>1, <3>1, <3>3 DEF Pays
  <2> QED BY <2>2, <2>3
<1>3. ASSUME NEW w \in Worker, MarkJobDone(w) \/ FailOrRetryJob(w)
      PROVE  Pays(j)'
  <2>1. PICK outcome \in {"done", "failed", "queued"} :
          /\ Answer(w, outcome) /\ holding[w] \in JobId
          /\ \A k \in JobId : k # holding[w] => lockedAt'[k] = lockedAt[k]
    BY <1>3, Answers
  <2>2. CASE holding[w] = j
    BY <1>0, <2>1, <2>2, PaysAnswer
  <2>3. CASE holding[w] # j
    <3>1. Same(j) /\ revised'[j] = revised[j]
      BY <2>1, <2>3, AnswerEffect
    <3>2. now' = now /\ overruns' = overruns /\ lockedAt'[j] = lockedAt[j]
      BY <2>1, <2>3 DEF Answer
    <3> QED BY <1>0, <3>1, <3>2, PaysAsBefore
  <2> QED BY <2>2, <2>3
<1>4. ASSUME NEW w \in Worker, Crash(w) PROVE Pays(j)'
  <2>1. /\ now' = now /\ lockedAt' = lockedAt /\ revised' = revised
        /\ overruns' = overruns
        /\ holding[w] \in JobId
    BY <1>4 DEF Crash, TypeOK
  <2>2. CASE holding[w] # j
    <3>1. Same(j)
      BY <1>4, <2>1, <2>2, CrashEffect
    <3> QED BY <1>0, <2>1, <3>1, PaysAsBefore
  <2>3. CASE holding[w] = j
    <3>1. Strays(j)' = Strays(j) \ {w} /\ (Late(j)' => Late(j))
      BY <1>4, <2>3, CrashEffect
    <3>2. /\ Cardinality(Strays(j)') \in Nat
          /\ Cardinality(Strays(j)') <= Cardinality(Strays(j))
      BY <3>1, HoldersCount, FS_Subset, FS_CardinalityType
    <3> QED BY <1>0, <2>1, <3>1, <3>2 DEF Pays
  <2> QED BY <2>2, <2>3
<1>5. CASE Tick
  <2>1. /\ Late(j)' => Claimed(j) /\ (~Late(j) => overruns'[j] = overruns[j] + 1)
        /\ overruns'[j] >= overruns[j]
        /\ Strays(j)' = Strays(j)
    BY <1>5, TickEffect, SameView
  <2>2. revised' = revised /\ overruns'[j] \in Nat
    <3>1. TypeOK'
      BY TypeStep
    <3> QED BY <1>5, <3>1 DEF Tick, TypeOK
  <2>3. CASE Late(j)' /\ ~Late(j)
    BY <1>0, <2>1, <2>2, <2>3 DEF Pays
  <2>4. CASE Late(j)' => Late(j)
    BY <1>0, <2>1, <2>2, <2>4 DEF Pays
  <2> QED BY <2>3, <2>4
<1>6. CASE UNCHANGED vars
  <2>1. Same(j) /\ now' = now /\ lockedAt' = lockedAt /\ revised' = revised
        /\ overruns' = overruns
    BY <1>6 DEF Same, Holders, HasClaim
  <2> QED BY <1>0, <2>1, PaysAsBefore
<1> QED
  BY <1>1, <1>2, <1>3, <1>4, <1>5, <1>6 DEF Next

LEMMA AccountsStep == Accounts /\ [Next]_vars => Accounts'
<1> SUFFICES ASSUME Accounts, [Next]_vars PROVE Accounts'
  OBVIOUS
<1>1. TypeOK' /\ ClaimsUnique'
  BY TypeStep, ClaimsStep DEF Accounts
<1>2. \A j \in JobId : Pays(j)'
  BY PaysStep DEF Accounts
<1>3. OverrunsPay'
  BY <1>2 DEF OverrunsPay, Pays
<1> QED BY <1>1, <1>3 DEF Accounts

LEMMA AccountsInit == Init => Accounts
<1> SUFFICES ASSUME Init PROVE Accounts
  OBVIOUS
<1>1. TypeOK /\ ClaimsUnique
  BY DEF Init, TypeOK, Status, ClaimsUnique
<1>2. ASSUME NEW j \in JobId PROVE Pays(j)
  <2>1. Strays(j) = {} /\ ~Late(j)
    BY NoJobAssumption DEF Init, Strays, Holders, Late, Claimed, HasClaim
  <2>2. revised[j] = 0 /\ overruns[j] = 0
    BY DEF Init
  <2> QED BY <2>1, <2>2, FS_EmptySet DEF Pays
<1> QED BY <1>1, <1>2 DEF Accounts, OverrunsPay, Pays

(* However long handlers take, a job is in the hands of one live worker,   *)
(* and one more for each time that a handler outlived its lease.           *)
THEOREM OneHolderAlways == Spec => []OneHolder
<1>1. Accounts => OneHolder
  <2> SUFFICES ASSUME Accounts, NEW j \in JobId
               PROVE  Cardinality(Holders(j)) <= 1 + overruns[j]
    BY DEF OneHolder
  <2>1. /\ revised[j] \in Nat /\ overruns[j] \in Nat
        /\ Cardinality(Strays(j)) \in Nat
    BY AccountsTypes DEF Accounts
  <2>2. Cardinality(Holders(j)) <= Cardinality(Strays(j)) + 1
    BY <2>1, HoldersCount DEF Accounts
  <2>3. Cardinality(Strays(j)) <= overruns[j]
    BY <2>1 DEF Accounts, OverrunsPay
  <2>4. Cardinality(Holders(j)) \in Nat
    BY AccountsTypes DEF Accounts
  <2> QED BY <2>1, <2>2, <2>3, <2>4
<1> QED
  BY <1>1, AccountsInit, AccountsStep, PTL DEF Spec

(* A settled row is changed by a stray, and a stray has been paid for.     *)
LEMMA SettledStays ==
  ASSUME Accounts, [Next]_vars, NEW j \in JobId, status[j] \in Settled,
         status'[j] # status[j]
  PROVE  revised[j] < overruns[j]
<1>1. TypeOK /\ ClaimsUnique
  BY DEF Accounts
<1>2. PICK w \in Worker :
        holding[w] = j /\ (MarkJobDone(w) \/ FailOrRetryJob(w))
  <2>1. ASSUME NEW i \in JobId, EnqueueJob(i) PROVE FALSE
    BY <1>1, <2>1 DEF EnqueueJob, TypeOK, Settled
  <2>2. ASSUME NEW w \in Worker, NEW i \in JobId, ClaimNextJob(w, i)
        PROVE  FALSE
    BY <1>1, <2>2 DEF ClaimNextJob, Claimable, TypeOK, Settled
  <2>3. ASSUME NEW w \in Worker, MarkJobDone(w) \/ FailOrRetryJob(w)
        PROVE  holding[w] = j
    <3>1. PICK outcome \in {"done", "failed", "queued"} :
            Answer(w, outcome) /\ holding[w] \in JobId
      BY <1>1, <2>3, Answers
    <3> QED BY <1>1, <3>1, AnswerEffect
  <2>4. ~(\E w \in Worker : Crash(w)) /\ ~Tick /\ ~UNCHANGED vars
    BY DEF Crash, Tick
  <2> QED BY <2>1, <2>2, <2>3, <2>4 DEF Next
<1>3. w \in Strays(j)
  BY <1>2 DEF Strays, Holders, HasClaim, Settled
<1>4. Cardinality(Strays(j)) # 0 /\ Cardinality(Strays(j)) \in Nat
  BY <1>1, <1>3, HoldersCount, FS_EmptySet
<1>5. /\ revised[j] \in Nat /\ overruns[j] \in Nat
      /\ Cardinality(Strays(j)) + revised[j] <= overruns[j]
  BY <1>1, <1>4, AccountsTypes DEF Accounts, OverrunsPay
<1> QED BY <1>4, <1>5

(* However long handlers take, a job that is done or dead-lettered changes *)
(* at most once for each time that one of them outlived its lease.         *)
THEOREM FinalIsFinalAlways == Spec => FinalIsFinal
<1>1. Accounts /\ [Next]_vars =>
        [\A j \in JobId : status[j] \in Settled /\ status'[j] # status[j] =>
           revised[j] < overruns[j]]_vars
  BY SettledStays
<1> QED
  BY <1>1, AccountsInit, AccountsStep, PTL DEF Spec, FinalIsFinal

-----------------------------------------------------------------------------
(* CapRespected and ClaimableHasBudget, of one job.                        *)
BudgetOf(j) ==
  /\ attempts[j] <= MaxAttempts + crashes[j] + overruns[j]
  /\ status[j] = "none" => attempts[j] = 0
  /\ status[j] = "queued" => attempts[j] < MaxAttempts
  /\ status[j] = "in_progress" /\ (Claimed(j) => Late(j)) =>
       attempts[j] < MaxAttempts + crashes[j] + overruns[j]

Budget == \A j \in JobId : BudgetOf(j)

LEMMA BudgetAsBefore ==
  ASSUME NEW j \in JobId, BudgetOf(j), Same(j), now' = now,
         lockedAt'[j] = lockedAt[j], status'[j] = status[j],
         attempts'[j] = attempts[j], crashes'[j] = crashes[j],
         overruns'[j] = overruns[j]
  PROVE  BudgetOf(j)'
BY SameView DEF BudgetOf

LEMMA BudgetStep ==
  ASSUME TypeOK, ClaimsUnique, Budget, [Next]_vars, NEW j \in JobId
  PROVE  BudgetOf(j)'
<1>0. /\ BudgetOf(j)
      /\ attempts[j] \in Nat /\ crashes[j] \in Nat /\ overruns[j] \in Nat
      /\ MaxAttempts \in Nat \ {0}
  BY PolicyAssumption DEF Budget, TypeOK
<1>1. ASSUME NEW i \in JobId, EnqueueJob(i) PROVE BudgetOf(j)'
  <2>1. /\ Same(j) /\ now' = now /\ lockedAt' = lockedAt
        /\ attempts' = attempts /\ crashes' = crashes /\ overruns' = overruns
    BY <1>1, EnqueueEffect DEF EnqueueJob
  <2>2. CASE i = j
    <3>1. status'[j] = "queued" /\ attempts[j] = 0
      BY <1>0, <1>1, <2>2 DEF EnqueueJob, TypeOK, BudgetOf
    <3> QED BY <1>0, <2>1, <3>1 DEF BudgetOf
  <2>3. CASE i # j
    <3>1. status'[j] = status[j]
      BY <1>1, <2>3 DEF EnqueueJob, TypeOK
    <3> QED BY <1>0, <2>1, <3>1, BudgetAsBefore
  <2> QED BY <2>2, <2>3
<1>2. ASSUME NEW w \in Worker, NEW i \in JobId, ClaimNextJob(w, i)
      PROVE  BudgetOf(j)'
  <2>1. now' = now /\ crashes' = crashes /\ overruns' = overruns
    BY <1>2 DEF ClaimNextJob
  <2>2. CASE i # j
    <3>1. Same(j)
      BY <1>2, <2>2, ClaimEffect
    <3>2. /\ lockedAt'[j] = lockedAt[j] /\ status'[j] = status[j]
          /\ attempts'[j] = attempts[j]
      BY <1>2, <2>2 DEF ClaimNextJob, TypeOK
    <3> QED BY <1>0, <2>1, <3>1, <3>2, BudgetAsBefore
  <2>3. CASE i = j
    <3>1. Claimed(j)' /\ ~Late(j)' /\ (Claimed(j) => Late(j))
      BY <1>2, <2>3, ClaimEffect
    <3>2. /\ status'[j] = "in_progress" /\ attempts'[j] = attempts[j] + 1
          /\ status[j] \in {"queued", "in_progress"}
      BY <1>2, <2>3 DEF ClaimNextJob, Claimable, TypeOK
    <3>3. attempts[j] < MaxAttempts + crashes[j] + overruns[j]
      BY <1>0, <3>1, <3>2 DEF BudgetOf
    <3> QED BY <1>0, <2>1, <3>1, <3>2, <3>3 DEF BudgetOf
  <2> QED BY <2>2, <2>3
<1>3. ASSUME NEW w \in Worker, MarkJobDone(w) \/ FailOrRetryJob(w)
      PROVE  BudgetOf(j)'
  <2>1. PICK outcome \in {"done", "failed", "queued"} :
          /\ Answer(w, outcome) /\ holding[w] \in JobId
          /\ outcome = "queued" => attempts[holding[w]] < MaxAttempts
          /\ \A k \in JobId : k # holding[w] => lockedAt'[k] = lockedAt[k]
    BY <1>3, Answers
  <2>2. /\ now' = now /\ attempts' = attempts /\ crashes' = crashes
        /\ overruns' = overruns
    BY <2>1 DEF Answer
  <2>3. CASE holding[w] = j
    <3>1. status'[j] = outcome
      BY <2>1, <2>3, AnswerEffect
    <3> QED BY <1>0, <2>1, <2>2, <2>3, <3>1 DEF BudgetOf
  <2>4. CASE holding[w] # j
    <3>1. Same(j) /\ status'[j] = status[j] /\ lockedAt'[j] = lockedAt[j]
      BY <2>1, <2>4, AnswerEffect
    <3> QED BY <1>0, <2>2, <3>1, BudgetAsBefore
  <2> QED BY <2>3, <2>4
<1>4. ASSUME NEW w \in Worker, Crash(w) PROVE BudgetOf(j)'
  <2>1. /\ now' = now /\ lockedAt' = lockedAt /\ status' = status
        /\ attempts' = attempts /\ overruns' = overruns
        /\ holding[w] \in JobId
    BY <1>4 DEF Crash, TypeOK
  <2>2. CASE holding[w] # j
    <3>1. Same(j) /\ crashes'[j] = crashes[j]
      BY <1>4, <2>1, <2>2, CrashEffect
    <3> QED BY <1>0, <2>1, <3>1, BudgetAsBefore
  <2>3. CASE holding[w] = j
    <3>1. crashes'[j] = crashes[j] + 1
      BY <1>4, <2>3, CrashEffect
    <3>2. attempts[j] < MaxAttempts + (crashes[j] + 1) + overruns[j]
      BY <1>0 DEF BudgetOf
    <3> QED BY <1>0, <2>1, <3>1, <3>2 DEF BudgetOf
  <2> QED BY <2>2, <2>3
<1>5. CASE Tick
  <2>1. /\ Late(j)' => Claimed(j) /\ (~Late(j) => overruns'[j] = overruns[j] + 1)
        /\ overruns'[j] >= overruns[j]
        /\ Claimed(j)' <=> Claimed(j)
    BY <1>5, TickEffect, SameView
  <2>2. status' = status /\ attempts' = attempts /\ crashes' = crashes
    BY <1>5 DEF Tick
  <2>3. overruns'[j] \in Nat
    <3>1. TypeOK'
      BY TypeStep
    <3> QED BY <3>1 DEF TypeOK
  <2>4. ASSUME status[j] = "in_progress", Claimed(j) => Late(j)'
        PROVE  attempts[j] < MaxAttempts + crashes[j] + overruns'[j]
    <3>1. CASE Claimed(j) => Late(j)
      BY <1>0, <2>1, <2>3, <2>4, <3>1 DEF BudgetOf
    <3>2. CASE Claimed(j) /\ ~Late(j)
      BY <1>0, <2>1, <2>3, <2>4, <3>2 DEF BudgetOf
    <3> QED BY <3>1, <3>2
  <2> QED BY <1>0, <2>1, <2>2, <2>3, <2>4 DEF BudgetOf
<1>6. CASE UNCHANGED vars
  <2>1. /\ Same(j) /\ now' = now /\ lockedAt' = lockedAt /\ status' = status
        /\ attempts' = attempts /\ crashes' = crashes /\ overruns' = overruns
    BY <1>6 DEF Same, Holders, HasClaim
  <2> QED BY <1>0, <2>1, BudgetAsBefore
<1> QED
  BY <1>1, <1>2, <1>3, <1>4, <1>5, <1>6 DEF Next

(* However long handlers take, no job is attempted more than MaxAttempts   *)
(* times, but for the claims that died with their worker or were late.     *)
THEOREM CapRespectedAlways == Spec => []CapRespected
<1>1. Init => Budget
  <2> SUFFICES ASSUME Init, NEW j \in JobId PROVE BudgetOf(j)
    BY DEF Budget
  <2>1. /\ status[j] = "none" /\ attempts[j] = 0 /\ crashes[j] = 0
        /\ overruns[j] = 0
    BY DEF Init
  <2> QED BY <2>1, PolicyAssumption DEF BudgetOf
<1>2. Budget => CapRespected
  BY DEF Budget, BudgetOf, CapRespected
<1>3. Accounts /\ Budget /\ [Next]_vars => Budget'
  <2> SUFFICES ASSUME Accounts, Budget, [Next]_vars,
                      NEW j \in JobId
               PROVE  BudgetOf(j)'
    BY DEF Budget
  <2> QED BY BudgetStep DEF Accounts
<1> QED
  BY <1>1, <1>2, <1>3, AccountsInit, AccountsStep, PTL DEF Spec

-----------------------------------------------------------------------------
(* The mapped variables, without the CHOOSE in Holder.                     *)
Overdue == {j \in JobId : Late(j)}
StraysOf == [j \in JobId |-> Strays(j)]
MappingFacts ==
  \A j \in JobId :
    /\ \A w \in Worker : HasClaim(w, j) => Holder[j] = w
    /\ ~Claimed(j) => Holder[j] = NoJob

LEMMA HolderMapping == ClaimsUnique => MappingFacts
<1> SUFFICES ASSUME ClaimsUnique, NEW j \in JobId
             PROVE  /\ \A w \in Worker : HasClaim(w, j) => Holder[j] = w
                    /\ ~Claimed(j) => Holder[j] = NoJob
  BY DEF MappingFacts
<1>1. ASSUME NEW w \in Worker, HasClaim(w, j) PROVE Holder[j] = w
  <2>1. Holder[j] = CHOOSE v \in Worker : HasClaim(v, j)
    BY <1>1 DEF Holder, Claimed
  <2>2. \A v \in Worker : HasClaim(v, j) => v = w
    BY <1>1, OneClaim
  <2> QED BY <1>1, <2>1, <2>2
<1>2. ~Claimed(j) => Holder[j] = NoJob
  BY DEF Holder
<1> QED BY <1>1, <1>2

LEMMA SameHolder ==
  ASSUME ClaimsUnique, ClaimsUnique', NEW j \in JobId, Same(j)
  PROVE  Holder'[j] = Holder[j]
<1>0. MappingFacts /\ MappingFacts'
  BY HolderMapping, PTL
<1>1. CASE Claimed(j)
  <2>1. PICK w \in Worker : HasClaim(w, j)
    BY <1>1 DEF Claimed
  <2>2. HasClaim(w, j)'
    BY <2>1 DEF Same
  <2>3. Holder[j] = w
    BY <1>0, <2>1 DEF MappingFacts
  <2>4. Holder'[j] = w
    BY <1>0, <2>2 DEF MappingFacts
  <2> QED BY <2>3, <2>4
<1>2. CASE ~Claimed(j)
  <2>1. ~Claimed(j)'
    BY <1>2, SameView
  <2>2. Holder[j] = NoJob
    BY <1>0, <1>2 DEF MappingFacts
  <2>3. Holder'[j] = NoJob
    BY <1>0, <2>1 DEF MappingFacts
  <2> QED BY <2>2, <2>3
<1> QED BY <1>1, <1>2

(* The ledger sees one job change, or none.                                *)
LEMMA OnlyThisJob ==
  ASSUME ClaimsUnique, ClaimsUnique', NEW j \in JobId, now' = now,
         \A k \in JobId : k # j => Same(k) /\ lockedAt'[k] = lockedAt[k]
  PROVE  /\ Holder' = [Holder EXCEPT ![j] = Holder'[j]]
         /\ StraysOf' = [StraysOf EXCEPT ![j] = Strays(j)']
         /\ ~Late(j)' => Overdue' = Overdue \ {j}
         /\ (Late(j)' <=> Late(j)) => Overdue' = Overdue
<1>1. ASSUME NEW k \in JobId, k # j
      PROVE  /\ Holder'[k] = Holder[k] /\ Strays(k)' = Strays(k)
             /\ Late(k)' <=> Late(k)
  BY <1>1, SameHolder, SameView
<1>2. Holder' = [Holder EXCEPT ![j] = Holder'[j]]
  <2>1. /\ Holder = [k \in JobId |-> Holder[k]]
        /\ Holder' = [k \in JobId |-> Holder'[k]]
    BY DEF Holder
  <2> QED BY <1>1, <2>1
<1>3. StraysOf' = [StraysOf EXCEPT ![j] = Strays(j)']
  BY <1>1 DEF StraysOf
<1>4. ~Late(j)' => Overdue' = Overdue \ {j}
  BY <1>1 DEF Overdue
<1>5. (Late(j)' <=> Late(j)) => Overdue' = Overdue
  BY <1>1 DEF Overdue
<1> QED BY <1>2, <1>3, <1>4, <1>5

LEMMA NoJobChanges ==
  ASSUME ClaimsUnique, ClaimsUnique', \A k \in JobId : Same(k)
  PROVE  Holder' = Holder /\ StraysOf' = StraysOf
<1>1. \A k \in JobId : Holder'[k] = Holder[k] /\ Strays(k)' = Strays(k)
  BY SameHolder, SameView
<1>2. Holder' = Holder
  <2>1. /\ Holder = [k \in JobId |-> Holder[k]]
        /\ Holder' = [k \in JobId |-> Holder'[k]]
    BY DEF Holder
  <2> QED BY <1>1, <2>1
<1> QED BY <1>1, <1>2 DEF StraysOf

LEMMA AnswerInLedger ==
  ASSUME TypeOK, ClaimsUnique, ClaimsUnique', NEW w \in Worker,
         MarkJobDone(w) \/ FailOrRetryJob(w), NEW j \in JobId, holding[w] = j
  PROVE  Ledger!Next
<1>1. PICK outcome \in {"done", "failed", "queued"} :
        /\ Answer(w, outcome)
        /\ \A k \in JobId : k # j => lockedAt'[k] = lockedAt[k]
  BY Answers
<1> DEFINE result == IF outcome = "queued" THEN "open" ELSE outcome
<1>2. /\ w \in Holders(j) /\ Strays(j)' = Holders(j) \ {w}
      /\ ~Claimed(j)' /\ ~Late(j)'
      /\ \A k \in JobId : k # j => Same(k)
  BY <1>1, AnswerEffect
<1>3. now' = now
  BY <1>1 DEF Answer
<1>4. /\ Holder' = [Holder EXCEPT ![j] = Holder'[j]]
      /\ StraysOf' = [StraysOf EXCEPT ![j] = Strays(j)']
      /\ Overdue' = Overdue \ {j}
  BY <1>1, <1>2, <1>3, OnlyThisJob
<1>5. MappingFacts /\ MappingFacts'
  BY HolderMapping, PTL
<1>6. Holder'[j] = NoJob
  BY <1>1, <1>2, <1>5 DEF MappingFacts
<1>7. Outcome' = [Outcome EXCEPT ![j] = result]
  <2>1. status' = [status EXCEPT ![j] = outcome]
    BY <1>1 DEF Answer
  <2> QED BY <1>1, <2>1 DEF Outcome, TypeOK
<1>8. CASE HasClaim(w, j)
  <2>1. Holder[j] = w
    BY <1>1, <1>5, <1>8 DEF MappingFacts
  <2>2. Strays(j)' = Strays(j)
    BY <1>1, <1>2, <1>8, HoldersCount
  <2>3. StraysOf' = StraysOf
    BY <1>1, <1>4, <2>2 DEF StraysOf
  <2>4. Ledger!Finish(w, j, result)
    BY <1>4, <1>6, <1>7, <2>1, <2>3 DEF Ledger!Finish, Overdue, StraysOf
  <2> QED BY <1>1, <2>4 DEF Ledger!Next
<1>9. CASE ~HasClaim(w, j)
  <2>1. w \in Strays(j)
    BY <1>2, <1>9 DEF Strays
  <2>2. Strays(j)' = (Strays(j) \cup {Holder[j]}) \ {w, NoJob}
    <3>1. NoJob \notin Holders(j)
      BY NoJobAssumption DEF Holders
    <3>2. CASE Claimed(j)
      <4>1. PICK v \in Worker : HasClaim(v, j)
        BY <3>2 DEF Claimed
      <4>2. Holder[j] = v /\ Holders(j) = Strays(j) \cup {v}
        BY <1>1, <1>5, <4>1, HoldersCount DEF MappingFacts
      <4> QED BY <1>2, <3>1, <4>2
    <3>3. CASE ~Claimed(j)
      <4>1. Holder[j] = NoJob /\ Holders(j) = Strays(j)
        BY <1>1, <1>5, <3>3, HoldersCount DEF MappingFacts
      <4> QED BY <1>2, <3>1, <4>1
    <3> QED BY <3>2, <3>3
  <2>3. StraysOf[j] = Strays(j)
    BY <1>1 DEF StraysOf
  <2>4. Ledger!FinishLate(w, j, result)
    BY <1>4, <1>6, <1>7, <2>1, <2>2, <2>3
       DEF Ledger!FinishLate, Overdue, StraysOf
  <2> QED BY <1>1, <2>4 DEF Ledger!Next
<1> QED BY <1>8, <1>9

LEMMA CrashInLedger ==
  ASSUME TypeOK, ClaimsUnique, ClaimsUnique', NEW w \in Worker, Crash(w),
         NEW j \in JobId, holding[w] = j
  PROVE  Ledger!Next
<1>1. now' = now /\ lockedAt' = lockedAt /\ status' = status
  BY DEF Crash
<1>2. /\ w \in Holders(j) /\ Strays(j)' = Strays(j) \ {w}
      /\ \A v \in Worker : HasClaim(v, j)' <=> HasClaim(v, j) /\ v # w
      /\ \A k \in JobId : k # j => Same(k)
  BY <1>1, CrashEffect
<1>3. /\ Holder' = [Holder EXCEPT ![j] = Holder'[j]]
      /\ StraysOf' = [StraysOf EXCEPT ![j] = Strays(j)']
      /\ ~Late(j)' => Overdue' = Overdue \ {j}
      /\ (Late(j)' <=> Late(j)) => Overdue' = Overdue
  BY <1>1, <1>2, OnlyThisJob
<1>4. Outcome' = Outcome
  BY <1>1 DEF Outcome
<1>5. MappingFacts /\ MappingFacts'
  BY HolderMapping, PTL
<1>6. CASE HasClaim(w, j)
  <2>1. Holder[j] = w /\ ~Claimed(j)'
    BY <1>1, <1>2, <1>5, <1>6, OneClaim DEF MappingFacts, Claimed
  <2>2. Holder'[j] = NoJob /\ Overdue' = Overdue \ {j}
    BY <1>1, <1>3, <1>5, <2>1 DEF MappingFacts, Late
  <2>3. StraysOf' = StraysOf
    <3>1. w \notin Strays(j)
      BY <1>6 DEF Strays
    <3>2. Strays(j)' = Strays(j)
      BY <1>2, <3>1
    <3> QED BY <1>3, <3>2 DEF StraysOf
  <2>4. Outcome' = [Outcome EXCEPT ![j] = "open"]
    <3>1. Outcome[j] = "open" /\ Outcome = [k \in JobId |-> Outcome[k]]
      BY <1>1, <1>6 DEF Outcome, HasClaim
    <3> QED BY <1>1, <1>4, <3>1
  <2>5. Ledger!Finish(w, j, "open")
    BY <1>3, <2>1, <2>2, <2>3, <2>4 DEF Ledger!Finish, Overdue, StraysOf
  <2> QED BY <1>1, <2>5 DEF Ledger!Next
<1>7. CASE ~HasClaim(w, j)
  <2>1. \A v \in Worker : HasClaim(v, j)' <=> HasClaim(v, j)
    BY <1>2, <1>7
  <2>2. Claimed(j)' <=> Claimed(j)
    BY <2>1 DEF Claimed
  <2>3. Late(j)' <=> Late(j)
    BY <1>1, <2>2 DEF Late
  <2>4. Holder'[j] = Holder[j]
    <3>1. CASE Claimed(j)
      BY <1>1, <1>5, <2>1, <3>1 DEF MappingFacts, Claimed
    <3>2. CASE ~Claimed(j)
      BY <1>1, <1>5, <2>2, <3>2 DEF MappingFacts
    <3> QED BY <3>1, <3>2
  <2>5. Holder' = Holder
    <3>1. Holder = [k \in JobId |-> Holder[k]]
      BY DEF Holder
    <3> QED BY <1>1, <1>3, <2>4, <3>1
  <2>6. w \in Strays(j) /\ StraysOf[j] = Strays(j)
    BY <1>1, <1>2, <1>7 DEF Strays, StraysOf
  <2>7. Ledger!Vanish(w, j)
    BY <1>2, <1>3, <1>4, <2>3, <2>5, <2>6
       DEF Ledger!Vanish, Overdue, StraysOf
  <2> QED BY <1>1, <2>7 DEF Ledger!Next
<1> QED BY <1>6, <1>7

LEMMA ClaimInLedger ==
  ASSUME TypeOK, ClaimsUnique, ClaimsUnique', NEW w \in Worker,
         NEW j \in JobId, ClaimNextJob(w, j)
  PROVE  Ledger!Next
<1>1. /\ w \notin Holders(j) /\ Strays(j)' = Holders(j)
      /\ HasClaim(w, j)' /\ ~Late(j)' /\ (Claimed(j) => Late(j))
      /\ \A k \in JobId : k # j => Same(k)
  BY ClaimEffect
<1>2. /\ now' = now
      /\ status' = [status EXCEPT ![j] = "in_progress"]
      /\ status[j] \in {"queued", "in_progress"}
      /\ \A k \in JobId : k # j => lockedAt'[k] = lockedAt[k]
  BY DEF ClaimNextJob, Claimable, TypeOK
<1>3. /\ Holder' = [Holder EXCEPT ![j] = Holder'[j]]
      /\ StraysOf' = [StraysOf EXCEPT ![j] = Strays(j)']
      /\ Overdue' = Overdue \ {j}
  BY <1>1, <1>2, OnlyThisJob
<1>4. MappingFacts /\ MappingFacts'
  BY HolderMapping, PTL
<1>5. Holder'[j] = w
  BY <1>1, <1>4 DEF MappingFacts
<1>6. Outcome' = Outcome /\ Outcome[j] = "open"
  BY <1>2 DEF Outcome, TypeOK
<1>7. StraysOf[j] = Strays(j)
  BY DEF StraysOf
<1>8. CASE Claimed(j)
  <2>1. PICK v \in Worker : HasClaim(v, j)
    BY <1>8 DEF Claimed
  <2>2. Holder[j] = v /\ Holders(j) = Strays(j) \cup {v}
    BY <1>4, <2>1, HoldersCount DEF MappingFacts
  <2>3. j \in Overdue
    BY <1>1, <1>8 DEF Overdue
  <2>4. Ledger!TakeOver(w, j)
    BY <1>1, <1>3, <1>5, <1>6, <1>7, <2>2, <2>3
       DEF Ledger!TakeOver, Overdue, StraysOf
  <2> QED BY <2>4 DEF Ledger!Next
<1>9. CASE ~Claimed(j)
  <2>1. Holder[j] = NoJob /\ Holders(j) = Strays(j)
    BY <1>4, <1>9, HoldersCount DEF MappingFacts
  <2>2. StraysOf' = StraysOf
    BY <1>1, <1>3, <2>1 DEF StraysOf
  <2>3. Overdue' = Overdue
    BY <1>3, <1>9 DEF Overdue, Late
  <2>4. Ledger!Take(w, j)
    BY <1>1, <1>3, <1>5, <1>6, <1>7, <2>1, <2>2, <2>3
       DEF Ledger!Take, Overdue, StraysOf
  <2> QED BY <2>4 DEF Ledger!Next
<1> QED BY <1>8, <1>9

(* Every step of the queue is a step of the ledger or none at all.         *)
LEMMA LedgerStep ==
  Accounts /\ Accounts' /\ [Next]_vars => [Ledger!Next]_(Ledger!ledger)
<1> SUFFICES ASSUME Accounts, Accounts', [Next]_vars
             PROVE  \/ Ledger!Next
                    \/ /\ Outcome' = Outcome /\ Holder' = Holder
                       /\ Overdue' = Overdue /\ StraysOf' = StraysOf
  BY DEF Ledger!ledger, Overdue, StraysOf
<1>0. TypeOK /\ ClaimsUnique /\ ClaimsUnique'
  BY DEF Accounts
<1>1. ASSUME NEW j \in JobId, EnqueueJob(j) PROVE Ledger!Next
  <2>1. Outcome[j] = "absent" /\ Outcome' = [Outcome EXCEPT ![j] = "open"]
    BY <1>0, <1>1 DEF EnqueueJob, Outcome, TypeOK
  <2>2. \A k \in JobId : Same(k) /\ (Late(k)' <=> Late(k))
    BY <1>0, <1>1, EnqueueEffect, SameView
  <2>3. Holder' = Holder /\ StraysOf' = StraysOf /\ Overdue' = Overdue
    BY <1>0, <2>2, NoJobChanges DEF Overdue
  <2>4. Ledger!Add(j)
    BY <2>1, <2>3 DEF Ledger!Add, Overdue, StraysOf
  <2> QED BY <2>4 DEF Ledger!Next
<1>2. ASSUME NEW w \in Worker, NEW j \in JobId, ClaimNextJob(w, j)
      PROVE  Ledger!Next
  BY <1>0, <1>2, ClaimInLedger
<1>3. ASSUME NEW w \in Worker, MarkJobDone(w) \/ FailOrRetryJob(w)
      PROVE  Ledger!Next
  <2>1. holding[w] \in JobId
    BY <1>0, <1>3, Answers
  <2> QED BY <1>0, <1>3, <2>1, AnswerInLedger
<1>4. ASSUME NEW w \in Worker, Crash(w) PROVE Ledger!Next
  <2>1. holding[w] \in JobId
    BY <1>0, <1>4 DEF Crash, TypeOK
  <2> QED BY <1>0, <1>4, <2>1, CrashInLedger
<1>5. CASE Tick
  <2>1. \A k \in JobId : /\ Same(k)
                         /\ Late(k)' => Claimed(k)
                         /\ Late(k) => Late(k)'
    BY <1>0, <1>5, TickEffect
  <2>2. Holder' = Holder /\ StraysOf' = StraysOf
    BY <1>0, <2>1, NoJobChanges
  <2>3. Outcome' = Outcome
    BY <1>5 DEF Tick, Outcome
  <2>4. Overdue' = Overdue \cup Overdue'
    BY <2>1 DEF Overdue
  <2>5. Overdue' \in SUBSET {j \in JobId : Holder[j] # NoJob}
    <3>1. ASSUME NEW k \in JobId, Late(k)' PROVE Holder[k] # NoJob
      <4>1. PICK v \in Worker : HasClaim(v, k)
        BY <2>1, <3>1 DEF Claimed
      <4>2. Holder[k] = v
        BY <1>0, <4>1, HolderMapping DEF MappingFacts
      <4> QED BY <4>2, NoJobAssumption
    <3> QED BY <3>1 DEF Overdue
  <2>6. Ledger!FallOverdue
    BY <2>2, <2>3, <2>4, <2>5 DEF Ledger!FallOverdue, Overdue, StraysOf
  <2> QED BY <2>6 DEF Ledger!Next
<1>6. CASE UNCHANGED vars
  <2>1. \A k \in JobId : Same(k) /\ (Late(k)' <=> Late(k))
    BY <1>6 DEF Same, Holders, HasClaim, Late, Claimed
  <2>2. Outcome' = Outcome
    BY <1>6 DEF Outcome
  <2> QED BY <1>0, <2>1, <2>2, NoJobChanges DEF Overdue
<1> QED
  BY <1>1, <1>2, <1>3, <1>4, <1>5, <1>6 DEF Next

(* The queue implements JobLedger, however long the handlers take: a job   *)
(* is taken only from the dead and the overdue, and what was settled is    *)
(* changed only by a worker that had lost the job.                         *)
THEOREM ImplementsLedger == Spec => KeepsLedger
<1>1. Init => Ledger!Init
  <2> SUFFICES ASSUME Init PROVE Ledger!Init
    OBVIOUS
  <2>1. Outcome = [j \in JobId |-> "absent"]
    BY DEF Init, Outcome
  <2>2. \A j \in JobId : ~Claimed(j) /\ Strays(j) = {}
    BY NoJobAssumption DEF Init, Claimed, HasClaim, Strays, Holders
  <2>3. Holder = [j \in JobId |-> NoJob]
    BY <2>2 DEF Holder
  <2>4. Overdue = {} /\ StraysOf = [j \in JobId |-> {}]
    BY <2>2 DEF Overdue, StraysOf, Late
  <2> QED BY <2>1, <2>3, <2>4 DEF Ledger!Init, Overdue, StraysOf
<1> QED
  BY <1>1, AccountsInit, AccountsStep, LedgerStep, PTL
  DEF Spec, KeepsLedger, Ledger!Spec
=============================================================================
