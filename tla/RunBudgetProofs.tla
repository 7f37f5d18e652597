---------------------------- MODULE RunBudgetProofs ----------------------------
(***************************************************************************)
(* A run overspends its ceiling by less than one call per caller and per   *)
(* answer that was lost, however many callers there are and whatever the   *)
(* ceiling and the calls cost.                                             *)
(***************************************************************************)
EXTENDS LlmCalls, FiniteSetTheorems, TLAPS

Asked == {c \in Caller : calls[c] = "asked"}
Answered == {c \in Caller : calls[c] = "answered"}

(* sum adds up what a set of callers owes: the provers have no induction   *)
(* to unfold a recursive sum with, so the invariant carries the sums along.*)
Sums(sum) ==
  \A T \in SUBSET Caller : \A c \in Caller \ T :
    sum[T \cup {c}] = sum[T] + owed[c]
SumsBounded(sum) ==
  \A T \in SUBSET Caller :
    sum[T] <= Cardinality(T \cap Answered) * MaxCost

(* What is charged and not recorded is owed by somebody, or lost.          *)
Accounted(sum) ==
  /\ Sums(sum)
  /\ SumsBounded(sum)
  /\ charged <= spent + sum[Caller] + lost * MaxCost
Unrecorded == \E sum \in [SUBSET Caller -> Nat] : Accounted(sum)

(* Only who holds an answer owes for it.                                   *)
OwedForAnswer == \A c \in Caller : calls[c] # "answered" => owed[c] = 0

(* Requests that are out cannot take the run beyond the bound either.      *)
Reserved == charged + Cardinality(Asked) * MaxCost < budget + Slack

(* Nobody calls before the row has its budget.                             *)
NotYet == birth # "over" => charged = 0 /\ Asked = {}

BudgetInv == TypeOK /\ Unrecorded /\ OwedForAnswer /\ Reserved /\ NotYet

-----------------------------------------------------------------------------
(* The two sets are disjoint parts of the callers.                         *)
LEMMA Parts ==
         /\ IsFiniteSet(Asked) /\ IsFiniteSet(Answered)
         /\ Cardinality(Asked) \in Nat /\ Cardinality(Answered) \in Nat
         /\ Cardinality(Caller) \in Nat /\ Cardinality(Caller) >= 1
         /\ \A c \in Caller : calls[c] = "idle" =>
              Cardinality(Asked) + Cardinality(Answered) < Cardinality(Caller)
<1>1. IsFiniteSet(Caller) /\ Asked \subseteq Caller /\ Answered \subseteq Caller
  BY CallerAssumption DEF Asked, Answered
<1>2. IsFiniteSet(Asked) /\ IsFiniteSet(Answered)
  BY <1>1, FS_Subset
<1>3. /\ Cardinality(Asked) \in Nat /\ Cardinality(Answered) \in Nat
      /\ Cardinality(Caller) \in Nat
  BY <1>1, <1>2, FS_CardinalityType
<1>4. Cardinality(Caller) >= 1
  BY <1>3, CallerAssumption, FS_EmptySet
<1>5. ASSUME NEW c \in Caller, calls[c] = "idle"
      PROVE  Cardinality(Asked) + Cardinality(Answered) < Cardinality(Caller)
  <2>1. Asked \cap Answered = {}
    BY DEF Asked, Answered
  <2>2. Cardinality(Asked \cap Answered) = 0
    BY <2>1, FS_EmptySet
  <2>3. Cardinality(Asked \cup Answered)
          = Cardinality(Asked) + Cardinality(Answered)
    <3>1. Cardinality(Asked \cup Answered) = Cardinality(Asked)
            + Cardinality(Answered) - Cardinality(Asked \cap Answered)
      BY <1>2, FS_Union, Zenon
    <3> QED BY <3>1, <2>2, <1>3
  <2>4. Asked \cup Answered \subseteq Caller \ {c}
    BY <1>5 DEF Asked, Answered
  <2>5. /\ IsFiniteSet(Caller \ {c})
        /\ Cardinality(Caller \ {c}) = Cardinality(Caller) - 1
    BY <1>1, <1>5, FS_RemoveElement
  <2>6. Cardinality(Asked \cup Answered) <= Cardinality(Caller) - 1
    BY <2>4, <2>5, FS_Subset
  <2> QED BY <2>3, <2>6, <1>3
<1> QED BY <1>2, <1>3, <1>4, <1>5

(* One caller more, or less, in a set of callers.                          *)
LEMMA OneMore ==
  ASSUME NEW S, NEW c, IsFiniteSet(S), c \notin S
  PROVE  Cardinality(S \cup {c}) = Cardinality(S) + 1
BY FS_AddElement

LEMMA OneLess ==
  ASSUME NEW S, NEW c, IsFiniteSet(S), c \in S
  PROVE  Cardinality(S \ {c}) = Cardinality(S) - 1
BY FS_RemoveElement

(* Products with MaxCost, for the provers.                                 *)
LEMMA Products ==
  ASSUME NEW m \in Nat, NEW i \in Nat, NEW j \in Nat
  PROVE  /\ i * m \in Nat
         /\ (i + 1) * m = i * m + m
         /\ (i + j) * m = i * m + j * m
         /\ i <= j => i * m <= j * m
<1>1. i * m \in Nat /\ (i + 1) * m = i * m + m /\ (i + j) * m = i * m + j * m
  BY SMT
<1>2. ASSUME i <= j PROVE i * m <= j * m
  <2>1. PICK k \in Nat : j = i + k
    <3>1. j - i \in Nat /\ j = i + (j - i)
      BY <1>2
    <3> QED BY <3>1
  <2>2. j * m = i * m + k * m /\ k * m \in Nat /\ i * m \in Nat
    BY <2>1, SMT
  <2> QED BY <2>2
<1> QED BY <1>1, <1>2

-----------------------------------------------------------------------------
LEMMA InitBudget == Init => BudgetInv
<1> SUFFICES ASSUME Init PROVE BudgetInv
  OBVIOUS
<1> DEFINE zero == [T \in SUBSET Caller |-> 0]
<1>1. TypeOK
  BY BudgetAssumption, CostAssumption, LostAssumption DEF Init, TypeOK
<1>2. Asked = {} /\ Answered = {}
  BY DEF Init, Asked, Answered
<1>3. Cardinality({}) = 0
  BY FS_EmptySet
<1>4. zero \in [SUBSET Caller -> Nat]
  OBVIOUS
<1>5. Sums(zero)
  BY DEF Init, Sums
<1>6. SumsBounded(zero)
  <2> SUFFICES ASSUME NEW T \in SUBSET Caller
               PROVE  zero[T] <= Cardinality(T \cap Answered) * MaxCost
    BY DEF SumsBounded
  <2>1. Cardinality(T \cap Answered) = 0
    BY <1>2, <1>3
  <2> QED BY <2>1, CostAssumption
<1>7. charged <= spent + zero[Caller] + lost * MaxCost
  BY CostAssumption DEF Init
<1>8. Unrecorded
  BY <1>4, <1>5, <1>6, <1>7 DEF Unrecorded, Accounted
<1>9. 1 * MaxCost <= Cardinality(Caller) * MaxCost
  BY Parts, Products, CostAssumption
<1>10. Reserved
  BY <1>2, <1>3, <1>9, Parts, CostAssumption, BudgetAssumption
  DEF Init, Reserved, Slack
<1> QED BY <1>1, <1>2, <1>8, <1>10 DEF BudgetInv, NotYet, OwedForAnswer, Init

(* A step that leaves the answers alone, and the accounts with them.       *)
LEMMA AccountsKept ==
  ASSUME Unrecorded, Answered' = Answered,
         UNCHANGED <<charged, spent, owed, lost>>
  PROVE  Unrecorded'
<1>1. PICK sum \in [SUBSET Caller -> Nat] : Accounted(sum)
  BY DEF Unrecorded
<1>2. Accounted(sum)'
  BY <1>1 DEF Accounted, Sums, SumsBounded
<1> QED BY <1>2 DEF Unrecorded

(* The steps before the first call: nothing is charged yet.                *)
LEMMA BirthStep ==
  ASSUME BudgetInv,
         CreateByIssue \/ SetRunBudget \/ BudgetNotSet \/ CreateByRunTests
  PROVE  BudgetInv'
<1> USE DEF BudgetInv
<1>1. /\ birth # "over" /\ budget' \in Nat
      /\ birth' \in {"none", "created", "over"}
      /\ UNCHANGED <<ceiling, spent, calls, owed, charged, lost>>
  BY BudgetAssumption
  DEF TypeOK, CreateByIssue, SetRunBudget, BudgetNotSet, CreateByRunTests
<1>2. TypeOK'
  BY <1>1 DEF TypeOK
<1>3. Asked' = Asked /\ Answered' = Answered /\ charged = 0 /\ Asked = {}
  BY <1>1 DEF Asked, Answered, NotYet
<1>4. Unrecorded' /\ OwedForAnswer'
  BY <1>1, <1>3, AccountsKept DEF OwedForAnswer
<1>5. Cardinality(Asked) = 0
  BY <1>3, FS_EmptySet
<1>6. 1 * MaxCost <= (Cardinality(Caller) + lost) * MaxCost
  BY Parts, Products, CostAssumption DEF TypeOK
<1>7. Reserved'
  BY <1>1, <1>3, <1>5, <1>6, Parts, CostAssumption
  DEF Reserved, Slack, TypeOK
<1>8. NotYet'
  BY <1>1, <1>3 DEF NotYet
<1> QED BY <1>2, <1>4, <1>7, <1>8

(* The check passes: there is room for one more call, and for what is not  *)
(* recorded yet.                                                           *)
LEMMA CheckStep ==
  ASSUME BudgetInv, NEW c \in Caller, CheckBudget(c)
  PROVE  BudgetInv'
<1> USE DEF BudgetInv
<1> DEFINE a == Cardinality(Asked)
           b == Cardinality(Answered)
           n == Cardinality(Caller)
<1>1. TypeOK'
  BY DEF TypeOK, CheckBudget
<1>2. Asked' = Asked \cup {c} /\ Answered' = Answered /\ c \notin Asked
  BY DEF TypeOK, CheckBudget, Asked, Answered
<1>3. Cardinality(Asked') = a + 1
  BY <1>2, Parts, OneMore
<1>4. Unrecorded'
  BY <1>2, AccountsKept DEF CheckBudget
<1>5. OwedForAnswer'
  BY DEF OwedForAnswer, CheckBudget, TypeOK
<1>6. spent < budget /\ calls[c] = "idle"
  BY DEF CheckBudget, Exhausted, TypeOK
<1>7. a + b < n /\ a \in Nat /\ b \in Nat /\ n \in Nat
  BY <1>6, Parts
<1>8. charged <= spent + b * MaxCost + lost * MaxCost
  <2>1. PICK sum \in [SUBSET Caller -> Nat] : Accounted(sum)
    BY DEF Unrecorded
  <2>2. Caller \cap Answered = Answered
    BY DEF Answered
  <2>3. sum[Caller] <= b * MaxCost /\ sum[Caller] \in Nat
    BY <2>1, <2>2 DEF Accounted, SumsBounded
  <2>4. b * MaxCost \in Nat /\ lost * MaxCost \in Nat
    BY <1>7, Products, CostAssumption DEF TypeOK
  <2> QED BY <2>1, <2>3, <2>4 DEF Accounted, TypeOK
<1>9. (a + 1 + b) * MaxCost <= n * MaxCost
  BY <1>7, Products, CostAssumption
<1>10. /\ (a + 1 + b) * MaxCost = (a + 1) * MaxCost + b * MaxCost
       /\ (n + lost) * MaxCost = n * MaxCost + lost * MaxCost
       /\ {(a + 1) * MaxCost, b * MaxCost, n * MaxCost, lost * MaxCost}
            \subseteq Nat
  BY <1>7, Products, CostAssumption DEF TypeOK
<1>11. charged + (a + 1) * MaxCost < budget + (n + lost) * MaxCost
  BY <1>6, <1>8, <1>9, <1>10 DEF TypeOK
<1>12. Reserved'
  BY <1>3, <1>11 DEF Reserved, Slack, CheckBudget
<1>13. NotYet'
  BY DEF NotYet, CheckBudget
<1> QED BY <1>1, <1>4, <1>5, <1>12, <1>13

(* The provider charges: the request that was out becomes an answer held.  *)
LEMMA AnswerAccounts ==
  ASSUME BudgetInv, NEW c \in Caller, NEW cost \in 1 .. MaxCost,
         calls[c] = "asked",
         calls' = [calls EXCEPT ![c] = "answered"],
         owed' = [owed EXCEPT ![c] = cost], charged' = charged + cost,
         UNCHANGED <<spent, lost>>
  PROVE  Unrecorded'
<1> USE DEF BudgetInv
<1>1. PICK sum \in [SUBSET Caller -> Nat] : Accounted(sum)
  BY DEF Unrecorded
<1> DEFINE new == [T \in SUBSET Caller |-> IF c \in T THEN sum[T] + cost
                                           ELSE sum[T]]
<1>2. cost \in Nat /\ cost <= MaxCost /\ owed[c] = 0 /\ c \notin Answered
      /\ Answered' = Answered \cup {c}
  BY CostAssumption DEF OwedForAnswer, TypeOK, Answered
<1>3. new \in [SUBSET Caller -> Nat]
  BY <1>2
<1>4. Sums(new)'
  <2> SUFFICES ASSUME NEW T \in SUBSET Caller, NEW d \in Caller \ T
               PROVE  new[T \cup {d}] = new[T] + owed'[d]
    BY DEF Sums
  <2>1. sum[T \cup {d}] = sum[T] + owed[d]
    BY <1>1 DEF Accounted, Sums
  <2>2. T \cup {d} \in SUBSET Caller /\ sum[T] \in Nat /\ owed[d] \in Nat
    <3>1. owed[d] \in 0 .. MaxCost
      BY DEF TypeOK
    <3> QED BY <3>1, CostAssumption
  <2>3. owed'[d] = IF d = c THEN cost ELSE owed[d]
    BY DEF TypeOK
  <2>4. CASE d = c
    BY <1>2, <2>1, <2>2, <2>3, <2>4
  <2>5. CASE d # c /\ c \in T
    BY <1>2, <2>1, <2>2, <2>3, <2>5
  <2>6. CASE d # c /\ c \notin T
    BY <1>2, <2>1, <2>2, <2>3, <2>6
  <2> QED BY <2>4, <2>5, <2>6
<1>5. SumsBounded(new)'
  <2> SUFFICES ASSUME NEW T \in SUBSET Caller
               PROVE  new[T] <= Cardinality(T \cap Answered') * MaxCost
    BY DEF SumsBounded
  <2> DEFINE k == Cardinality(T \cap Answered)
  <2>1. sum[T] <= k * MaxCost /\ sum[T] \in Nat
    BY <1>1 DEF Accounted, SumsBounded
  <2>2. IsFiniteSet(T \cap Answered) /\ k \in Nat
    BY Parts, FS_Subset, FS_CardinalityType
  <2>3. CASE c \in T
    <3>1. T \cap Answered' = (T \cap Answered) \cup {c}
      BY <1>2, <2>3
    <3>2. Cardinality(T \cap Answered') = k + 1
      BY <1>2, <2>2, <3>1, OneMore
    <3>3. (k + 1) * MaxCost = k * MaxCost + MaxCost /\ k * MaxCost \in Nat
      BY <2>2, Products, CostAssumption
    <3>4. new[T] = sum[T] + cost
      BY <2>3
    <3> QED BY <1>2, <2>1, <3>2, <3>3, <3>4, CostAssumption
  <2>4. CASE c \notin T
    BY <1>2, <2>1, <2>4
  <2> QED BY <2>3, <2>4
<1>6. charged' <= spent' + new[Caller] + lost' * MaxCost
  <2>1. /\ new[Caller] = sum[Caller] + cost /\ sum[Caller] \in Nat
        /\ charged <= spent + sum[Caller] + lost * MaxCost
        /\ lost * MaxCost \in Nat
    <3>1. lost \in Nat /\ MaxCost \in Nat /\ Caller \in SUBSET Caller
      BY CostAssumption DEF TypeOK
    <3>2. lost * MaxCost \in Nat
      BY <3>1, Products
    <3>3. new[Caller] = sum[Caller] + cost /\ sum[Caller] \in Nat
      BY <3>1
    <3> QED BY <1>1, <3>2, <3>3 DEF Accounted
  <2> QED BY <1>2, <2>1 DEF TypeOK
<1> QED BY <1>3, <1>4, <1>5, <1>6 DEF Unrecorded, Accounted

LEMMA AnswerStep ==
  ASSUME BudgetInv, NEW c \in Caller, Answer(c)
  PROVE  BudgetInv'
<1> USE DEF BudgetInv
<1> DEFINE a == Cardinality(Asked)
<1>1. PICK cost \in 1 .. MaxCost :
        owed' = [owed EXCEPT ![c] = cost] /\ charged' = charged + cost
  BY DEF Answer
<1>2. TypeOK'
  BY <1>1, CostAssumption DEF TypeOK, Answer
<1>3. Unrecorded'
  BY <1>1, AnswerAccounts DEF Answer
<1>4. OwedForAnswer'
  BY <1>1 DEF OwedForAnswer, Answer, TypeOK
<1>5. Asked' = Asked \ {c} /\ c \in Asked
  BY DEF TypeOK, Answer, Asked
<1>6. Cardinality(Asked') = a - 1
  BY <1>5, Parts, OneLess
<1>7. a \in Nat /\ a - 1 \in Nat
  <2>1. a # 0
    BY <1>5, Parts, FS_EmptySet
  <2> QED BY <2>1, Parts
<1>8. a * MaxCost = (a - 1) * MaxCost + MaxCost /\ (a - 1) * MaxCost \in Nat
  <2>1. (a - 1) + 1 = a
    BY <1>7
  <2> QED BY <2>1, <1>7, Products, CostAssumption
<1>9. Slack \in Nat
  BY Parts, Products, CostAssumption DEF Slack, TypeOK
<1>10. Reserved'
  BY <1>1, <1>6, <1>8, <1>9, CostAssumption DEF Reserved, Slack, Answer, TypeOK
<1>11. NotYet'
  BY <1>5 DEF NotYet, Answer
<1> QED BY <1>2, <1>3, <1>4, <1>10, <1>11

LEMMA FailStep ==
  ASSUME BudgetInv, NEW c \in Caller, RequestFails(c)
  PROVE  BudgetInv'
<1> USE DEF BudgetInv
<1> DEFINE a == Cardinality(Asked)
<1>1. TypeOK'
  BY DEF TypeOK, RequestFails
<1>2. Asked' = Asked \ {c} /\ c \in Asked /\ Answered' = Answered
  BY DEF TypeOK, RequestFails, Asked, Answered
<1>3. Unrecorded' /\ OwedForAnswer'
  BY <1>2, AccountsKept DEF OwedForAnswer, RequestFails, TypeOK
<1>4. Cardinality(Asked') = a - 1
  BY <1>2, Parts, OneLess
<1>5. a \in Nat /\ a - 1 \in Nat
  <2>1. a # 0
    BY <1>2, Parts, FS_EmptySet
  <2> QED BY <2>1, Parts
<1>6. (a - 1) * MaxCost <= a * MaxCost
      /\ (a - 1) * MaxCost \in Nat /\ a * MaxCost \in Nat
  BY <1>5, Products, CostAssumption
<1>7. Slack \in Nat
  BY Parts, Products, CostAssumption DEF Slack, TypeOK
<1>8. Reserved'
  BY <1>4, <1>6, <1>7 DEF Reserved, Slack, RequestFails, TypeOK
<1>9. NotYet'
  BY <1>2 DEF NotYet, RequestFails
<1> QED BY <1>1, <1>3, <1>8, <1>9

(* An answer is recorded, or lost: its share leaves the sums.              *)
LEMMA SettleAccounts ==
  ASSUME BudgetInv, NEW c \in Caller, calls[c] = "answered",
         calls' = [calls EXCEPT ![c] = "idle"],
         owed' = [owed EXCEPT ![c] = 0], charged' = charged,
         \/ spent' = spent + owed[c] /\ lost' = lost
         \/ spent' = spent /\ lost' = lost + 1
  PROVE  Unrecorded'
<1> USE DEF BudgetInv
<1>1. PICK sum \in [SUBSET Caller -> Nat] : Accounted(sum)
  BY DEF Unrecorded
<1> DEFINE new == [T \in SUBSET Caller |-> sum[T \ {c}]]
<1>2. owed[c] \in Nat /\ owed[c] <= MaxCost /\ Answered' = Answered \ {c}
  BY CostAssumption DEF TypeOK, Answered
<1>3. new \in [SUBSET Caller -> Nat]
  OBVIOUS
<1>4. Sums(new)'
  <2> SUFFICES ASSUME NEW T \in SUBSET Caller, NEW d \in Caller \ T
               PROVE  new[T \cup {d}] = new[T] + owed'[d]
    BY DEF Sums
  <2>1. T \cup {d} \in SUBSET Caller /\ T \ {c} \in SUBSET Caller
        /\ sum[T \ {c}] \in Nat
    OBVIOUS
  <2>2. owed'[d] = IF d = c THEN 0 ELSE owed[d]
    BY DEF TypeOK
  <2>3. CASE d = c
    <3>1. (T \cup {d}) \ {c} = T \ {c}
      BY <2>3
    <3>2. new[T \cup {d}] = sum[T \ {c}] /\ new[T] = sum[T \ {c}]
      BY <2>1, <3>1
    <3> QED BY <2>1, <2>2, <2>3, <3>2
  <2>4. CASE d # c
    <3>1. (T \cup {d}) \ {c} = (T \ {c}) \cup {d} /\ d \in Caller \ (T \ {c})
      BY <2>4
    <3>2. sum[(T \ {c}) \cup {d}] = sum[T \ {c}] + owed[d]
      BY <1>1, <2>1, <3>1 DEF Accounted, Sums
    <3> QED BY <2>1, <2>2, <2>4, <3>1, <3>2
  <2> QED BY <2>3, <2>4
<1>5. SumsBounded(new)'
  <2> SUFFICES ASSUME NEW T \in SUBSET Caller
               PROVE  new[T] <= Cardinality(T \cap Answered') * MaxCost
    BY DEF SumsBounded
  <2>1. T \cap Answered' = (T \ {c}) \cap Answered
    BY <1>2
  <2> QED BY <1>1, <2>1 DEF Accounted, SumsBounded
<1>6. charged' <= spent' + new[Caller] + lost' * MaxCost
  <2>1. sum[Caller] = new[Caller] + owed[c] /\ new[Caller] \in Nat
    <3>1. Caller \ {c} \in SUBSET Caller /\ c \in Caller \ (Caller \ {c})
          /\ (Caller \ {c}) \cup {c} = Caller
      OBVIOUS
    <3>2. sum[(Caller \ {c}) \cup {c}] = sum[Caller \ {c}] + owed[c]
      BY <1>1, <3>1 DEF Accounted, Sums
    <3> QED BY <1>3, <3>1, <3>2
  <2>2. /\ charged <= spent + sum[Caller] + lost * MaxCost
        /\ lost * MaxCost \in Nat
        /\ (lost + 1) * MaxCost = lost * MaxCost + MaxCost
    BY <1>1, Products, CostAssumption DEF Accounted, TypeOK
  <2> QED BY <1>2, <2>1, <2>2, CostAssumption DEF TypeOK
<1> QED BY <1>3, <1>4, <1>5, <1>6 DEF Unrecorded, Accounted

LEMMA SettleStep ==
  ASSUME BudgetInv, NEW c \in Caller, RecordLlmCall(c) \/ LoseAnswer(c)
  PROVE  BudgetInv'
<1> USE DEF BudgetInv
<1>1. TypeOK'
  BY CostAssumption, LostAssumption
  DEF TypeOK, RecordLlmCall, LoseAnswer, Added
<1>2. Unrecorded'
  BY SettleAccounts DEF RecordLlmCall, LoseAnswer, Added
<1>3. OwedForAnswer'
  BY DEF OwedForAnswer, RecordLlmCall, LoseAnswer, TypeOK
<1>4. /\ Asked' = Asked /\ charged' = charged /\ budget' = budget
      /\ birth' = birth /\ lost' \in {lost, lost + 1} /\ lost \in Nat
  BY DEF TypeOK, RecordLlmCall, LoseAnswer, Asked
<1>5. /\ Cardinality(Caller) + (lost + 1) = (Cardinality(Caller) + lost) + 1
      /\ Cardinality(Caller) + lost \in Nat
  BY <1>4, Parts
<1>6. Slack' >= Slack /\ Slack \in Nat /\ Slack' \in Nat
  BY <1>4, <1>5, Products, CostAssumption DEF Slack
<1>7. Cardinality(Asked) * MaxCost \in Nat
  BY Parts, Products, CostAssumption
<1>8. Reserved'
  BY <1>4, <1>6, <1>7 DEF Reserved, TypeOK
<1>9. NotYet'
  BY <1>4 DEF NotYet
<1> QED BY <1>1, <1>2, <1>3, <1>8, <1>9

LEMMA StutterStep ==
  ASSUME BudgetInv, UNCHANGED vars
  PROVE  BudgetInv'
<1>1. Asked' = Asked /\ Answered' = Answered
  BY DEF vars, Asked, Answered
<1>2. Unrecorded'
  BY <1>1, AccountsKept DEF BudgetInv, vars
<1> QED BY <1>1, <1>2
        DEF BudgetInv, TypeOK, OwedForAnswer, Reserved, Slack, NotYet, vars

-----------------------------------------------------------------------------
LEMMA BudgetInvariant == Spec => []BudgetInv
<1>1. BudgetInv /\ [Next]_vars => BudgetInv'
  <2> SUFFICES ASSUME BudgetInv, [Next]_vars PROVE BudgetInv'
    OBVIOUS
  <2>1. CASE CreateByIssue \/ SetRunBudget \/ BudgetNotSet \/ CreateByRunTests
    BY <2>1, BirthStep
  <2>2. ASSUME NEW c \in Caller,
               \/ CheckBudget(c) \/ Answer(c) \/ RequestFails(c)
               \/ RecordLlmCall(c) \/ LoseAnswer(c)
        PROVE  BudgetInv'
    BY <2>2, CheckStep, AnswerStep, FailStep, SettleStep
  <2>3. CASE UNCHANGED vars
    BY <2>3, StutterStep
  <2> QED BY <2>1, <2>2, <2>3 DEF Next
<1> QED BY InitBudget, <1>1, PTL DEF Spec

(* Every column and every caller keeps its type.                           *)
THEOREM BudgetTypeCorrect == Spec => []TypeOK
<1>1. BudgetInv => TypeOK
  BY DEF BudgetInv
<1> QED BY <1>1, BudgetInvariant, PTL

(* The overspending of a run is bounded, for every number of callers,      *)
(* price and ceiling: gateway.call checks before it spends and records     *)
(* after.                                                                  *)
THEOREM OvershootAlwaysBounded == Spec => []OvershootBounded
<1>1. BudgetInv => OvershootBounded
  <2> SUFFICES ASSUME BudgetInv PROVE OvershootBounded
    OBVIOUS
  <2>1. Cardinality(Asked) * MaxCost \in Nat /\ Slack \in Nat
    BY Parts, Products, CostAssumption DEF Slack, BudgetInv, TypeOK
  <2> QED BY <2>1 DEF BudgetInv, Reserved, OvershootBounded, TypeOK
<1> QED BY <1>1, BudgetInvariant, PTL

-----------------------------------------------------------------------------
(* The jobs that make the calls.  A step of theirs is one of the budget's, *)
(* or none.                                                                *)
LEMMA CallsStepMaps == [CallsNext]_callVars => [Next]_vars
<1> SUFFICES ASSUME [CallsNext]_callVars PROVE [Next]_vars
  OBVIOUS
<1>1. CASE Born
  BY <1>1 DEF Born, Next
<1>2. ASSUME NEW c \in Caller,
             \/ Claim(c) \/ CallAgent(c) \/ Finish(c) \/ StreamEnds(c)
             \/ WorkerDies(c) \/ CallFails(c) \/ CallReturns(c)
             \/ RecordFails(c)
      PROVE  [Next]_vars
  <2>1. ASSUME NEW ending, NEW end, EndsWith(c, ending, end)
        PROVE  RequestFails(c) \/ Answer(c)
    BY <2>1 DEF EndsWith
  <2> QED BY <1>2, <2>1
          DEF Claim, CallAgent, Finish, StreamEnds, WorkerDies, CallFails,
              CallReturns, RecordFails, Next
<1>3. CASE UNCHANGED callVars
  BY <1>3 DEF callVars
<1> QED BY <1>1, <1>2, <1>3 DEF CallsNext

(* The jobs with their streams, failures and deaths implement the budget,  *)
(* whatever they do with an answer.                                        *)
THEOREM CallsAreBudgeted == CallsSpec => Spec
<1>1. CallsInit => Init
  BY DEF CallsInit
<1> QED BY <1>1, CallsStepMaps, PTL DEF CallsSpec, Spec

(* ... and so a run overspends its ceiling by no more than is said above.  *)
THEOREM CallsOvershootBounded == CallsSpec => [](TypeOK /\ OvershootBounded)
BY CallsAreBudgeted, BudgetTypeCorrect, OvershootAlwaysBounded, PTL

-----------------------------------------------------------------------------
(* How many answers may still be lost: those of the attempts that are      *)
(* left, of which a death allows for one more than MAX_JOB_ATTEMPTS, and   *)
(* of the attempt under way, whose last call to fail ends it.              *)
PerAttempt == 1 + MaxRefactors
AttemptsLeft(c) ==
  IF attempts[c] < MAX_JOB_ATTEMPTS THEN MAX_JOB_ATTEMPTS - attempts[c]
  ELSE IF job[c] = "queued" \/ stream[c].end = "dead" THEN 1 ELSE 0
UnderWay(c) ==
  IF job[c] # "working" THEN 0
  ELSE 1 + (MaxRefactors - refactors[c])
         + (IF stream[c].best THEN 1 ELSE 0)
Room(c) ==
  IF job[c] \in {"queued", "working"}
  THEN AttemptsLeft(c) * PerAttempt + UnderWay(c) ELSE 0

Booked(sum) ==
  \A T \in SUBSET Caller : \A c \in Caller \ T :
    sum[T \cup {c}] = sum[T] + Room(c)
Allowed ==
  (Cardinality(Caller) * MAX_JOB_ATTEMPTS + deaths) * PerAttempt
RoomKept ==
  \E sum \in [SUBSET Caller -> Nat] :
    Booked(sum) /\ lost + sum[Caller] <= Allowed

End == {"none", "open", "answered", "fault", "spent", "dead"}
CallsTyped ==
  /\ job \in [Caller -> {"queued", "working", "done", "refused", "dead"}]
  /\ attempts \in [Caller -> Nat] /\ refactors \in [Caller -> 0 .. MaxRefactors]
  /\ stream \in [Caller -> [best : BOOLEAN, end : End, rejected : BOOLEAN]]
  /\ deaths \in Nat /\ lost \in Nat
(* A call is only made by who works on a job.                              *)
CallsOfWorkers == \A c \in Caller : job[c] # "working" => stream[c] = Quiet

CallsInv == CallsTyped /\ CallsOfWorkers /\ RoomKept

LEMMA Bounds ==
  /\ MAX_JOB_ATTEMPTS \in Nat \ {0} /\ MaxRefactors \in Nat
  /\ PerAttempt \in Nat /\ PerAttempt = 1 + MaxRefactors
  /\ Cardinality(Caller) \in Nat
BY AttemptsAssumption, Parts DEF PerAttempt

LEMMA RoomIsNat ==
  ASSUME CallsTyped, NEW c \in Caller
  PROVE  /\ AttemptsLeft(c) \in Nat /\ UnderWay(c) \in Nat /\ Room(c) \in Nat
         /\ job[c] = "working" => Room(c) >= 1
<1>1. /\ attempts[c] \in Nat /\ refactors[c] \in 0 .. MaxRefactors
      /\ job[c] = "working" => UnderWay(c) >= 1
  BY Bounds DEF CallsTyped, UnderWay
<1>2. AttemptsLeft(c) \in Nat /\ UnderWay(c) \in Nat
  BY <1>1, Bounds DEF AttemptsLeft, UnderWay
<1>3. AttemptsLeft(c) * PerAttempt \in Nat
  BY <1>2, Bounds, Products
<1> QED BY <1>1, <1>2, <1>3 DEF Room

LEMMA RoomTyped == CallsTyped => \A d \in Caller : Room(d) \in Nat
BY RoomIsNat

(* A step of c that takes at least as much from its room as it loses, but  *)
(* for what a death allows.                                                *)
LEMMA RoomMoves ==
  ASSUME CallsTyped, CallsTyped', RoomKept, NEW c \in Caller,
         \A d \in Caller \ {c} : Room(d)' = Room(d),
         \/ deaths' = deaths /\ lost' + Room(c)' <= lost + Room(c)
         \/ /\ deaths' = deaths + 1
            /\ lost' + Room(c)' <= lost + Room(c) + PerAttempt
  PROVE  RoomKept'
<1>1. PICK sum \in [SUBSET Caller -> Nat] :
        Booked(sum) /\ lost + sum[Caller] <= Allowed
  BY DEF RoomKept
<1>2. PICK r \in Nat : r = Room(c)'
  <2>1. (\A d \in Caller : Room(d) \in Nat)'
    BY RoomTyped, PTL
  <2> QED BY <2>1
<1> DEFINE new == [T \in SUBSET Caller |->
                     IF c \in T THEN sum[T \ {c}] + r ELSE sum[T]]
<1>3. new \in [SUBSET Caller -> Nat]
  BY <1>2
<1>4. Booked(new)'
  <2> SUFFICES ASSUME NEW T \in SUBSET Caller, NEW d \in Caller \ T
               PROVE  new[T \cup {d}] = new[T] + Room(d)'
    BY DEF Booked
  <2>1. T \cup {d} \in SUBSET Caller /\ T \ {c} \in SUBSET Caller
    OBVIOUS
  <2>2. CASE d = c
    <3>1. (T \cup {d}) \ {c} = T /\ c \in T \cup {d} /\ c \notin T
      BY <2>2
    <3> QED BY <1>2, <2>1, <2>2, <3>1
  <2>3. CASE d # c
    <3>1. Room(d)' = Room(d) /\ Room(d) \in Nat
      BY <2>3, RoomIsNat
    <3>2. CASE c \in T
      <4>1. (T \cup {d}) \ {c} = (T \ {c}) \cup {d} /\ d \in Caller \ (T \ {c})
        BY <2>3
      <4>2. sum[(T \ {c}) \cup {d}] = sum[T \ {c}] + Room(d)
        BY <1>1, <2>1, <4>1 DEF Booked
      <4>3. sum[T \ {c}] \in Nat
        BY <2>1
      <4>4. /\ new[T] = sum[T \ {c}] + r
            /\ new[T \cup {d}] = sum[(T \ {c}) \cup {d}] + r
        BY <2>1, <3>2, <4>1
      <4> HIDE DEF new
      <4> QED BY <1>2, <3>1, <4>2, <4>3, <4>4
    <3>3. CASE c \notin T
      <4>1. sum[T \cup {d}] = sum[T] + Room(d) /\ c \notin T \cup {d}
        BY <1>1, <2>3, <3>3 DEF Booked
      <4> QED BY <2>1, <3>1, <3>3, <4>1
    <3> QED BY <3>2, <3>3
  <2> QED BY <2>2, <2>3
<1>5. /\ sum[Caller] = sum[Caller \ {c}] + Room(c) /\ Room(c) \in Nat
      /\ sum[Caller \ {c}] \in Nat
  <2>1. /\ Caller \ {c} \in SUBSET Caller /\ c \in Caller \ (Caller \ {c})
        /\ (Caller \ {c}) \cup {c} = Caller
    OBVIOUS
  <2>2. sum[(Caller \ {c}) \cup {c}] = sum[Caller \ {c}] + Room(c)
    BY <1>1, <2>1 DEF Booked
  <2> QED BY <2>1, <2>2, RoomIsNat
<1>6. new[Caller] = sum[Caller \ {c}] + r
  OBVIOUS
<1>7. \/ deaths' = deaths /\ Allowed' = Allowed
      \/ deaths' = deaths + 1 /\ Allowed' = Allowed + PerAttempt
  <2> DEFINE all == Cardinality(Caller) * MAX_JOB_ATTEMPTS
  <2>1. all \in Nat /\ deaths \in Nat
    BY Bounds, Products DEF CallsTyped
  <2>2. all + (deaths + 1) = (all + deaths) + 1 /\ all + deaths \in Nat
    BY <2>1
  <2>3. (all + (deaths + 1)) * PerAttempt
          = (all + deaths) * PerAttempt + PerAttempt
    BY <2>2, Bounds, Products
  <2> QED BY <2>3 DEF Allowed, PerAttempt
<1>8. Allowed \in Nat
  <2>1. Cardinality(Caller) * MAX_JOB_ATTEMPTS \in Nat
    BY Bounds, Products
  <2>2. Cardinality(Caller) * MAX_JOB_ATTEMPTS + deaths \in Nat
    BY <2>1 DEF CallsTyped
  <2> QED BY <2>2, Bounds, Products DEF Allowed
<1>9. lost' + new[Caller] <= Allowed'
  BY <1>1, <1>2, <1>5, <1>6, <1>7, <1>8, Bounds DEF CallsTyped
<1> QED BY <1>3, <1>4, <1>9 DEF RoomKept

(* A step that changes the job and the stream of c alone.                  *)
LEMMA OthersKept ==
  ASSUME NEW c \in Caller, NEW d \in Caller \ {c},
         job'[d] = job[d], attempts'[d] = attempts[d],
         refactors'[d] = refactors[d], stream'[d] = stream[d]
  PROVE  Room(d)' = Room(d)
BY DEF Room, AttemptsLeft, UnderWay, PerAttempt

LEMMA InitCalls == CallsInit => CallsInv
<1> SUFFICES ASSUME CallsInit PROVE CallsInv
  OBVIOUS
<1> DEFINE all == MAX_JOB_ATTEMPTS * PerAttempt
           sum == [T \in SUBSET Caller |-> Cardinality(T) * all]
<1>1. CallsTyped /\ CallsOfWorkers
  BY Bounds DEF CallsInit, Init, CallsTyped, CallsOfWorkers, Quiet, End
<1>2. all \in Nat
  BY Bounds, Products
<1>3. ASSUME NEW c \in Caller PROVE Room(c) = all
  <2>1. AttemptsLeft(c) = MAX_JOB_ATTEMPTS /\ UnderWay(c) = 0
    BY Bounds DEF CallsInit, AttemptsLeft, UnderWay
  <2> QED BY <2>1, <1>2 DEF Room, CallsInit
<1>4. ASSUME NEW T \in SUBSET Caller
      PROVE  IsFiniteSet(T) /\ Cardinality(T) \in Nat
  BY CallerAssumption, FS_Subset, FS_CardinalityType
<1>5. sum \in [SUBSET Caller -> Nat]
  BY <1>2, <1>4, Products
<1>6. Booked(sum)
  <2> SUFFICES ASSUME NEW T \in SUBSET Caller, NEW c \in Caller \ T
               PROVE  sum[T \cup {c}] = sum[T] + Room(c)
    BY DEF Booked
  <2>1. Cardinality(T \cup {c}) = Cardinality(T) + 1
    BY <1>4, OneMore
  <2>2. (Cardinality(T) + 1) * all = Cardinality(T) * all + all
    BY <1>2, <1>4, Products
  <2> QED BY <1>3, <2>1, <2>2
<1>7. lost + sum[Caller] <= Allowed
  <2> DEFINE n == Cardinality(Caller)
  <2>1. n * MAX_JOB_ATTEMPTS \in Nat /\ n \in Nat
    BY Bounds, Products
  <2>2. (n * MAX_JOB_ATTEMPTS) * PerAttempt = n * (MAX_JOB_ATTEMPTS * PerAttempt)
    BY Bounds, SMT
  <2>3. Allowed = (n * MAX_JOB_ATTEMPTS) * PerAttempt
    BY <2>1 DEF Allowed, CallsInit
  <2> QED BY <2>1, <2>2, <2>3, <1>2, Products DEF CallsInit, Init
<1> QED BY <1>1, <1>5, <1>6, <1>7 DEF CallsInv, RoomKept

LEMMA ClaimStep ==
  ASSUME CallsInv, NEW c \in Caller, Claim(c)
  PROVE  CallsInv'
<1> USE DEF CallsInv
<1>1. CallsTyped'
  BY Bounds DEF Claim, CallsTyped, vars
<1>2. CallsOfWorkers'
  BY DEF Claim, CallsOfWorkers, CallsTyped
<1>3. /\ attempts[c] \in Nat /\ attempts'[c] = attempts[c] + 1
      /\ refactors'[c] = 0 /\ stream'[c] = Quiet
      /\ job[c] = "queued" /\ job'[c] = "working"
  BY DEF Claim, CallsTyped, CallsOfWorkers
<1>4. AttemptsLeft(c) = AttemptsLeft(c)' + 1 /\ AttemptsLeft(c)' \in Nat
  BY <1>3, Bounds DEF AttemptsLeft, Quiet
<1>5. UnderWay(c) = 0 /\ UnderWay(c)' = PerAttempt
  BY <1>3, Bounds DEF UnderWay, Quiet
<1>6. Room(c)' = Room(c)
  <2> PICK i \in Nat : i = AttemptsLeft(c)'
    BY <1>4
  <2>1. (i + 1) * PerAttempt = i * PerAttempt + PerAttempt
        /\ i * PerAttempt \in Nat
    BY Bounds, Products
  <2>2. Room(c) = (i + 1) * PerAttempt
    BY <1>3, <1>4, <1>5, <2>1, Bounds DEF Room
  <2>3. Room(c)' = i * PerAttempt + PerAttempt
    BY <1>3, <1>5 DEF Room, PerAttempt
  <2> QED BY <2>1, <2>2, <2>3
<1>7. \A d \in Caller \ {c} : Room(d)' = Room(d)
  BY OthersKept DEF Claim, CallsTyped
<1>8. deaths' = deaths /\ lost' = lost
  BY DEF Claim, vars
<1>9. RoomKept'
  BY <1>1, <1>6, <1>7, <1>8, RoomIsNat, RoomMoves DEF CallsTyped
<1> QED BY <1>1, <1>2, <1>9

LEMMA CallStep ==
  ASSUME CallsInv, NEW c \in Caller, CallAgent(c)
  PROVE  CallsInv'
<1> USE DEF CallsInv
<1>1. PICK best \in BOOLEAN :
        /\ best => refactors[c] < MaxRefactors
        /\ refactors' = [refactors EXCEPT ![c] = IF best THEN @ + 1 ELSE @]
        /\ stream' = [stream EXCEPT ![c].best = best, ![c].end = "open"]
  BY DEF CallAgent
<1>2. /\ job[c] = "working" /\ stream[c] = Quiet /\ lost' = lost
      /\ UNCHANGED <<job, attempts, deaths>>
  BY DEF CallAgent, Working, CheckBudget
<1>3. stream' = [stream EXCEPT ![c] = [best |-> best, end |-> "open",
                                       rejected |-> FALSE]]
  BY <1>1, <1>2 DEF CallsTyped, Quiet
<1>4. refactors[c] \in 0 .. MaxRefactors
      /\ refactors'[c] = IF best THEN refactors[c] + 1 ELSE refactors[c]
  BY <1>1 DEF CallsTyped
<1>5. CallsTyped'
  <2>1. refactors'[c] \in 0 .. MaxRefactors
    BY <1>1, <1>4, Bounds
  <2>2. refactors' \in [Caller -> 0 .. MaxRefactors]
    BY <1>1, <2>1 DEF CallsTyped
  <2> QED BY <1>2, <1>3, <2>2 DEF CallsTyped, End
<1>6. CallsOfWorkers'
  BY <1>2, <1>3 DEF CallsOfWorkers, CallsTyped
<1>7. stream'[c] = [best |-> best, end |-> "open", rejected |-> FALSE]
  BY <1>3 DEF CallsTyped
<1>8. UnderWay(c)' = UnderWay(c)
  BY <1>1, <1>2, <1>4, <1>7, Bounds DEF UnderWay, Quiet
<1>9. AttemptsLeft(c)' = AttemptsLeft(c)
  BY <1>2, <1>7 DEF AttemptsLeft, Quiet
<1>10. Room(c)' = Room(c)
  BY <1>2, <1>8, <1>9 DEF Room, PerAttempt
<1>11. \A d \in Caller \ {c} : Room(d)' = Room(d)
  BY <1>1, <1>2, <1>3, OthersKept DEF CallsTyped
<1>12. RoomKept'
  BY <1>2, <1>5, <1>10, <1>11, RoomIsNat, RoomMoves DEF CallsTyped
<1> QED BY <1>5, <1>6, <1>12

LEMMA FinishStep ==
  ASSUME CallsInv, NEW c \in Caller, Finish(c)
  PROVE  CallsInv'
<1> USE DEF CallsInv
<1>1. CallsTyped'
  BY DEF Finish, CallsTyped, vars
<1>2. CallsOfWorkers'
  BY DEF Finish, Working, CallsOfWorkers, CallsTyped
<1>3. Room(c)' = 0
  BY DEF Room, Finish, CallsTyped
<1>4. \A d \in Caller \ {c} : Room(d)' = Room(d)
  BY OthersKept DEF Finish, CallsTyped
<1>5. deaths' = deaths /\ lost' = lost
  BY DEF Finish, vars
<1>6. RoomKept'
  BY <1>1, <1>3, <1>4, <1>5, RoomIsNat, RoomMoves DEF CallsTyped
<1> QED BY <1>1, <1>2, <1>6

(* A stream that ends has a verdict, and never that of a death.            *)
LEMMA EndingTyped ==
  ASSUME NEW ending \in Endings
  PROVE  /\ ending.end \in {"answered", "fault", "spent"}
         /\ ending.rejected \in BOOLEAN
<1>1. ASSUME NEW m, NEW thrown
      PROVE  /\ Ending(m, thrown).end \in {"answered", "fault", "spent"}
             /\ Ending(m, thrown).rejected \in BOOLEAN
  BY DEF Ending, Verdict, Failure
<1>2. CASE ending \in ApiEndings
  BY <1>1, <1>2 DEF ApiEndings
<1>3. CASE ending \in SdkEndings
  <2>1. PICK s \in Streams, thrown \in BOOLEAN : ending = Ending(s, thrown)
    BY <1>3 DEF SdkEndings
  <2> QED BY <1>1, <2>1
<1> QED BY <1>2, <1>3 DEF Endings

LEMMA ClosedStream ==
  ASSUME NEW s \in [best : BOOLEAN, end : End, rejected : BOOLEAN],
         NEW end, NEW rejected
  PROVE  [s EXCEPT !.end = end, !.rejected = rejected]
           = [best |-> s.best, end |-> end, rejected |-> rejected]
<1>1. [s EXCEPT !.end = end] = [best |-> s.best, end |-> end,
                                rejected |-> s.rejected]
  OBVIOUS
<1>2. [[best |-> s.best, end |-> end, rejected |-> s.rejected]
         EXCEPT !.rejected = rejected]
        = [best |-> s.best, end |-> end, rejected |-> rejected]
  OBVIOUS
<1>3. [s EXCEPT !.end = end, !.rejected = rejected]
        = [[s EXCEPT !.end = end] EXCEPT !.rejected = rejected]
  OBVIOUS
<1> QED BY <1>1, <1>2, <1>3

LEMMA EndsStep ==
  ASSUME CallsInv, NEW c \in Caller, NEW ending \in Endings, NEW end \in End,
         EndsWith(c, ending, end)
  PROVE  /\ job[c] = "working" /\ stream[c].end = "open"
         /\ stream' = [stream EXCEPT ![c] = [best |-> stream[c].best,
                          end |-> end, rejected |-> ending.rejected]]
         /\ stream' \in [Caller -> [best : BOOLEAN, end : End,
                                    rejected : BOOLEAN]]
         /\ lost' = lost /\ UNCHANGED jobs
<1> USE DEF CallsInv
<1>1. stream[c].end = "open" /\ stream[c] # Quiet
  BY DEF EndsWith, Quiet
<1>2. job[c] = "working"
  BY <1>1 DEF CallsOfWorkers
<1>3. stream[c] \in [best : BOOLEAN, end : End, rejected : BOOLEAN]
  BY DEF CallsTyped
<1>4. stream' = [stream EXCEPT ![c] = [best |-> stream[c].best,
                    end |-> end, rejected |-> ending.rejected]]
  <2>1. stream' = [stream EXCEPT ![c].end = end, ![c].rejected = ending.rejected]
    BY DEF EndsWith
  <2>2. [stream[c] EXCEPT !.end = end, !.rejected = ending.rejected]
          = [best |-> stream[c].best, end |-> end,
             rejected |-> ending.rejected]
    BY <1>3, ClosedStream
  <2>3. stream' = [stream EXCEPT ![c] =
          [stream[c] EXCEPT !.end = end, !.rejected = ending.rejected]]
    BY <2>1 DEF CallsTyped
  <2> QED BY <2>2, <2>3
<1>5. [best |-> stream[c].best, end |-> end, rejected |-> ending.rejected]
        \in [best : BOOLEAN, end : End, rejected : BOOLEAN]
  BY <1>3, EndingTyped
<1>6. stream' \in [Caller -> [best : BOOLEAN, end : End, rejected : BOOLEAN]]
  BY <1>4, <1>5 DEF CallsTyped
<1>7. lost' = lost /\ UNCHANGED jobs
  BY DEF EndsWith, RequestFails, Answer
<1> QED BY <1>1, <1>2, <1>4, <1>6, <1>7

LEMMA StreamStep ==
  ASSUME CallsInv, NEW c \in Caller, StreamEnds(c)
  PROVE  CallsInv'
<1> USE DEF CallsInv
<1>1. PICK ending \in Endings : EndsWith(c, ending, ending.end)
  BY DEF StreamEnds
<1> DEFINE end == ending.end
<1>2. end \in {"answered", "fault", "spent"} /\ end \in End
  BY EndingTyped DEF End
<1>3. /\ job[c] = "working" /\ stream[c].end = "open"
      /\ stream' = [stream EXCEPT ![c] = [best |-> stream[c].best,
                       end |-> end, rejected |-> ending.rejected]]
      /\ stream' \in [Caller -> [best : BOOLEAN, end : End, rejected : BOOLEAN]]
      /\ lost' = lost /\ UNCHANGED jobs
  BY <1>1, <1>2, EndsStep
<1>4. deaths' = deaths /\ UNCHANGED <<job, attempts, refactors>>
  BY <1>3 DEF StreamEnds, jobs
<1>5. CallsTyped'
  BY <1>3, <1>4 DEF CallsTyped
<1>6. CallsOfWorkers'
  BY <1>3, <1>4 DEF CallsOfWorkers, CallsTyped
<1>7. stream'[c].end = end /\ stream'[c].best = stream[c].best
  BY <1>3 DEF CallsTyped
<1>8. AttemptsLeft(c)' = AttemptsLeft(c) /\ UnderWay(c)' = UnderWay(c)
  BY <1>2, <1>3, <1>4, <1>7 DEF AttemptsLeft, UnderWay
<1>9. Room(c)' = Room(c)
  BY <1>4, <1>8 DEF Room, PerAttempt
<1>10. \A d \in Caller \ {c} : Room(d)' = Room(d)
  BY <1>3, <1>4, OthersKept DEF CallsTyped
<1>11. RoomKept'
  BY <1>3, <1>4, <1>5, <1>9, <1>10, RoomIsNat, RoomMoves DEF CallsTyped
<1> QED BY <1>5, <1>6, <1>11

(* One attempt more at the most.                                           *)
LEMMA OneAttemptMore ==
  ASSUME NEW i \in Nat, NEW j \in Nat, NEW u \in Nat, NEW v \in Nat,
         j <= i + 1, v <= u
  PROVE  j * PerAttempt + v <= i * PerAttempt + u + PerAttempt
<1>1. j * PerAttempt <= (i + 1) * PerAttempt
  <2>1. i + 1 \in Nat
    OBVIOUS
  <2> QED BY <2>1, Bounds, Products
<1>2. /\ (i + 1) * PerAttempt = i * PerAttempt + PerAttempt
      /\ i * PerAttempt \in Nat /\ j * PerAttempt \in Nat
  BY Bounds, Products
<1> QED BY <1>1, <1>2, Bounds

LEMMA DeathStep ==
  ASSUME CallsInv, NEW c \in Caller, WorkerDies(c)
  PROVE  CallsInv'
<1> USE DEF CallsInv
<1>1. deaths' = deaths + 1 /\ deaths \in Nat
  BY DEF WorkerDies, CallsTyped
<1> DEFINE Struck ==
        /\ job[c] = "working" /\ lost' = lost /\ UNCHANGED <<attempts, refactors>>
        /\ \A d \in Caller \ {c} : job'[d] = job[d] /\ stream'[d] = stream[d]
        /\ CallsTyped'
        /\ \/ job'[c] = "queued" /\ stream'[c] = Quiet
           \/ job'[c] = "working" /\ stream'[c].best = stream[c].best
<1>2. Struck
  <2>1. ASSUME NEW ending \in Endings, EndsWith(c, ending, "dead")
        PROVE  Struck
    <3>1. /\ job[c] = "working"
          /\ stream' = [stream EXCEPT ![c] = [best |-> stream[c].best,
                           end |-> "dead", rejected |-> ending.rejected]]
          /\ stream' \in [Caller -> [best : BOOLEAN, end : End,
                                     rejected : BOOLEAN]]
          /\ lost' = lost /\ UNCHANGED jobs
      BY <2>1, EndsStep DEF End
    <3> QED BY <3>1, <1>1 DEF jobs, CallsTyped
  <2>2. CASE /\ stream[c].end = "answered"
             /\ stream' = [stream EXCEPT ![c].end = "dead"]
             /\ UNCHANGED <<vars, authType, jobs>>
    <3>1. stream[c] # Quiet
      BY <2>2 DEF Quiet
    <3>2. job[c] = "working"
      BY <3>1 DEF CallsOfWorkers
    <3>3. stream' \in [Caller -> [best : BOOLEAN, end : End, rejected : BOOLEAN]]
      BY <2>2 DEF CallsTyped, End
    <3>4. stream'[c].best = stream[c].best
      BY <2>2 DEF CallsTyped
    <3> QED BY <1>1, <2>2, <3>2, <3>3, <3>4 DEF CallsTyped, jobs, vars
  <2>3. CASE /\ Working(c)
             /\ job' = [job EXCEPT ![c] = "queued"]
             /\ UNCHANGED <<vars, authType, attempts, refactors, stream>>
    BY <1>1, <2>3 DEF CallsTyped, Working, vars
  <2> QED BY <2>1, <2>2, <2>3 DEF WorkerDies
<1>3. CallsOfWorkers'
  <2>1. ASSUME NEW d \in Caller, job'[d] # "working" PROVE stream'[d] = Quiet
    BY <1>2, <2>1 DEF CallsOfWorkers
  <2> QED BY <2>1 DEF CallsOfWorkers
<1>4. PICK i \in Nat, u \in Nat : i = AttemptsLeft(c) /\ u = UnderWay(c)
  BY RoomIsNat
<1>5. PICK j \in Nat, v \in Nat : j = AttemptsLeft(c)' /\ v = UnderWay(c)'
  <2>1. attempts'[c] \in Nat /\ refactors'[c] \in 0 .. MaxRefactors
    BY <1>2 DEF CallsTyped
  <2> QED BY <2>1, Bounds DEF AttemptsLeft, UnderWay
<1>6. j <= i + 1
  BY <1>2, <1>4, <1>5 DEF AttemptsLeft
<1>7. v <= u
  BY <1>2, <1>4, <1>5 DEF UnderWay
<1>8. Room(c)' <= Room(c) + PerAttempt
  <2>1. Room(c) = i * PerAttempt + u
    BY <1>2, <1>4 DEF Room
  <2>2. Room(c)' = j * PerAttempt + v
    BY <1>2, <1>5 DEF Room, PerAttempt
  <2> QED BY <1>6, <1>7, <2>1, <2>2, OneAttemptMore
<1>9. \A d \in Caller \ {c} : Room(d)' = Room(d)
  BY <1>2, OthersKept
<1>10. Room(c) \in Nat /\ Room(c)' \in Nat
  <2>1. (\A d \in Caller : Room(d) \in Nat)'
    BY <1>2, RoomTyped, PTL
  <2> QED BY <2>1, RoomIsNat
<1>11. lost' + Room(c)' <= lost + Room(c) + PerAttempt
  BY <1>2, <1>8, <1>10, Bounds DEF CallsTyped
<1>12. RoomKept'
  BY <1>1, <1>2, <1>9, <1>11, RoomMoves
<1> QED BY <1>2, <1>3, <1>12

(* A call has come to an end: unless it was answered it takes the place of *)
(* an answer that may be lost with it.                                     *)
LEMMA AfterCall ==
  ASSUME CallsInv, NEW c \in Caller, NEW end \in End, stream[c] # Quiet,
         \/ end \in {"fault", "spent"} /\ stream[c].end # "dead"
         \/ end = "dead" /\ stream[c].end = "dead"
         \/ end = "answered" /\ stream[c].end = "answered",
         job' = [job EXCEPT ![c] = After(c, end)],
         stream' = [stream EXCEPT ![c] = Quiet],
         UNCHANGED <<attempts, refactors, deaths>>,
         \/ lost' = lost
         \/ lost' = lost + 1 /\ end # "answered"
  PROVE  CallsInv'
<1> USE DEF CallsInv
<1>1. job[c] = "working"
  BY DEF CallsOfWorkers
<1>2. /\ After(c, end) \in {"queued", "working", "refused", "dead"}
      /\ After(c, end) = "working" => end = "answered" \/ stream[c].best
      /\ After(c, end) = "queued" =>
           end = "dead" \/ attempts[c] < MAX_JOB_ATTEMPTS
  <2>1. attempts[c] \in Nat /\ stream[c].best \in BOOLEAN
    BY DEF CallsTyped
  <2>2. CASE end = "dead"
    BY <2>2 DEF After
  <2>3. CASE end = "answered"
    BY <2>3 DEF After
  <2>4. CASE end \in {"fault", "spent"} /\ stream[c].best
    BY <2>4 DEF After
  <2>5. CASE end = "spent" /\ ~stream[c].best
    BY <2>5 DEF After
  <2>6. CASE end = "fault" /\ ~stream[c].best
    BY <2>1, <2>6, Bounds DEF After, FailOrRetry, OutOfAttempts
  <2> QED BY <2>2, <2>3, <2>4, <2>5, <2>6
<1>3. CallsTyped'
  BY <1>2 DEF CallsTyped, Quiet, End
<1>4. CallsOfWorkers'
  BY <1>1 DEF CallsOfWorkers, CallsTyped
<1>5. job'[c] = After(c, end) /\ stream'[c] = Quiet
      /\ attempts'[c] = attempts[c] /\ refactors'[c] = refactors[c]
  BY DEF CallsTyped
<1>6. PICK i \in Nat, u \in Nat :
        i = AttemptsLeft(c) /\ u = UnderWay(c) /\ u >= 1
  <2>1. UnderWay(c) >= 1
    BY <1>1, Bounds DEF UnderWay, CallsTyped
  <2> QED BY <2>1, RoomIsNat
<1>7. Room(c) = i * PerAttempt + u /\ i * PerAttempt \in Nat
  BY <1>1, <1>6, Bounds, Products DEF Room
<1>8. (Room(c)' + 1 <= Room(c)) \/ (end = "answered" /\ Room(c)' <= Room(c))
  <2>1. CASE After(c, end) \in {"refused", "dead"}
    <3>1. Room(c)' = 0
      BY <1>5, <2>1 DEF Room
    <3> QED BY <3>1, <1>6, <1>7
  <2>2. CASE After(c, end) = "queued"
    <3>1. AttemptsLeft(c)' = i
      BY <1>2, <1>5, <1>6, <2>2 DEF AttemptsLeft
    <3>2. UnderWay(c)' = 0
      BY <1>5, <2>2 DEF UnderWay
    <3>3. Room(c)' = i * PerAttempt
      BY <1>5, <1>7, <2>2, <3>1, <3>2 DEF Room, PerAttempt
    <3> QED BY <3>3, <1>6, <1>7
  <2>3. CASE After(c, end) = "working"
    <3>1. refactors[c] \in 0 .. MaxRefactors
      BY DEF CallsTyped
    <3>2. UnderWay(c)' = 1 + (MaxRefactors - refactors[c])
      BY <1>5, <2>3, <3>1, Bounds DEF UnderWay, Quiet
    <3>3. UnderWay(c)' + (IF stream[c].best THEN 1 ELSE 0) = u
      BY <1>1, <1>6, <3>1, <3>2, Bounds DEF UnderWay
    <3>4. PICK j \in Nat, v \in Nat :
            j = AttemptsLeft(c)' /\ v = UnderWay(c)' /\ j <= i
      <4>1. end # "dead"
        BY <2>3 DEF After
      <4>2. AttemptsLeft(c)' = i
        BY <1>1, <1>5, <1>6, <2>3, <4>1 DEF AttemptsLeft, Quiet
      <4> QED BY <4>2, <3>1, <3>2, Bounds
    <3>5. j * PerAttempt <= i * PerAttempt /\ j * PerAttempt \in Nat
      BY <3>4, Bounds, Products
    <3>6. Room(c)' = j * PerAttempt + v
      BY <1>5, <2>3, <3>4 DEF Room, PerAttempt
    <3>7. stream[c].best => v + 1 = u
      BY <3>3, <3>4
    <3>8. v <= u
      BY <3>3, <3>4
    <3> QED BY <1>2, <1>6, <1>7, <2>3, <3>4, <3>5, <3>6, <3>7, <3>8
  <2> QED BY <1>2, <2>1, <2>2, <2>3
<1>9. Room(c) \in Nat /\ Room(c)' \in Nat
  <2>1. (\A d \in Caller : Room(d) \in Nat)'
    BY <1>3, RoomTyped, PTL
  <2> QED BY <2>1, RoomIsNat
<1>10. lost' + Room(c)' <= lost + Room(c)
  BY <1>8, <1>9 DEF CallsTyped
<1>11. \A d \in Caller \ {c} : Room(d)' = Room(d)
  BY OthersKept DEF CallsTyped
<1>12. RoomKept'
  BY <1>3, <1>10, <1>11, RoomMoves
<1> QED BY <1>3, <1>4, <1>12

LEMMA CallEndStep ==
  ASSUME CallsInv, NEW c \in Caller,
         CallFails(c) \/ CallReturns(c) \/ RecordFails(c)
  PROVE  CallsInv'
<1>1. stream[c] # Quiet
  BY DEF CallFails, CallReturns, RecordFails, Quiet
<1>2. CASE CallFails(c)
  <2>1. lost' \in {lost, lost + 1}
    BY <1>2 DEF CallFails, LoseAnswer, vars
  <2> QED BY <1>1, <1>2, <2>1, AfterCall DEF CallFails, End
<1>3. CASE CallReturns(c)
  <2>1. lost' = lost
    BY <1>3 DEF CallReturns, RecordLlmCall
  <2>2. PICK end \in {"answered", "fault"} :
          job' = [job EXCEPT ![c] = After(c, end)]
    BY <1>3 DEF CallReturns
  <2> QED BY <1>1, <1>3, <2>1, <2>2, AfterCall DEF CallReturns, End
<1>4. CASE RecordFails(c)
  <2>1. lost' = lost + 1
    BY <1>4 DEF RecordFails, LoseAnswer
  <2> QED BY <1>1, <1>4, <2>1, AfterCall DEF RecordFails, End
<1> QED BY <1>2, <1>3, <1>4

LEMMA QuietCallsStep ==
  ASSUME CallsInv, Born \/ UNCHANGED callVars
  PROVE  CallsInv'
<1>1. UNCHANGED <<job, attempts, refactors, stream, deaths, lost>>
  BY DEF Born, callVars, jobs, vars, CreateByIssue, SetRunBudget, BudgetNotSet,
         CreateByRunTests
<1>2. \A c \in Caller : Room(c)' = Room(c)
  BY <1>1 DEF Room, AttemptsLeft, UnderWay, PerAttempt
<1>3. RoomKept'
  <2>1. PICK sum \in [SUBSET Caller -> Nat] :
          Booked(sum) /\ lost + sum[Caller] <= Allowed
    BY DEF CallsInv, RoomKept
  <2>2. Booked(sum)'
    BY <1>2, <2>1 DEF Booked
  <2>3. Allowed' = Allowed /\ lost' = lost
    BY <1>1 DEF Allowed, PerAttempt
  <2> QED BY <2>1, <2>2, <2>3 DEF RoomKept
<1> QED BY <1>1, <1>3 DEF CallsInv, CallsTyped, CallsOfWorkers

(* What is paid for and never recorded is bounded by attempts, deaths and  *)
(* refactorings, for any number of callers: failOrRetryJob lets a failed   *)
(* call end its attempt and counts attempts, runTaskTdd swallows only the  *)
(* failures of refactorings.                                               *)
THEOREM LostAlwaysBounded == CallsSpec => []LostBounded
<1>1. CallsInv /\ [CallsNext]_callVars => CallsInv'
  <2> SUFFICES ASSUME CallsInv, [CallsNext]_callVars PROVE CallsInv'
    OBVIOUS
  <2>1. CASE Born \/ UNCHANGED callVars
    BY <2>1, QuietCallsStep
  <2>2. ASSUME NEW c \in Caller,
               \/ Claim(c) \/ CallAgent(c) \/ Finish(c) \/ StreamEnds(c)
               \/ WorkerDies(c) \/ CallFails(c) \/ CallReturns(c)
               \/ RecordFails(c)
        PROVE  CallsInv'
    BY <2>2, ClaimStep, CallStep, FinishStep, StreamStep, DeathStep,
       CallEndStep
  <2> QED BY <2>1, <2>2 DEF CallsNext
<1>2. CallsInv => LostBounded
  <2> SUFFICES ASSUME CallsInv PROVE LostBounded
    OBVIOUS
  <2>1. PICK sum \in [SUBSET Caller -> Nat] : lost + sum[Caller] <= Allowed
    BY DEF CallsInv, RoomKept
  <2>2. lost \in Nat /\ sum[Caller] \in Nat
    BY DEF CallsInv, CallsTyped
  <2>3. Allowed \in Nat
    <3>1. Cardinality(Caller) * MAX_JOB_ATTEMPTS \in Nat
      BY Bounds, Products
    <3>2. Cardinality(Caller) * MAX_JOB_ATTEMPTS + deaths \in Nat
      BY <3>1 DEF CallsInv, CallsTyped
    <3> QED BY <3>2, Bounds, Products DEF Allowed
  <2> QED BY <2>1, <2>2, <2>3 DEF LostBounded, Allowed, PerAttempt
<1> QED BY <1>1, <1>2, InitCalls, PTL DEF CallsSpec
=============================================================================
