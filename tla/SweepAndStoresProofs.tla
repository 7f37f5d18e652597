------------------------ MODULE SweepAndStoresProofs ------------------------
(***************************************************************************)
(* Of the sweeper: it reminds once and closes in time, for any number of   *)
(* runs and any two delays, whatever people answer and whatever fails.     *)
(*                                                                         *)
(* Of the stores from which it reads its runs: after any calls, in any     *)
(* number, InMemoryStore and PgStore hold the same rows, gave the same     *)
(* answers and list the runs that are stale in the same order, for any     *)
(* workers, runs, tasks, artifacts, installations and clock.               *)
(***************************************************************************)
EXTENDS StaleRuns, Stores, FiniteSetTheorems, SequenceTheorems, TLAPS

-----------------------------------------------------------------------------

(***************************************************************************)
(* The sweeper.                                                            *)
(***************************************************************************)

(* A sweep knows of each candidate whether it was reminded, since only the *)
(* sweep itself reminds, and has each run once.                            *)
CandidatesAreCurrent ==
  /\ \A c \in todo : c.pinged = pinged[c.run]
  /\ \A c \in todo, d \in todo : c.run = d.run => c = d

(* A reminder is recorded in the row, or about to be, or recording it      *)
(* failed.                                                                 *)
Recorded(r) == IF pinged[r] THEN 1 ELSE 0
AboutToBe(r) ==
  commented /\ \E c \in todo : AtHand(c) /\ DueToRemind(c) /\ c.run = r
Recording(r) == IF AboutToBe(r) THEN 1 ELSE 0
Accounted ==
  \A r \in Run : seen[r].all <= Recorded(r) + Recording(r) + env.failures
ReminderInv == TypeOK /\ CandidatesAreCurrent /\ Accounted

(* updated_at tells when somebody touched the run: a reminder does not     *)
(* move it.                                                                *)
IdleIsSilence == \A r \in Run : state[r] # "aborted" => seen[r].days = idle[r]

(* Who is overdue is still to be swept today, and closed unless that fails.*)
ToBeClosed(r) == ~swept \/ \E c \in todo : c.run = r /\ DueToClose(c)
InTime(r) ==
  \/ idle[r] <= CloseAfter + env.failures
  \/ idle[r] <= CloseAfter + env.failures + 1 /\ ToBeClosed(r)
ScheduleInv ==
  TypeOK /\ IdleIsSilence /\ \A r \in Run : state[r] = "parked" => InTime(r)

-----------------------------------------------------------------------------
(* Ages.                                                                   *)
LEMMA Ages ==
  /\ MaxIdle \in Nat /\ CloseAfter < MaxIdle /\ PingAfter < CloseAfter
  /\ CloseAfter \in Nat /\ PingAfter \in Nat /\ MaxFailures \in Nat
  /\ \A days \in 0 .. MaxIdle : Older(days) \in 0 .. MaxIdle
BY AgesAssumption, StaleBoundsAssumption DEF MaxIdle, Older

(* At the start nobody was reminded, and nobody is overdue.                *)
LEMMA InitStale == Init => ReminderInv /\ ScheduleInv
<1> SUFFICES ASSUME Init PROVE ReminderInv /\ ScheduleInv
  OBVIOUS
<1>1. TypeOK
  <2>1. /\ 0 \in 0 .. MaxIdle /\ 0 \in 0 .. MaxReplies
        /\ 0 \in 0 .. MaxFailures
    BY Ages, StaleBoundsAssumption
  <2>2. pinged \in [Run -> BOOLEAN] /\ commented \in BOOLEAN /\ swept \in BOOLEAN
    BY DEF Init
  <2>3. /\ seen \in [Run -> [days : 0 .. MaxIdle, reminders : Nat, all : Nat]]
        /\ env \in [replies : [Run -> 0 .. MaxReplies],
                   failures : 0 .. MaxFailures]
    BY <2>1 DEF Init
  <2> QED BY <2>1, <2>2, <2>3 DEF Init, TypeOK
<1>2. ReminderInv
  BY <1>1 DEF Init, ReminderInv, CandidatesAreCurrent, Accounted, Recorded,
     Recording, AboutToBe
<1>3. ScheduleInv
  BY <1>1, Ages DEF Init, ScheduleInv, IdleIsSilence, InTime
<1> QED BY <1>2, <1>3

(* Touching and closing a run keep its row in shape.                       *)
LEMMA TouchKeepsType ==
  ASSUME TypeOK, NEW r \in Run, NEW s \in {"parked", "driven"}, Touch(r, s)
  PROVE  /\ state' \in [Run -> {"parked", "driven", "aborted"}]
         /\ idle' \in [Run -> 0 .. MaxIdle]
         /\ seen' \in [Run -> [days : 0 .. MaxIdle, reminders : Nat, all : Nat]]
<1>1. 0 \in 0 .. MaxIdle
  BY Ages
<1>2. state' \in [Run -> {"parked", "driven", "aborted"}]
  BY DEF TypeOK, Touch
<1>3. idle' \in [Run -> 0 .. MaxIdle]
  BY <1>1 DEF TypeOK, Touch
<1>4. seen' \in [Run -> [days : 0 .. MaxIdle, reminders : Nat, all : Nat]]
  <2> DEFINE S == [days : 0 .. MaxIdle, reminders : Nat, all : Nat]
             e == [[seen[r] EXCEPT !.days = 0] EXCEPT !.reminders = 0]
  <2>1. seen \in [Run -> S] /\ seen[r] \in S
    BY DEF TypeOK
  <2>2. e \in S
    BY <1>1, <2>1
  <2>3. seen' = [seen EXCEPT ![r] = e]
    BY <2>1 DEF Touch
  <2> HIDE DEF S, e
  <2>4. seen' \in [Run -> S]
    BY <2>1, <2>2, <2>3
  <2> QED BY <2>4 DEF S
<1> QED BY <1>2, <1>3, <1>4

(* Closing a run keeps its row in shape.                                   *)
LEMMA CloseKeepsType ==
  ASSUME TypeOK, NEW r \in Run, Close(r, "aborted")
  PROVE  /\ state' \in [Run -> {"parked", "driven", "aborted"}]
         /\ idle' \in [Run -> 0 .. MaxIdle]
<1>1. 0 \in 0 .. MaxIdle
  BY Ages
<1> QED BY <1>1 DEF TypeOK, Close

(* No step breaks the types.                                               *)
LEMMA TypeStep == TypeOK /\ [Next]_vars => TypeOK'
<1> SUFFICES ASSUME TypeOK, [Next]_vars PROVE TypeOK'
  OBVIOUS
<1> USE Ages, StaleBoundsAssumption DEF TypeOK
<1>1. CASE Tick
  BY <1>1 DEF Tick, sweep
<1>2. ASSUME NEW r \in Run, Reply(r) PROVE TypeOK'
  <2>1. env' \in [replies : [Run -> 0 .. MaxReplies], failures : 0 .. MaxFailures]
    BY <1>2 DEF Reply
  <2> QED BY <1>2, <2>1, TouchKeepsType DEF Reply, Touch, sweep
<1>3. ASSUME NEW r \in Run, Park(r) PROVE TypeOK'
  BY <1>3, TouchKeepsType DEF Park, Touch, sweep
<1>4. CASE BeginSweep
  <2>1. \A r \in Run : Stale(r) =>
          Candidate(r) \in [run : Run, idle : (PingAfter + 1) .. MaxIdle,
                            pinged : BOOLEAN]
    BY DEF Stale, Candidate
  <2> QED BY <1>4, <2>1 DEF BeginSweep, rows
<1>5. ASSUME NEW c \in todo, PostReminder(c) PROVE TypeOK'
  BY <1>5 DEF PostReminder, rows
<1>6. ASSUME NEW c \in todo, MarkRunPinged(c) PROVE TypeOK'
  BY <1>6 DEF MarkRunPinged, Continue, IdleOncePinged
<1>7. ASSUME NEW c \in todo, PostClosing(c) PROVE TypeOK'
  BY <1>7 DEF PostClosing, rows
<1>8. ASSUME NEW c \in todo, CloseAbandoned(c) PROVE TypeOK'
  BY <1>8, CloseKeepsType DEF CloseAbandoned, Close, Continue
<1>9. ASSUME NEW c \in todo, CloseUnreachable(c) PROVE TypeOK'
  BY <1>9, CloseKeepsType DEF CloseUnreachable, Close, Continue, StateOnceGone
<1>10. ASSUME NEW c \in todo, PassOver(c) PROVE TypeOK'
  BY <1>10 DEF PassOver, Continue, rows
<1>11. ASSUME NEW c \in todo, Fails(c) PROVE TypeOK'
  <2>1. env' \in [replies : [Run -> 0 .. MaxReplies], failures : 0 .. MaxFailures]
    BY <1>11 DEF Fails
  <2> QED BY <1>11, <2>1 DEF Fails, Continue, rows
<1>12. CASE UNCHANGED vars
  BY <1>12 DEF vars, rows, sweep
<1> QED
  BY <1>1, <1>2, <1>3, <1>4, <1>5, <1>6, <1>7, <1>8, <1>9, <1>10, <1>11,
     <1>12 DEF Next, SweepStep

-----------------------------------------------------------------------------
(* While the rows' marks and the candidates stay, no count can be exceeded.*)
LEMMA ReminderStep == ReminderInv /\ [Next]_vars => ReminderInv'
<1> SUFFICES ASSUME ReminderInv, [Next]_vars
             PROVE  CandidatesAreCurrent' /\ Accounted'
  BY TypeStep DEF ReminderInv
<1>t. TypeOK /\ TypeOK'
  BY TypeStep DEF ReminderInv
<1>n. \A r \in Run :
        /\ seen[r].all \in Nat /\ env.failures \in Nat
        /\ seen[r].all <= Recorded(r) + Recording(r) + env.failures
        /\ Recorded(r) \in 0 .. 1 /\ Recording(r) \in 0 .. 1
  BY <1>t DEF ReminderInv, Accounted, TypeOK, Recorded, Recording
(* Only the candidate at hand can have been commented on.                  *)
<1>h. ASSUME NEW c \in todo, AtHand(c), NEW r \in Run, AboutToBe(r)
      PROVE  c.run = r /\ DueToRemind(c)
  <2>1. PICK d \in todo : AtHand(d) /\ DueToRemind(d) /\ d.run = r
    BY <1>h DEF AboutToBe
  <2>2. c.run = d.run
    <3>1. c.run <= d.run /\ d.run <= c.run
      BY <1>h, <2>1 DEF AtHand
    <3>2. \A e \in todo : e.run \in Run
      BY <1>t DEF TypeOK
    <3>3. \A n \in Run : n \in Nat
      BY RunsAssumption DEF Run
    <3>4. c.run \in Nat /\ d.run \in Nat
      BY <1>h, <2>1, <3>2, <3>3
    <3> QED BY <3>1, <3>4
  <2> QED BY <1>h, <2>1, <2>2 DEF ReminderInv, CandidatesAreCurrent
(* Steps that leave reminders, marks and the sweep alone.                  *)
<1>1. ASSUME UNCHANGED <<pinged, todo, commented, env>>,
             \A r \in Run : seen'[r].all = seen[r].all
      PROVE  CandidatesAreCurrent' /\ Accounted'
  BY <1>1, <1>n DEF ReminderInv, CandidatesAreCurrent, Accounted, Recorded,
     Recording, AboutToBe, AtHand, DueToRemind, DueToClose
<1>2. CASE Tick
  BY <1>2, <1>1, <1>t DEF Tick, TypeOK, sweep
<1>3. CASE \E r \in Run : Reply(r) \/ Park(r)
  <2>1. PICK r \in Run : Reply(r) \/ Park(r)
    BY <1>3
  <2>2. \A q \in Run : seen'[q].all = seen[q].all
    BY <2>1, <1>t DEF Reply, Park, Touch, TypeOK
  <2>3. UNCHANGED <<pinged, todo, commented>> /\ env'.failures = env.failures
    BY <2>1, <1>t DEF Reply, Park, Touch, TypeOK, sweep
  <2> QED
    BY <2>2, <2>3, <1>n DEF ReminderInv, CandidatesAreCurrent, Accounted,
       Recorded, Recording, AboutToBe, AtHand, DueToRemind, DueToClose
<1>4. CASE BeginSweep
  <2>1. CandidatesAreCurrent'
    BY <1>4 DEF BeginSweep, Candidate, CandidatesAreCurrent, rows
  <2>2. \A r \in Run : Recording(r) = 0 /\ Recorded(r)' = Recorded(r)
    BY <1>4 DEF BeginSweep, Recording, AboutToBe, Recorded, rows
  <2>3. \A r \in Run : Recording(r)' \in 0 .. 1
    BY DEF Recording
  <2> QED BY <1>4, <2>1, <2>2, <2>3, <1>n DEF BeginSweep, Accounted
<1>5. ASSUME NEW c \in todo, AtHand(c), PostReminder(c)
      PROVE  CandidatesAreCurrent' /\ Accounted'
  <2>1. CandidatesAreCurrent'
    BY <1>5 DEF PostReminder, ReminderInv, CandidatesAreCurrent, rows
  <2>2. AboutToBe(c.run)'
    BY <1>5 DEF PostReminder, AboutToBe, AtHand, DueToRemind, DueToClose
  <2>3. c.run \in Run /\ ~pinged[c.run]
    BY <1>5, <1>t DEF PostReminder, DueToRemind, ReminderInv,
       CandidatesAreCurrent, TypeOK
  <2>4. ASSUME NEW r \in Run
        PROVE  seen'[r].all = IF r = c.run THEN seen[r].all + 1 ELSE seen[r].all
    BY <1>5, <2>3, <1>t DEF PostReminder, TypeOK
  <2>5. ASSUME NEW r \in Run
        PROVE  /\ Recording(r) = 0 /\ Recorded(r)' = Recorded(r)
               /\ Recording(r)' \in 0 .. 1 /\ env' = env
               /\ r = c.run => Recording(r)' = 1
    BY <1>5, <2>2 DEF PostReminder, Recording, AboutToBe, Recorded, rows
  <2> QED BY <2>1, <2>4, <2>5, <1>n DEF Accounted
<1>6. ASSUME NEW c \in todo, AtHand(c), MarkRunPinged(c)
      PROVE  CandidatesAreCurrent' /\ Accounted'
  <2>1. c.run \in Run /\ ~pinged[c.run] /\ pinged \in [Run -> BOOLEAN]
    BY <1>6, <1>t DEF MarkRunPinged, DueToRemind, ReminderInv,
       CandidatesAreCurrent, TypeOK
  <2>2. CandidatesAreCurrent'
    <3>1. todo' = todo \ {c} /\ pinged' = [pinged EXCEPT ![c.run] = TRUE]
      BY <1>6 DEF MarkRunPinged, Continue
    <3>2. \A d \in todo' :
            d \in todo /\ d.run # c.run /\ d.run \in Run
      BY <3>1, <1>6, <1>t DEF ReminderInv, CandidatesAreCurrent, TypeOK
    <3>3. \A d \in todo' : pinged'[d.run] = pinged[d.run]
      BY <3>1, <3>2, <2>1
    <3> QED BY <3>2, <3>3 DEF ReminderInv, CandidatesAreCurrent
  <2>3. ASSUME NEW r \in Run
        PROVE  /\ Recorded(r)' = IF r = c.run THEN 1 ELSE Recorded(r)
               /\ Recording(r)' = 0
               /\ r # c.run => Recording(r) = 0
    <3>1. Recorded(r)' = IF r = c.run THEN 1 ELSE Recorded(r)
      BY <1>6, <2>1 DEF MarkRunPinged, Recorded
    <3>2. Recording(r)' = 0
      BY <1>6 DEF MarkRunPinged, Continue, Recording, AboutToBe
    <3>3. r # c.run => Recording(r) = 0
      BY <1>6, <1>h DEF Recording
    <3> QED BY <3>1, <3>2, <3>3
  <2>4. seen' = seen /\ env' = env /\ Recorded(c.run) = 0
    BY <1>6, <2>1 DEF MarkRunPinged, Recorded
  <2> QED BY <2>2, <2>3, <2>4, <1>n DEF Accounted
<1>7. ASSUME NEW c \in todo, AtHand(c), PostClosing(c)
      PROVE  CandidatesAreCurrent' /\ Accounted'
  <2>1. CandidatesAreCurrent'
    BY <1>7 DEF PostClosing, ReminderInv, CandidatesAreCurrent, rows
  <2>2. ASSUME NEW r \in Run
        PROVE  /\ Recording(r) = 0 /\ Recorded(r)' = Recorded(r)
               /\ Recording(r)' \in 0 .. 1
    BY <1>7 DEF PostClosing, Recording, AboutToBe, Recorded, rows
  <2> QED BY <1>7, <2>1, <2>2, <1>n DEF PostClosing, Accounted
(* A candidate dropped without a reminder under way.                       *)
<1>8. ASSUME NEW c \in todo, AtHand(c), Continue(c),
             UNCHANGED <<pinged, seen, env>>, ~commented \/ ~DueToRemind(c)
      PROVE  CandidatesAreCurrent' /\ Accounted'
  <2>1. CandidatesAreCurrent'
    BY <1>8 DEF Continue, ReminderInv, CandidatesAreCurrent
  <2>2. ASSUME NEW r \in Run
        PROVE  Recording(r) = 0 /\ Recorded(r)' = Recorded(r)
               /\ Recording(r)' = 0
    BY <1>8, <1>h DEF Continue, Recording, AboutToBe, Recorded
  <2> QED BY <1>8, <2>1, <2>2, <1>n DEF Accounted
<1>9. ASSUME NEW c \in todo, AtHand(c),
             CloseAbandoned(c) \/ CloseUnreachable(c) \/ PassOver(c)
      PROVE  CandidatesAreCurrent' /\ Accounted'
  BY <1>9, <1>8 DEF CloseAbandoned, CloseUnreachable, PassOver, Close,
     DueToRemind, rows
<1>10. ASSUME NEW c \in todo, AtHand(c), Fails(c)
       PROVE  CandidatesAreCurrent' /\ Accounted'
  <2>1. CandidatesAreCurrent'
    BY <1>10 DEF Fails, Continue, ReminderInv, CandidatesAreCurrent, rows
  <2>2. env'.failures = env.failures + 1 /\ seen' = seen
    BY <1>10, <1>t DEF Fails, TypeOK
  <2>3. ASSUME NEW r \in Run
        PROVE  Recorded(r)' = Recorded(r) /\ Recording(r)' = 0
    BY <1>10 DEF Fails, Continue, Recorded, Recording, AboutToBe, rows
  <2> QED BY <2>1, <2>2, <2>3, <1>n DEF Accounted
<1>11. CASE UNCHANGED vars
  BY <1>11, <1>1 DEF vars, rows, sweep
<1> QED
  BY <1>2, <1>3, <1>4, <1>5, <1>6, <1>7, <1>9, <1>10, <1>11
  DEF Next, SweepStep

-----------------------------------------------------------------------------
(* updated_at goes on telling when the run was touched.                    *)
LEMMA SilenceStep ==
  TypeOK /\ IdleIsSilence /\ [Next]_vars => IdleIsSilence'
<1> SUFFICES ASSUME TypeOK, IdleIsSilence, [Next]_vars, NEW r \in Run,
                    state'[r] # "aborted"
             PROVE  seen'[r].days = idle'[r]
  BY DEF IdleIsSilence
<1> USE DEF TypeOK, IdleIsSilence
<1>1. CASE Tick
  BY <1>1 DEF Tick
<1>2. ASSUME NEW q \in Run, NEW s \in {"parked", "driven"}, Touch(q, s),
             state[q] # "aborted"
      PROVE  seen'[r].days = idle'[r]
  BY <1>2 DEF Touch
<1>3. ASSUME NEW q \in Run, Reply(q) \/ Park(q)
      PROVE  seen'[r].days = idle'[r]
  BY <1>3, <1>2 DEF Reply, Park
<1>4. CASE BeginSweep
  BY <1>4 DEF BeginSweep, rows
<1>5. ASSUME NEW c \in todo, PostReminder(c) PROVE seen'[r].days = idle'[r]
  BY <1>5 DEF PostReminder, rows
<1>6. ASSUME NEW c \in todo, MarkRunPinged(c) PROVE seen'[r].days = idle'[r]
  BY <1>6 DEF MarkRunPinged, IdleOncePinged
<1>7. ASSUME NEW c \in todo, CloseAbandoned(c) \/ CloseUnreachable(c)
      PROVE  seen'[r].days = idle'[r]
  BY <1>7 DEF CloseAbandoned, CloseUnreachable, StateOnceGone, Close
<1>8. ASSUME NEW c \in todo, PostClosing(c) \/ PassOver(c) \/ Fails(c)
      PROVE  seen'[r].days = idle'[r]
  BY <1>8 DEF PostClosing, PassOver, Fails, rows
<1>9. CASE UNCHANGED vars
  BY <1>9 DEF vars, rows
<1> QED
  BY <1>1, <1>3, <1>4, <1>5, <1>6, <1>7, <1>8, <1>9 DEF Next, SweepStep

(* No step leaves behind somebody who is overdue.                          *)
LEMMA ScheduleStep == ScheduleInv /\ [Next]_vars => ScheduleInv'
<1> SUFFICES ASSUME ScheduleInv, [Next]_vars, NEW r \in Run,
                    state'[r] = "parked"
             PROVE  InTime(r)'
  BY TypeStep, SilenceStep DEF ScheduleInv
<1>t. /\ TypeOK /\ idle[r] \in Nat /\ env.failures \in Nat
      /\ env'.failures \in Nat /\ idle'[r] \in Nat
      /\ state[r] = "parked" => InTime(r)
  BY TypeStep, Ages DEF ScheduleInv, TypeOK
<1>a. CloseAfter \in Nat /\ PingAfter < CloseAfter /\ PingAfter \in Nat
  BY Ages
<1>1. CASE Tick
  <2>1. state[r] = "parked" /\ ~ToBeClosed(r)
    BY <1>1, <1>t DEF Tick, TypeOK, ToBeClosed
  <2>2. idle'[r] <= idle[r] + 1 /\ ToBeClosed(r)' /\ env' = env
    BY <1>1, <1>t, Ages DEF Tick, Older, ToBeClosed, TypeOK
  <2> QED BY <2>1, <2>2, <1>t, <1>a DEF InTime
(* What touches the run makes it young; what touches another leaves it.    *)
<1>2. CASE idle'[r] = 0
  BY <1>2, <1>t, <1>a DEF InTime
<1>3. ASSUME NEW q \in Run, Reply(q) \/ Park(q)
      PROVE  InTime(r)'
  <2>1. CASE q = r
    BY <2>1, <1>2, <1>3, <1>t DEF Reply, Park, Touch, TypeOK
  <2>2. CASE q # r
    <3>1. state[r] = "parked" /\ idle'[r] = idle[r]
      BY <2>2, <1>3, <1>t DEF Reply, Park, Touch, TypeOK
    <3>2. env'.failures = env.failures /\ UNCHANGED <<todo, swept>>
      BY <1>3, <1>t DEF Reply, Park, Touch, TypeOK, sweep
    <3> QED BY <3>1, <3>2, <1>t DEF InTime, ToBeClosed, DueToClose
  <2> QED BY <2>1, <2>2
<1>4. CASE BeginSweep
  <2>1. state[r] = "parked" /\ idle'[r] = idle[r] /\ env' = env
    BY <1>4 DEF BeginSweep, rows
  <2>2. ASSUME idle[r] > CloseAfter PROVE ToBeClosed(r)'
    <3>1. Stale(r) /\ Candidate(r) \in todo'
      BY <1>4, <2>1, <2>2, <1>a, <1>t DEF BeginSweep, Stale
    <3> QED BY <3>1, <2>2 DEF ToBeClosed, Candidate, DueToClose
  <2> QED BY <2>1, <2>2, <1>t, <1>a DEF InTime
<1>5. ASSUME NEW c \in todo, PostReminder(c) \/ PostClosing(c)
      PROVE  InTime(r)'
  BY <1>5, <1>t
  DEF PostReminder, PostClosing, rows, InTime, ToBeClosed, DueToClose
(* A candidate dropped, which was not one to close, or not this run's.     *)
<1>6. ASSUME NEW c \in todo, Continue(c), state[r] = "parked",
             idle'[r] = idle[r], UNCHANGED <<env, swept>>,
             c.run # r \/ ~DueToClose(c)
      PROVE  InTime(r)'
  BY <1>6, <1>t DEF Continue, InTime, ToBeClosed, DueToClose
<1>7. ASSUME NEW c \in todo, MarkRunPinged(c) \/ PassOver(c)
      PROVE  InTime(r)'
  <2>1. /\ Continue(c) /\ state[r] = "parked" /\ UNCHANGED <<env, swept>>
        /\ ~DueToClose(c)
    BY <1>7 DEF MarkRunPinged, PassOver, DueToRemind, rows
  <2>2. idle'[r] = idle[r]
    BY <1>7, <1>t DEF MarkRunPinged, PassOver, IdleOncePinged, rows, TypeOK
  <2> QED BY <2>1, <2>2, <1>6
<1>8. ASSUME NEW c \in todo, CloseAbandoned(c) \/ CloseUnreachable(c)
      PROVE  InTime(r)'
  <2>1. /\ Continue(c) /\ Close(c.run, "aborted") /\ UNCHANGED <<env, swept>>
        /\ c.run \in Run
    BY <1>8, <1>t
    DEF CloseAbandoned, CloseUnreachable, StateOnceGone, TypeOK
  <2>2. c.run # r /\ state[r] = "parked" /\ idle'[r] = idle[r]
    BY <2>1, <1>t DEF Close, TypeOK
  <2> QED BY <2>1, <2>2, <1>6
<1>9. ASSUME NEW c \in todo, Fails(c) PROVE InTime(r)'
  <2>1. state[r] = "parked" /\ idle'[r] = idle[r]
    BY <1>9 DEF Fails, rows
  <2>2. env'.failures = env.failures + 1
    BY <1>9, <1>t DEF Fails, TypeOK
  <2> QED BY <2>1, <2>2, <1>t, <1>a DEF InTime
<1>10. CASE UNCHANGED vars
  BY <1>10, <1>t DEF vars, rows, sweep, InTime, ToBeClosed, DueToClose
<1> QED
  BY <1>1, <1>3, <1>4, <1>5, <1>7, <1>8, <1>9, <1>10 DEF Next, SweepStep

-----------------------------------------------------------------------------
(* The rows and the candidates of a sweep keep their types.                *)
THEOREM StaleTypeCorrect == Spec => []TypeOK
<1>1. ReminderInv => TypeOK
  BY DEF ReminderInv
<1> QED BY <1>1, InitStale, ReminderStep, PTL DEF Spec

(* However often a run is parked and swept, it is reminded once, and once  *)
(* more at most for every comment or write that failed (sweepStaleRuns).   *)
THEOREM OneReminderAlways == Spec => []OneReminder
<1>1. ReminderInv => OneReminder
  <2> SUFFICES ASSUME ReminderInv, NEW r \in Run
               PROVE  seen[r].all <= 1 + env.failures
    BY DEF OneReminder
  <2>1. /\ seen[r].all <= Recorded(r) + Recording(r) + env.failures
        /\ seen[r].all \in Nat /\ env.failures \in Nat
    BY DEF ReminderInv, Accounted, TypeOK
  <2>2. pinged[r] => Recording(r) = 0
    BY DEF ReminderInv, CandidatesAreCurrent, Recording, AboutToBe, DueToRemind
  <2> QED BY <2>1, <2>2 DEF Recorded, Recording
<1> QED BY <1>1, InitStale, ReminderStep, PTL DEF Spec

(* After each day's sweep, nobody has been silent at a gate for longer than*)
(* CLOSE_AFTER_MS and a day for each failure (sweepStaleRuns).             *)
THEOREM ClosedOnScheduleAlways == Spec => []ClosedOnSchedule
<1>1. ScheduleInv => ClosedOnSchedule
  BY DEF ScheduleInv, IdleIsSilence, InTime, ToBeClosed, ClosedOnSchedule
<1> QED BY <1>1, InitStale, ScheduleStep, PTL DEF Spec

-----------------------------------------------------------------------------

(***************************************************************************)
(* The stores.  What is alike in them is said row by row (StoresInv);      *)
(* first what it takes to compare sums over a table with running sums,     *)
(* and lists in the order of ids with sets of rows.                        *)
(***************************************************************************)

(* Sums.  Whatever it chooses next, a sum over a finite set comes to what  *)
(* any function of its subsets says that grows by each member's share.     *)
Adds(sum, share, S) ==
  /\ sum \in [SUBSET S -> Nat] /\ share \in [S -> Nat] /\ sum[{}] = 0
  /\ \A T \in SUBSET S : \A x \in S \ T : sum[T \cup {x}] = sum[T] + share[x]
AnyOf(T) == CHOOSE x \in T : TRUE
Step(f, share, T) ==
  IF T = {} THEN 0 ELSE share[AnyOf(T)] + f[T \ {AnyOf(T)}]

(* Such a sum grows by the share of whichever member is taken first.       *)
LEMMA SumSteps ==
  ASSUME NEW S, NEW share, NEW sum, Adds(sum, share, S)
  PROVE  \A T \in SUBSET S : /\ sum[T] = Step(sum, share, T)
                             /\ T # {} => AnyOf(T) \in T
<1>1. \A T \in SUBSET S : T # {} => AnyOf(T) \in T
  BY DEF AnyOf
<1>2. \A T \in SUBSET S : Step(sum, share, T) = sum[T]
  <2> SUFFICES ASSUME NEW T \in SUBSET S, T # {}
               PROVE  share[AnyOf(T)] + sum[T \ {AnyOf(T)}] = sum[T]
    BY DEF Step, Adds
  <2>1. PICK x \in T : x = AnyOf(T)
    BY <1>1
  <2> DEFINE U == T \ {x}
  <2>2. U \in SUBSET S /\ x \in S \ U /\ U \cup {x} = T
    BY <2>1
  <2> HIDE DEF U
  <2>3. /\ sum[U \cup {x}] = sum[U] + share[x]
        /\ sum[U] \in Nat /\ share[x] \in Nat
    BY <2>2 DEF Adds
  <2>4. sum[U \cup {x}] = sum[T]
    BY <2>2, Zenon
  <2>5. share[x] + sum[U] = sum[T]
    BY <2>3, <2>4
  <2> QED BY <2>1, <2>5 DEF U
<1> QED BY <1>1, <1>2

(* Whatever adds up the same shares comes to the same sum: a smallest set  *)
(* on which it does not would have a member to take away.                  *)
LEMMA SumIsAny ==
  ASSUME NEW S, IsFiniteSet(S), NEW share, NEW sum, Adds(sum, share, S),
         NEW f,
         \A T \in SUBSET S : f[T] = Step(f, share, T)
  PROVE  f[S] = sum[S]
<1>1. \A T \in SUBSET S :
        f[T] = Step(f, share, T) /\ sum[T] = Step(sum, share, T)
  BY SumSteps
<1> DEFINE Wrong == {T \in SUBSET S : f[T] # sum[T]}
<1> SUFFICES ASSUME Wrong # {} PROVE FALSE
  OBVIOUS
<1>2. Wrong \subseteq FiniteSubsetsOf(S)
  BY FS_FiniteSubsetsOfFinite
<1>3. PICK T \in Wrong :
        \A U \in Wrong : ~ (<<U, T>> \in StrictSubsetOrdering(S))
  <2> HIDE DEF Wrong
  <2> QED BY <1>2, FS_StrictSubsetOrderingWellFounded, WFMin
<1>4. T \in SUBSET S /\ f[T] # sum[T]
  BY <1>3
<1>5. T # {}
  BY <1>1, <1>4 DEF Step
<1> DEFINE V == T \ {AnyOf(T)}
<1>6. V \in SUBSET S /\ V \subseteq T /\ V # T
  BY <1>4, <1>5, SumSteps
<1> HIDE DEF V
<1>7. <<V, T>> \in StrictSubsetOrdering(S)
  BY <1>4, <1>6 DEF StrictSubsetOrdering
<1>8. f[V] = sum[V]
  BY <1>3, <1>6, <1>7
<1> QED BY <1>1, <1>4, <1>5, <1>8 DEF Step, V

(* What either store computes as the total (getCostMetrics) is such a sum  *)
(* over its own rows.                                                      *)
LEMMA TotalsAre ==
  ASSUME NEW memSum, NEW pgSum, NEW memShare, NEW pgShare,
         IsFiniteSet(DOMAIN mRuns), IsFiniteSet(pRuns),
         memShare = [i \in DOMAIN mRuns |-> mRuns[i].spent],
         pgShare = [r \in pRuns |-> r.spent],
         Adds(memSum, memShare, DOMAIN mRuns), Adds(pgSum, pgShare, pRuns)
  PROVE  /\ Mem!getCostMetrics.total = memSum[DOMAIN mRuns]
         /\ Pg!getCostMetrics.total = pgSum[pRuns]
<1>1. Mem!getCostMetrics.total = memSum[DOMAIN mRuns]
  <2> DEFINE Sums(f) == f = [s \in SUBSET DOMAIN mRuns |->
                IF s = {} THEN 0
                ELSE mRuns[CHOOSE x \in s : TRUE].spent
                       + f[s \ {CHOOSE x \in s : TRUE}]]
             total == CHOOSE f : Sums(f)
  <2>1. Mem!getCostMetrics.total = total[DOMAIN mRuns]
    BY DEF Mem!getCostMetrics, Mem!MapThenSumSet, Mem!MapThenFoldSet
  <2>2. \A s \in SUBSET DOMAIN mRuns :
          s # {} => memShare[AnyOf(s)] = mRuns[AnyOf(s)].spent
    BY SumSteps
  <2>3. Sums(memSum)
    <3>1. \A s \in SUBSET DOMAIN mRuns : memSum[s] = Step(memSum, memShare, s)
      BY SumSteps
    <3>2. memSum \in [SUBSET DOMAIN mRuns -> Nat]
      BY DEF Adds
    <3> QED BY <2>2, <3>1, <3>2 DEF Step, AnyOf
  <2> HIDE DEF Sums
  <2>4. Sums(total)
    BY <2>3
  <2> HIDE DEF total
  <2>5. \A T \in SUBSET DOMAIN mRuns : total[T] = Step(total, memShare, T)
    BY <2>2, <2>4 DEF Sums, Step, AnyOf
  <2> QED BY <2>1, <2>5, SumIsAny
<1>2. Pg!getCostMetrics.total = pgSum[pRuns]
  <2> DEFINE Sums(f) == f = [s \in SUBSET pRuns |->
                IF s = {} THEN 0
                ELSE (CHOOSE x \in s : TRUE).spent
                       + f[s \ {CHOOSE x \in s : TRUE}]]
             total == CHOOSE f : Sums(f)
  <2>1. Pg!getCostMetrics.total = total[pRuns]
    BY DEF Pg!getCostMetrics, Pg!MapThenSumSet, Pg!MapThenFoldSet
  <2>2. \A s \in SUBSET pRuns : s # {} => pgShare[AnyOf(s)] = AnyOf(s).spent
    BY SumSteps
  <2>3. Sums(pgSum)
    <3>1. \A s \in SUBSET pRuns : pgSum[s] = Step(pgSum, pgShare, s)
      BY SumSteps
    <3>2. pgSum \in [SUBSET pRuns -> Nat]
      BY DEF Adds
    <3> QED BY <2>2, <3>1, <3>2 DEF Step, AnyOf
  <2> HIDE DEF Sums
  <2>4. Sums(total)
    BY <2>3
  <2> HIDE DEF total
  <2>5. \A T \in SUBSET pRuns : total[T] = Step(total, pgShare, T)
    BY <2>2, <2>4 DEF Sums, Step, AnyOf
  <2> QED BY <2>1, <2>5, SumIsAny
<1> QED BY <1>1, <1>2

(* Ranks.  What comes n-th by distinct numbers is the one whose number is  *)
(* the n-th of those numbers.                                              *)
Below(V, v) == {u \in V : u <= v}
Rank(V, v) == Cardinality(Below(V, v))
Keyed(S, key, V) ==
  /\ IsFiniteSet(S) /\ key \in [S -> Int] /\ V = {key[x] : x \in S}
  /\ \A x, y \in S : key[x] = key[y] => x = y
Place(S, key, x) == Cardinality({y \in S : key[y] <= key[x]})

(* Ranks count from 1, and a larger number has the larger rank.            *)
LEMMA RanksInOrder ==
  ASSUME NEW V, IsFiniteSet(V), V \subseteq Int, NEW v \in V
  PROVE  /\ Rank(V, v) \in 1 .. Cardinality(V)
         /\ \A w \in V : v < w => Rank(V, v) < Rank(V, w)
<1>1. /\ IsFiniteSet(Below(V, v)) /\ Cardinality(Below(V, v)) \in Nat
      /\ Cardinality(Below(V, v)) <= Cardinality(V) /\ Cardinality(V) \in Nat
  <2>1. Below(V, v) \in SUBSET V
    BY DEF Below
  <2> QED BY <2>1, FS_Subset, FS_CardinalityType
<1>2. Cardinality(Below(V, v)) # 0
  <2>1. v \in Below(V, v)
    BY DEF Below
  <2> QED BY <1>1, <2>1, FS_EmptySet
<1>3. ASSUME NEW w \in V, v < w PROVE Rank(V, v) < Rank(V, w)
  <2>1. IsFiniteSet(Below(V, w)) /\ w \in Below(V, w)
    <3>1. Below(V, w) \in SUBSET V /\ w \in Below(V, w)
      BY DEF Below
    <3> QED BY <3>1, FS_Subset
  <2>2. Below(V, v) \in SUBSET (Below(V, w) \ {w})
    <3> SUFFICES ASSUME NEW u \in V, u <= v PROVE u <= w /\ u # w
      BY DEF Below
    <3>1. u \in Int /\ v \in Int /\ w \in Int
      OBVIOUS
    <3> QED BY <1>3, <3>1
  <2>3. /\ IsFiniteSet(Below(V, w) \ {w})
        /\ Cardinality(Below(V, w) \ {w}) = Cardinality(Below(V, w)) - 1
    BY <2>1, FS_RemoveElement
  <2>4. Cardinality(Below(V, v)) <= Cardinality(Below(V, w) \ {w})
    BY <2>2, <2>3, FS_Subset
  <2>5. Cardinality(Below(V, w)) \in Nat
    BY <2>1, FS_CardinalityType
  <2> QED BY <1>1, <2>3, <2>4, <2>5 DEF Rank
<1> QED BY <1>1, <1>2, <1>3 DEF Rank

(* No two numbers have the same rank.                                      *)
LEMMA RanksDiffer ==
  ASSUME NEW V, IsFiniteSet(V), V \subseteq Int
  PROVE  \A v, w \in V : Rank(V, v) = Rank(V, w) => v = w
<1> SUFFICES ASSUME NEW v \in V, NEW w \in V, v < w
             PROVE  Rank(V, v) # Rank(V, w)
  OBVIOUS
<1>1. /\ Rank(V, v) < Rank(V, w) /\ Rank(V, v) \in 1 .. Cardinality(V)
      /\ Rank(V, w) \in 1 .. Cardinality(V)
  BY RanksInOrder
<1> QED BY <1>1

(* Every rank up to their number is that of one of them.                   *)
LEMMA RanksReached ==
  ASSUME NEW V, IsFiniteSet(V), V \subseteq Int, NEW n \in 1 .. Cardinality(V)
  PROVE  \E v \in V : Rank(V, v) = n
<1> DEFINE rank == [v \in V |-> Rank(V, v)]
           N == 1 .. Cardinality(V)
<1>1. \A v, w \in V : v # w => Rank(V, v) # Rank(V, w)
  BY RanksDiffer
<1>2. Cardinality(V) \in Nat /\ IsFiniteSet(N) /\ Cardinality(N) = Cardinality(V)
  BY FS_CardinalityType, FS_Interval
<1>3. rank \in Injection(V, N)
  <2>1. \A v \in V : Rank(V, v) \in N
    BY RanksInOrder
  <2> QED BY <1>1, <2>1 DEF Injection, IsInjective
<1>4. rank \in Surjection(V, N)
  BY <1>2, <1>3, FS_Injection
<1> QED BY <1>4 DEF Surjection

(* A row's place among the rows is the rank of its key among the keys.     *)
LEMMA RankByKey ==
  ASSUME NEW S, NEW key, NEW V, Keyed(S, key, V)
  PROVE  /\ IsFiniteSet(V) /\ Cardinality(V) = Cardinality(S) /\ V \subseteq Int
         /\ \A x \in S : Place(S, key, x) = Rank(V, key[x])
<1>1. IsFiniteSet(V) /\ Cardinality(V) = Cardinality(S)
  <2>1. key \in Bijection(S, V)
    BY DEF Keyed, Bijection, Injection, Surjection, IsInjective
  <2> QED BY <2>1, FS_Bijection DEF Keyed, ExistsBijection
<1>2. ASSUME NEW x \in S
      PROVE  Place(S, key, x) = Rank(V, key[x])
  <2> DEFINE B == {y \in S : key[y] <= key[x]}
             f == [y \in B |-> key[y]]
  <2>1. f \in Bijection(B, Below(V, key[x]))
    BY DEF Keyed, Bijection, Injection, Surjection, IsInjective, Below
  <2>2. IsFiniteSet(B)
    BY FS_Subset, B \in SUBSET S DEF Keyed
  <2> HIDE DEF B, f
  <2>3. Cardinality(Below(V, key[x])) = Cardinality(B)
    BY <2>1, <2>2, FS_Bijection DEF ExistsBijection
  <2> QED BY <2>3 DEF B, Rank, Place
<1> QED BY <1>1, <1>2 DEF Keyed

(* There is an n-th row, and its key is the n-th of the keys.              *)
LEMMA NthByKey ==
  ASSUME NEW S, NEW key, NEW V, Keyed(S, key, V), NEW n \in 1 .. Cardinality(S)
  PROVE  /\ \E x \in S : Place(S, key, x) = n
         /\ \A x \in S : Place(S, key, x) = n
                           => key[x] \in V /\ Rank(V, key[x]) = n
<1>1. /\ IsFiniteSet(V) /\ Cardinality(V) = Cardinality(S) /\ V \subseteq Int
      /\ \A x \in S : Place(S, key, x) = Rank(V, key[x])
  BY RankByKey
<1>2. PICK v \in V : Rank(V, v) = n
  <2>1. n \in 1 .. Cardinality(V)
    BY <1>1
  <2> QED BY <1>1, <2>1, RanksReached
<1>3. PICK x \in S : key[x] = v
  BY <1>2 DEF Keyed
<1> QED BY <1>1, <1>2, <1>3 DEF Keyed

(* A list in the order of keys has each row once, at its place, and a row  *)
(* with the smaller key before one with the larger.                        *)
LEMMA Listed ==
  ASSUME NEW S, NEW key, NEW V, Keyed(S, key, V)
  PROVE  /\ Cardinality(S) \in Nat
         /\ \A x \in S :
              /\ Place(S, key, x) \in 1 .. Cardinality(S)
              /\ (CHOOSE y \in S : Place(S, key, y) = Place(S, key, x)) = x
         /\ \A n \in 1 .. Cardinality(S) :
              LET x == CHOOSE y \in S : Place(S, key, y) = n
              IN  x \in S /\ Place(S, key, x) = n
         /\ \A x, y \in S :
              key[x] < key[y] <=> Place(S, key, x) < Place(S, key, y)
<1>1. /\ IsFiniteSet(V) /\ Cardinality(V) = Cardinality(S) /\ V \subseteq Int
      /\ \A x \in S : Place(S, key, x) = Rank(V, key[x])
      /\ \A x \in S : key[x] \in V
      /\ \A x, y \in S : key[x] = key[y] => x = y
  <2>1. /\ IsFiniteSet(V) /\ Cardinality(V) = Cardinality(S) /\ V \subseteq Int
        /\ \A x \in S : Place(S, key, x) = Rank(V, key[x])
    BY RankByKey
  <2>2. /\ \A x \in S : key[x] \in V
        /\ \A x, y \in S : key[x] = key[y] => x = y
    BY DEF Keyed
  <2> QED BY <2>1, <2>2
<1>2. Cardinality(S) \in Nat
  BY FS_CardinalityType DEF Keyed
<1>3. \A v \in V : /\ Rank(V, v) \in 1 .. Cardinality(V)
                   /\ \A w \in V : v < w => Rank(V, v) < Rank(V, w)
  BY <1>1, RanksInOrder
<1>4. \A x \in S : Place(S, key, x) \in 1 .. Cardinality(S)
  BY <1>1, <1>3
<1>5. \A x, y \in S : Place(S, key, x) = Place(S, key, y) => x = y
  BY <1>1, RanksDiffer
<1>6. ASSUME NEW x \in S, NEW y \in S
      PROVE  key[x] < key[y] <=> Place(S, key, x) < Place(S, key, y)
  <2>1. key[x] \in Int /\ key[y] \in Int
    BY <1>1
  <2>2. Place(S, key, x) \in Nat /\ Place(S, key, y) \in Nat
    BY <1>4
  <2>3. /\ key[x] < key[y] => Place(S, key, x) < Place(S, key, y)
        /\ key[y] < key[x] => Place(S, key, y) < Place(S, key, x)
    BY <1>1, <1>3
  <2>4. key[x] = key[y] => Place(S, key, x) = Place(S, key, y)
    BY <1>1
  <2> QED BY <2>1, <2>2, <2>3, <2>4
<1>7. \A n \in 1 .. Cardinality(S) : \E x \in S : Place(S, key, x) = n
  BY NthByKey
<1> QED BY <1>2, <1>4, <1>5, <1>6, <1>7

-----------------------------------------------------------------------------

(* Runs.  The two rows of a run are alike, but for the time of its last    *)
(* update, and runs were created in the same order.                        *)
RunsNumbered ==
  /\ \A i \in DOMAIN mRuns : mRuns[i].id = i
  /\ \A r \in pRuns : r.id \in 1 .. pRunIds
  /\ \A r, s \in pRuns : r.key = s.key => r = s
RunAlike(m, p) ==
  /\ p.key = m.key /\ p.state = m.state /\ p.context = m.context
  /\ p.budget = m.budget /\ p.spent = m.spent /\ p.pinged_at = m.pingedAt
  /\ m.updatedAt <= p.updated_at
RunsPaired ==
  /\ \A i \in DOMAIN mRuns : \E r \in pRuns : RunAlike(mRuns[i], r)
  /\ \A r \in pRuns : \E i \in DOMAIN mRuns : RunAlike(mRuns[i], r)
  /\ \A r \in pRuns : r.updated_at <= now
  /\ \A i, k \in DOMAIN mRuns, r, s \in pRuns :
       mRuns[i].key = r.key /\ mRuns[k].key = s.key => (i < k <=> r.id < s.id)
RunsInv == RunsNumbered /\ RunsPaired

(* The sums of what was spent on runs, which the proof has at hand only if *)
(* the invariant carries them along.                                       *)
SpentAlike(spent) ==
  \A k \in RunKey :
    /\ k \notin Known => spent[k] = 0
    /\ \A r \in pRuns : r.key = k => r.spent = spent[k]
SumsInv ==
  \E spent \in [RunKey -> Nat], total \in [SUBSET RunKey -> Nat] :
    Adds(total, spent, RunKey) /\ SpentAlike(spent)

(* Artifacts.                                                              *)
ArtifactsInv ==
  /\ \A n \in DOMAIN mArtifacts : mArtifacts[n].run \in DOMAIN mRuns
  /\ \A a \in pArtifacts : a.run_id \in 1 .. pRunIds
  /\ \A n, l \in DOMAIN mArtifacts :
       mArtifacts[n].run = mArtifacts[l].run
         /\ mArtifacts[n].kind = mArtifacts[l].kind => n = l
  /\ \A i \in DOMAIN mRuns, r \in pRuns, k \in Kind :
       mRuns[i].key = r.key => Mem!getArtifact(i, k) = Pg!getArtifact(r.id, k)

(* Tasks.                                                                  *)
TaskAlike(m, p) ==
  /\ p.idx = m.idx /\ p.status = m.status /\ p.red = m.red
  /\ p.green = m.green /\ p.sha = m.sha
TasksNumbered ==
  /\ IsFiniteSet(pTasks)
  /\ \A t \in pTasks : t.id \in 1 .. pTaskIds /\ t.run_id \in 1 .. pRunIds
  /\ \A t, u \in pTasks : t.id = u.id => t = u
  /\ \A t, u \in pTasks : t.run_id = u.run_id /\ t.idx = u.idx => t = u
TasksOfPair(i, r) ==
  /\ \A n \in DOMAIN mTasks : mTasks[n].run = i =>
       \E t \in pTasks : t.run_id = r.id /\ TaskAlike(mTasks[n], t)
  /\ \A t \in pTasks : t.run_id = r.id =>
       \E n \in DOMAIN mTasks : mTasks[n].run = i /\ TaskAlike(mTasks[n], t)
TasksPaired ==
  /\ OneTaskPerIndex
  /\ \A n \in DOMAIN mTasks : mTasks[n].run \in DOMAIN mRuns
  /\ \A i \in DOMAIN mRuns, r \in pRuns :
       mRuns[i].key = r.key => TasksOfPair(i, r)
TasksInv == TasksNumbered /\ (refused \/ TasksPaired)

(* Jobs.  Until one is queued again they become due in the order of their  *)
(* ids.                                                                    *)
PgJobOf(j, m) ==
  [id |-> j, status |-> m.status, attempts |-> m.attempts,
   available_at |-> m.availableAt, locked_at |-> m.lockedAt]
DueInOrder ==
  \A j \in DOMAIN mJobs :
    /\ mJobs[j].availableAt <= now
    /\ \A k \in DOMAIN mJobs :
         j < k => mJobs[j].availableAt <= mJobs[k].availableAt
JobsPaired ==
  /\ pJobs = {PgJobOf(j, mJobs[j]) : j \in DOMAIN mJobs}
  /\ DueInOrder /\ mHeld = pHeld
JobsInv == IsFiniteSet(pJobs) /\ (retried \/ JobsPaired)

StoresInv ==
  /\ StoresTypeOK /\ RunsInv /\ SumsInv /\ ArtifactsInv /\ TasksInv /\ JobsInv
  /\ CredentialsAlike /\ AnswersMirrored

(* The stores count as this module does.                                   *)
LEMMA SameCount ==
  \A S : Mem!Cardinality(S) = Cardinality(S) /\ Pg!Cardinality(S) = Cardinality(S)
BY DEF Mem!Cardinality, Pg!Cardinality, Cardinality

-----------------------------------------------------------------------------

(* What a step does to the runs.                                           *)
Others == <<mJobs, mTasks, mArtifacts, mCredentials,
            pJobs, pTasks, pArtifacts, pCredentials, pTaskIds>>
Rewritten(i, r, m, p) ==
  /\ mRuns[i].key = r.key /\ m.key = r.key /\ p.key = r.key
  /\ m.id = i /\ p.id = r.id
  /\ RunAlike(m, p) /\ p.updated_at <= now
  /\ p.spent - r.spent \in Nat
  /\ mRuns' = [mRuns EXCEPT ![i] = m]
  /\ pRuns' = (pRuns \ {r}) \cup {p}
Added(m, p) ==
  /\ \A r \in pRuns : r.key # p.key
  /\ m.id = Len(mRuns) + 1 /\ p.id = pRunIds + 1
  /\ RunAlike(m, p) /\ p.updated_at <= now
  /\ p.spent = 0
  /\ mRuns' = Append(mRuns, m)
  /\ pRuns' = pRuns \cup {p} /\ pRunIds' = pRunIds + 1
RunsChange ==
  \/ /\ mRuns' = mRuns /\ pRuns' = pRuns /\ pRunIds' = pRunIds
  \/ /\ \E i \in DOMAIN mRuns, r \in pRuns, m \in MemRun, p \in PgRun :
          Rewritten(i, r, m, p)
     /\ pRunIds' \in {pRunIds, pRunIds + 1}
  \/ \E m \in MemRun, p \in PgRun : Added(m, p)

(* A run is known by the same key to both stores, by the id of its own to  *)
(* each.                                                                   *)
LEMMA RunIds ==
  ASSUME StoresTypeOK, RunsInv, NEW key \in Known
  PROVE  \E i \in DOMAIN mRuns, r \in pRuns :
           /\ mRuns[i].key = key /\ r.key = key /\ RunAlike(mRuns[i], r)
           /\ MemId(key) = i /\ PgId(key) = r.id
           /\ Mem!WithId(i) = {i} /\ Pg!RunOf(r.id) = {r}
<1>1. PICK r \in pRuns : r.key = key
  BY DEF Known
<1>2. \A s \in pRuns : s.key = key => s = r
  BY <1>1 DEF RunsInv, RunsNumbered
<1>3. PICK i \in DOMAIN mRuns : RunAlike(mRuns[i], r)
  BY <1>1 DEF RunsInv, RunsPaired
<1>4. /\ Len(mRuns) \in Nat /\ DOMAIN mRuns = 1 .. Len(mRuns)
      /\ \A n \in DOMAIN mRuns : mRuns[n] \in MemRun
      /\ \A s \in pRuns : s \in PgRun
  BY DEF StoresTypeOK
<1>5. \A k \in DOMAIN mRuns : mRuns[k].key = key => k = i
  <2> SUFFICES ASSUME NEW k \in DOMAIN mRuns, mRuns[k].key = key
               PROVE  k = i
    OBVIOUS
  <2>1. (i < k <=> r.id < r.id) /\ (k < i <=> r.id < r.id)
    BY <1>1, <1>3 DEF RunsInv, RunsPaired, RunAlike
  <2>2. i \in Nat /\ k \in Nat /\ r.id \in Nat
    BY <1>4, <1>1 DEF PgRun
  <2> QED BY <2>1, <2>2
<1>6. mRuns[i].key = key
  BY <1>1, <1>3 DEF RunAlike
<1>7. MemId(key) = i
  <2>1. (CHOOSE k \in DOMAIN mRuns : mRuns[k].key = key) = i
    BY <1>5, <1>6
  <2>2. mRuns[i].id = i
    BY DEF RunsInv, RunsNumbered
  <2> QED BY <2>1, <2>2 DEF MemId
<1>8. PgId(key) = r.id
  <2>1. (CHOOSE s \in pRuns : s.key = key) = r
    BY <1>1, <1>2
  <2> QED BY <2>1 DEF PgId
<1>9. Mem!WithId(i) = {i}
  BY DEF RunsInv, RunsNumbered, Mem!WithId
<1>10. Pg!RunOf(r.id) = {r}
  <2> SUFFICES ASSUME NEW s \in pRuns, s.id = r.id PROVE s = r
    BY <1>1 DEF Pg!RunOf
  <2>1. PICK k \in DOMAIN mRuns : RunAlike(mRuns[k], s)
    BY DEF RunsInv, RunsPaired
  <2>2. (i < k <=> r.id < s.id) /\ (k < i <=> s.id < r.id)
    BY <1>1, <1>3, <2>1 DEF RunsInv, RunsPaired, RunAlike
  <2>3. i \in Nat /\ k \in Nat /\ r.id \in Nat
    BY <1>4, <1>1 DEF PgRun
  <2>4. i = k
    BY <2>2, <2>3
  <2> QED BY <1>1, <1>3, <2>1, <2>4 DEF RunAlike, RunsInv, RunsNumbered
<1> QED BY <1>1, <1>3, <1>6, <1>7, <1>8, <1>9, <1>10

(* What is asked about one run changes the same fields of its two rows and *)
(* is answered alike.                                                      *)
LEMMA RunAsked ==
  ASSUME StoresTypeOK, RunsInv, NEW key \in Known, AskAboutRun(key)
  PROVE  /\ RunsChange /\ UNCHANGED Others
         /\ mAnswer' = pAnswer'
<1>1. PICK i \in DOMAIN mRuns, r \in pRuns :
           /\ mRuns[i].key = key /\ r.key = key /\ RunAlike(mRuns[i], r)
           /\ MemId(key) = i /\ PgId(key) = r.id
           /\ Mem!WithId(i) = {i} /\ Pg!RunOf(r.id) = {r}
  BY RunIds
<1>2. /\ mRuns[i] \in MemRun /\ r \in PgRun /\ now \in Nat /\ mRuns[i].id = i
      /\ r.updated_at <= now /\ Cost \subseteq Nat
  BY NumbersAssumption DEF StoresTypeOK, RunsInv, RunsNumbered, RunsPaired
<1> DEFINE Goal(m, p) ==
      /\ Rewritten(i, r, m, p) /\ m \in MemRun /\ p \in PgRun
      /\ pRunIds' = pRunIds /\ UNCHANGED Others /\ mAnswer' = pAnswer'
<1> SUFFICES \E m, p : Goal(m, p)
  BY DEF RunsChange
<1>3. ASSUME NEW s \in RunState,
             Mem!UpdateRunState(i, s), Pg!UpdateRunState(r.id, s)
      PROVE  \E m, p : Goal(m, p)
  <2> DEFINE m == [mRuns[i] EXCEPT !.state = s, !.updatedAt = now]
             p == [r EXCEPT !.state = s, !.updated_at = now]
  <2>1. mRuns' = [mRuns EXCEPT ![i] = m] /\ mAnswer' = Null
    BY <1>1, <1>2, <1>3 DEF Mem!UpdateRunState, Mem!Ask
  <2>2. pRuns' = (pRuns \ {r}) \cup {p} /\ pAnswer' = Null
    BY <1>1, <1>3 DEF Pg!UpdateRunState, Pg!UpdateRun, Pg!Set, Pg!Ask
  <2>3. UNCHANGED Others /\ pRunIds' = pRunIds
    BY <1>1, <1>3 DEF Others, Mem!UpdateRunState, Pg!UpdateRunState, Pg!UpdateRun
  <2>4. m \in MemRun /\ p \in PgRun
    BY <1>2, <1>3 DEF MemRun, PgRun
  <2>5. /\ RunAlike(m, p) /\ p.updated_at <= now /\ p.spent - r.spent \in Nat
        /\ m.id = i /\ p.id = r.id /\ m.key = key /\ p.key = key
    BY <1>1, <1>2 DEF RunAlike, MemRun, PgRun
  <2> HIDE DEF m, p
  <2>6. Goal(m, p)
    BY <1>1, <2>1, <2>2, <2>3, <2>4, <2>5 DEF Rewritten
  <2> QED BY <2>6
<1>4. ASSUME NEW c \in Context,
             Mem!UpdateRunContext(i, c), Pg!UpdateRunContext(r.id, c)
      PROVE  \E m, p : Goal(m, p)
  <2> DEFINE m == [mRuns[i] EXCEPT !.context = c, !.updatedAt = now]
             p == [r EXCEPT !.context = c, !.updated_at = now]
  <2>1. mRuns' = [mRuns EXCEPT ![i] = m] /\ mAnswer' = Null
    BY <1>1, <1>2, <1>4 DEF Mem!UpdateRunContext, Mem!Ask
  <2>2. pRuns' = (pRuns \ {r}) \cup {p} /\ pAnswer' = Null
    BY <1>1, <1>4 DEF Pg!UpdateRunContext, Pg!UpdateRun, Pg!Set, Pg!Ask
  <2>3. UNCHANGED Others /\ pRunIds' = pRunIds
    BY <1>1, <1>4 DEF Others, Mem!UpdateRunContext, Pg!UpdateRunContext, Pg!UpdateRun
  <2>4. m \in MemRun /\ p \in PgRun
    BY <1>2, <1>4 DEF MemRun, PgRun
  <2>5. /\ RunAlike(m, p) /\ p.updated_at <= now /\ p.spent - r.spent \in Nat
        /\ m.id = i /\ p.id = r.id /\ m.key = key /\ p.key = key
    BY <1>1, <1>2 DEF RunAlike, MemRun, PgRun
  <2> HIDE DEF m, p
  <2>6. Goal(m, p)
    BY <1>1, <2>1, <2>2, <2>3, <2>4, <2>5 DEF Rewritten
  <2> QED BY <2>6
<1>5. ASSUME NEW b \in Cost,
             Mem!SetRunBudget(i, b), Pg!SetRunBudget(r.id, b)
      PROVE  \E m, p : Goal(m, p)
  <2> DEFINE m == [mRuns[i] EXCEPT !.budget = b, !.updatedAt = now]
             p == [r EXCEPT !.budget = b, !.updated_at = now]
  <2>1. mRuns' = [mRuns EXCEPT ![i] = m] /\ mAnswer' = Null
    BY <1>1, <1>2, <1>5 DEF Mem!SetRunBudget, Mem!Ask
  <2>2. pRuns' = (pRuns \ {r}) \cup {p} /\ pAnswer' = Null
    BY <1>1, <1>5 DEF Pg!SetRunBudget, Pg!UpdateRun, Pg!Set, Pg!Ask
  <2>3. UNCHANGED Others /\ pRunIds' = pRunIds
    BY <1>1, <1>5 DEF Others, Mem!SetRunBudget, Pg!SetRunBudget, Pg!UpdateRun
  <2>4. m \in MemRun /\ p \in PgRun
    BY <1>2, <1>5 DEF MemRun, PgRun
  <2>5. /\ RunAlike(m, p) /\ p.updated_at <= now /\ p.spent - r.spent \in Nat
        /\ m.id = i /\ p.id = r.id /\ m.key = key /\ p.key = key
    BY <1>1, <1>2 DEF RunAlike, MemRun, PgRun
  <2> HIDE DEF m, p
  <2>6. Goal(m, p)
    BY <1>1, <2>1, <2>2, <2>3, <2>4, <2>5 DEF Rewritten
  <2> QED BY <2>6
<1>6. ASSUME Mem!MarkRunPinged(i), Pg!MarkRunPinged(r.id)
      PROVE  \E m, p : Goal(m, p)
  <2> DEFINE m == [mRuns[i] EXCEPT !.pingedAt = now]
             p == [r EXCEPT !.pinged_at = now]
  <2>1. mRuns' = [mRuns EXCEPT ![i] = m] /\ mAnswer' = Null
    BY <1>1, <1>2, <1>6 DEF Mem!MarkRunPinged, Mem!Pinged, Mem!Ask
  <2>2. pRuns' = (pRuns \ {r}) \cup {p} /\ pAnswer' = Null
    BY <1>1, <1>6 DEF Pg!MarkRunPinged, Pg!UpdateRun, Pg!Set, Pg!Ask
  <2>3. UNCHANGED Others /\ pRunIds' = pRunIds
    BY <1>1, <1>6 DEF Others, Mem!MarkRunPinged, Pg!MarkRunPinged, Pg!UpdateRun
  <2>4. m \in MemRun /\ p \in PgRun
    BY <1>2 DEF MemRun, PgRun
  <2>5. /\ RunAlike(m, p) /\ p.updated_at <= now /\ p.spent - r.spent \in Nat
        /\ m.id = i /\ p.id = r.id /\ m.key = key /\ p.key = key
    BY <1>1, <1>2 DEF RunAlike, MemRun, PgRun
  <2> HIDE DEF m, p
  <2>6. Goal(m, p)
    BY <1>1, <2>1, <2>2, <2>3, <2>4, <2>5 DEF Rewritten
  <2> QED BY <2>6
<1>7. ASSUME NEW c \in Cost, Mem!RecordLlmCall(i, c), Pg!RecordLlmCall(r.id, c)
      PROVE  \E m, p : Goal(m, p)
  <2> DEFINE m == [mRuns[i] EXCEPT !.spent = @ + c, !.updatedAt = now]
             p == [r EXCEPT !.spent = @ + c, !.updated_at = now]
  <2>1. /\ mRuns' = [mRuns EXCEPT ![i] = m]
        /\ mAnswer' = mRuns[i].budget - (mRuns[i].spent + c)
    BY <1>1, <1>2, <1>7 DEF Mem!RecordLlmCall, Mem!Ask
  <2>2. /\ pRuns' = (pRuns \ {r}) \cup {p}
        /\ pAnswer' = r.budget - (r.spent + c)
    BY <1>1, <1>7
    DEF Pg!RecordLlmCall, Pg!UpdateRun, Pg!Set, Pg!Ask, Pg!Remaining
  <2>3. UNCHANGED Others /\ pRunIds' = pRunIds
    BY <1>1, <1>7 DEF Others, Mem!RecordLlmCall, Pg!RecordLlmCall, Pg!UpdateRun
  <2>4. m \in MemRun /\ p \in PgRun
    <3>1. /\ mRuns[i].spent + c \in Nat /\ r.spent + c \in Nat
      BY <1>2, <1>7 DEF MemRun, PgRun
    <3>2. m \in MemRun
      BY <1>2, <3>1 DEF MemRun
    <3>3. p \in PgRun
      BY <1>2, <3>1 DEF PgRun
    <3> QED BY <3>2, <3>3
  <2>5. /\ RunAlike(m, p) /\ p.updated_at <= now /\ p.spent - r.spent \in Nat
        /\ m.id = i /\ p.id = r.id /\ m.key = key /\ p.key = key
    BY <1>1, <1>2 DEF RunAlike, MemRun, PgRun
  <2>6. mAnswer' = pAnswer'
    BY <1>1, <2>1, <2>2 DEF RunAlike
  <2> HIDE DEF m, p
  <2>7. Goal(m, p)
    BY <1>1, <2>1, <2>2, <2>3, <2>4, <2>5, <2>6 DEF Rewritten
  <2> QED BY <2>7
<1> HIDE DEF Goal
<1> QED
  BY <1>1, <1>3, <1>4, <1>5, <1>6, <1>7 DEF AskAboutRun

(* A run is found by both stores or created by both, and only Postgres     *)
(* takes a found one for updated.                                          *)
LEMMA RunFound ==
  ASSUME StoresTypeOK, RunsInv, NEW key \in RunKey, FindOrCreateRun(key)
  PROVE  RunsChange /\ UNCHANGED Others /\ mAnswer' = pAnswer'
<1>1. PICK s \in RunState :
        Mem!FindOrCreateRun(key, s) /\ Pg!FindOrCreateRun(key, s)
  BY DEF FindOrCreateRun
<1>2. UNCHANGED Others /\ pRunIds' = pRunIds + 1
  BY <1>1 DEF Others, Mem!FindOrCreateRun, Pg!FindOrCreateRun
<1>3. now \in Nat /\ DefaultBudget \in Nat /\ Len(mRuns) \in Nat /\ pRunIds \in Nat
  BY NumbersAssumption DEF StoresTypeOK
<1>4. CASE key \in Known
  <2>1. PICK i \in DOMAIN mRuns, r \in pRuns :
           mRuns[i].key = key /\ r.key = key /\ RunAlike(mRuns[i], r)
    BY <1>4, RunIds
  <2>2. /\ mRuns[i] \in MemRun /\ r \in PgRun /\ mRuns[i].id = i
        /\ r.updated_at <= now
        /\ \A q \in pRuns : q.key = key => q = r
    <3>1. mRuns[i] \in MemRun /\ r \in PgRun
      BY <2>1 DEF StoresTypeOK
    <3>2. \A q \in pRuns : q.key = key => q = r
      BY <2>1 DEF RunsInv, RunsNumbered
    <3> QED BY <3>1, <3>2 DEF RunsInv, RunsNumbered, RunsPaired
  <2> DEFINE p == [r EXCEPT !.updated_at = now]
  <2>3. mRuns' = mRuns /\ mAnswer' = FALSE
    BY <1>1, <2>1 DEF Mem!FindOrCreateRun, Mem!WithKey, Mem!Ask
  <2>4. pRuns' = (pRuns \ {r}) \cup {p} /\ pAnswer' = FALSE
    BY <1>1, <2>1, <2>2 DEF Pg!FindOrCreateRun, Pg!Set, Pg!Ask
  <2>5. p \in PgRun
    BY <1>3, <2>2 DEF PgRun
  <2>6. /\ RunAlike(mRuns[i], p) /\ p.updated_at <= now /\ p.spent - r.spent \in Nat
        /\ p.id = r.id /\ p.key = key
    BY <1>3, <2>1, <2>2 DEF RunAlike, MemRun, PgRun
  <2> HIDE DEF p
  <2>7. mRuns' = [mRuns EXCEPT ![i] = mRuns[i]]
    BY <2>3 DEF StoresTypeOK
  <2>8. Rewritten(i, r, mRuns[i], p)
    BY <2>1, <2>2, <2>4, <2>6, <2>7 DEF Rewritten
  <2> QED BY <1>2, <2>1, <2>2, <2>3, <2>4, <2>5, <2>8 DEF RunsChange
<1>5. CASE key \notin Known
  <2> DEFINE m == [id |-> Len(mRuns) + 1, key |-> key, state |-> s,
                   context |-> Null, budget |-> DefaultBudget, spent |-> 0,
                   updatedAt |-> now, pingedAt |-> Null]
             p == [id |-> pRunIds + 1, key |-> key, state |-> s,
                   context |-> Null, budget |-> DefaultBudget, spent |-> 0,
                   updated_at |-> now, pinged_at |-> Null]
  <2>1. \A r \in pRuns : r.key # key
    BY <1>5 DEF Known
  <2>2. \A i \in DOMAIN mRuns : mRuns[i].key # key
    BY <2>1 DEF RunsInv, RunsPaired, RunAlike
  <2>3. mRuns' = Append(mRuns, m) /\ mAnswer' = TRUE
    BY <1>1, <2>2 DEF Mem!FindOrCreateRun, Mem!WithKey, Mem!Created, Mem!Ask
  <2>4. pRuns' = pRuns \cup {p} /\ pAnswer' = TRUE
    BY <1>1, <2>1 DEF Pg!FindOrCreateRun, Pg!Ask
  <2>5. m \in MemRun /\ p \in PgRun
    BY <1>3 DEF MemRun, PgRun
  <2>6. /\ RunAlike(m, p) /\ p.updated_at <= now /\ p.spent = 0
        /\ m.id = Len(mRuns) + 1 /\ p.id = pRunIds + 1 /\ p.key = key
    BY <1>3 DEF RunAlike
  <2> HIDE DEF m, p
  <2>7. Added(m, p)
    BY <1>2, <2>1, <2>3, <2>4, <2>6 DEF Added
  <2> QED BY <1>2, <2>3, <2>4, <2>5, <2>7 DEF RunsChange
<1> QED BY <1>4, <1>5

(* What a step leaves as it is.                                            *)
LEMMA JobsLeaveRows ==
  AskAboutJobs =>
    UNCHANGED <<now, mRuns, mTasks, mArtifacts, mCredentials,
                pRuns, pTasks, pArtifacts, pCredentials, pRunIds, pTaskIds,
                group, calls, refused>>
<1> SUFFICES ASSUME AskAboutJobs
             PROVE  UNCHANGED <<now, mRuns, mTasks, mArtifacts, mCredentials,
                      pRuns, pTasks, pArtifacts, pCredentials, pRunIds, pTaskIds,
                      group, calls, refused>>
  OBVIOUS
<1>1. UNCHANGED <<now, group, calls, refused>>
  BY DEF AskAboutJobs
<1>2. CASE EnqueueJob
  BY <1>1, <1>2 DEF EnqueueJob, Mem!EnqueueJob, Pg!EnqueueJob
<1>3. ASSUME NEW w \in Worker, Claim(w)
      PROVE  UNCHANGED <<mRuns, mTasks, mArtifacts, mCredentials,
                      pRuns, pTasks, pArtifacts, pCredentials, pRunIds, pTaskIds>>
  BY <1>3 DEF Claim, Mem!ClaimNextJob, Pg!ClaimNextJob
<1>4. ASSUME NEW w \in Worker, Settle(w)
      PROVE  UNCHANGED <<mRuns, mTasks, mArtifacts, mCredentials,
                      pRuns, pTasks, pArtifacts, pCredentials, pRunIds, pTaskIds>>
  BY <1>4 DEF Settle, Mem!MarkJobDone, Pg!MarkJobDone, Mem!MarkJobFailed,
     Pg!MarkJobFailed, Mem!MarkJob, Pg!MarkJob, Mem!FailOrRetryJob,
     Pg!FailOrRetryJob
<1>5. ASSUME NEW w \in Worker, Crash(w)
      PROVE  UNCHANGED <<mRuns, mTasks, mArtifacts, mCredentials,
                      pRuns, pTasks, pArtifacts, pCredentials, pRunIds, pTaskIds>>
  BY <1>5 DEF Crash, mem, pg
<1> QED BY <1>1, <1>2, <1>3, <1>4, <1>5 DEF AskAboutJobs

(* Artifacts and tasks: the other tables stay.                             *)
LEMMA RecordsLeaveRest ==
  ASSUME NEW key, AskAboutRecords(key)
  PROVE  UNCHANGED <<mJobs, mRuns, mCredentials, pJobs, pRuns, pCredentials,
                     pRunIds>>
BY DEF AskAboutRecords, Mem!RecordArtifact, Pg!RecordArtifact, Mem!RecordTask,
   Pg!RecordTask, Mem!UpdateTask, Pg!UpdateTask

(* Credentials: the other tables stay.                                     *)
LEMMA CredentialsLeaveRest ==
  ASSUME NEW i, AskAboutCredentials(i)
  PROVE  UNCHANGED <<mJobs, mRuns, mTasks, mArtifacts, pJobs, pRuns, pTasks,
                     pArtifacts, pRunIds, pTaskIds>>
BY DEF AskAboutCredentials, Mem!UpsertInstallationCredential,
   Pg!UpsertInstallationCredential, Mem!SetInstallationAuthType,
   Pg!SetInstallationAuthType, Mem!DeleteInstallationCredential,
   Pg!DeleteInstallationCredential

RowsQuiet == UNCHANGED <<mJobs, pJobs, held, retried, now>>

(* A step asks about jobs, runs, the records of one, or credentials; or    *)
(* time passes.                                                            *)
LEMMA StoresSteps ==
  ASSUME StoresTypeOK, RunsInv, [StoresNext]_storesVars
  PROVE  \/ AskAboutJobs
         \/ RowsQuiet /\ RunsChange /\ UNCHANGED Others /\ mAnswer' = pAnswer'
              /\ calls < MaxCalls /\ calls' = calls + 1
              /\ UNCHANGED <<group, refused>>
         \/ \E key \in Known : RowsQuiet /\ AskAboutRecords(key)
              /\ calls < MaxCalls /\ calls' = calls + 1 /\ group' = group
              /\ refused' = (refused \/ (pTaskIds' # pTaskIds /\ pTasks' = pTasks))
         \/ \E i \in Installation : RowsQuiet /\ AskAboutCredentials(i)
              /\ calls < MaxCalls /\ calls' = calls + 1
              /\ UNCHANGED <<group, refused>>
         \/ StoresTick
         \/ UNCHANGED storesVars
<1>1. CASE StoresTick
  BY <1>1
<1>2. CASE AskAboutJobs
  BY <1>2
<1>3. CASE UNCHANGED storesVars
  BY <1>3
<1>4. CASE AskAboutRows
  <2>1. /\ calls < MaxCalls /\ calls' = calls + 1
        /\ refused' = (refused \/ (pTaskIds' # pTaskIds /\ pTasks' = pTasks))
        /\ UNCHANGED <<now, group, held, retried>>
    BY <1>4 DEF AskAboutRows
  <2>2. ASSUME pTaskIds' = pTaskIds PROVE refused' = refused
    BY <2>1, <2>2 DEF StoresTypeOK
  <2>3. ASSUME RunsChange, UNCHANGED Others
        PROVE  RowsQuiet /\ refused' = refused
    BY <2>1, <2>2, <2>3 DEF RowsQuiet, Others
  <2>4. ASSUME NEW k \in RunKey, FindOrCreateRun(k)
        PROVE  RunsChange /\ UNCHANGED Others /\ mAnswer' = pAnswer'
    BY <2>4, RunFound
  <2>5. ASSUME NEW k \in Known, AskAboutRun(k)
        PROVE  RunsChange /\ UNCHANGED Others /\ mAnswer' = pAnswer'
    BY <2>5, RunAsked
  <2>6. ASSUME NEW k \in Known, AskAboutRecords(k) PROVE RowsQuiet
    BY <2>1, <2>6, RecordsLeaveRest DEF RowsQuiet
  <2>7. ASSUME NEW i \in Installation, AskAboutCredentials(i)
        PROVE  RowsQuiet /\ refused' = refused
    BY <2>1, <2>2, <2>7, CredentialsLeaveRest DEF RowsQuiet
  <2> QED
    BY <1>4, <2>1, <2>3, <2>4, <2>5, <2>6, <2>7 DEF AskAboutRows
<1> QED BY <1>1, <1>2, <1>3, <1>4 DEF StoresNext

(* The runs stay paired.                                                   *)
LEMMA RewrittenPaired ==
  ASSUME StoresTypeOK, RunsInv, now' = now, pRunIds' \in {pRunIds, pRunIds + 1},
         NEW i \in DOMAIN mRuns, NEW r \in pRuns,
         NEW m \in MemRun, NEW p \in PgRun, Rewritten(i, r, m, p)
  PROVE  /\ mRuns' \in Seq(MemRun) /\ pRuns' \subseteq PgRun /\ pRunIds' \in Nat
         /\ DOMAIN mRuns' = DOMAIN mRuns
         /\ \A k \in DOMAIN mRuns : mRuns'[k].key = mRuns[k].key
         /\ RunsInv'
<1>1. /\ mRuns \in Seq(MemRun) /\ Len(mRuns) \in Nat
      /\ DOMAIN mRuns = 1 .. Len(mRuns)
      /\ pRuns \subseteq PgRun /\ pRunIds \in Nat /\ now \in Nat
      /\ \A s \in pRuns : s.id \in Nat
      /\ p.id \in Nat /\ p.id = r.id /\ m.id = i
      /\ m.key = r.key /\ p.key = r.key /\ mRuns[i].key = r.key
      /\ RunAlike(m, p) /\ p.updated_at <= now
  <2>1. /\ mRuns \in Seq(MemRun) /\ pRuns \subseteq PgRun /\ pRunIds \in Nat
        /\ now \in Nat
    BY DEF StoresTypeOK
  <2>2. \A s \in PgRun : s.id \in Nat
    BY DEF PgRun
  <2>3. /\ p.id = r.id /\ m.id = i
        /\ m.key = r.key /\ p.key = r.key /\ mRuns[i].key = r.key
        /\ RunAlike(m, p) /\ p.updated_at <= now
    BY DEF Rewritten
  <2>4. Len(mRuns) \in Nat /\ DOMAIN mRuns = 1 .. Len(mRuns)
    BY <2>1
  <2> QED BY <2>1, <2>2, <2>3, <2>4
<1>2. /\ mRuns' = [mRuns EXCEPT ![i] = m]
      /\ pRuns' = (pRuns \ {r}) \cup {p}
  BY DEF Rewritten
<1>3. /\ mRuns' \in Seq(MemRun) /\ DOMAIN mRuns' = DOMAIN mRuns
      /\ mRuns'[i] = m /\ \A k \in DOMAIN mRuns : k # i => mRuns'[k] = mRuns[k]
  BY <1>1, <1>2
<1>4. pRuns' \subseteq PgRun /\ pRunIds' \in Nat
  BY <1>1, <1>2
<1>5. \A k \in DOMAIN mRuns : mRuns'[k].key = mRuns[k].key
  BY <1>1, <1>3
<1>6. RunsNumbered'
  <2>1. \A k \in DOMAIN mRuns' : mRuns'[k].id = k
    BY <1>1, <1>3 DEF RunsInv, RunsNumbered
  <2>2. \A s \in pRuns' : s.id \in 1 .. pRunIds'
    BY <1>1, <1>2 DEF RunsInv, RunsNumbered
  <2>3. \A s, t \in pRuns' : s.key = t.key => s = t
    BY <1>1, <1>2 DEF RunsInv, RunsNumbered
  <2> QED BY <2>1, <2>2, <2>3 DEF RunsNumbered
<1>7. \A k \in DOMAIN mRuns : k # i => mRuns[k].key # r.key
  <2> SUFFICES ASSUME NEW k \in DOMAIN mRuns, mRuns[k].key = r.key
               PROVE  k = i
    OBVIOUS
  <2>1. (i < k <=> r.id < r.id) /\ (k < i <=> r.id < r.id)
    BY <1>1 DEF RunsInv, RunsPaired
  <2> QED BY <1>1, <2>1
<1>8. RunsPaired'
  <2>1. ASSUME NEW k \in DOMAIN mRuns'
        PROVE  \E s \in pRuns' : RunAlike(mRuns'[k], s)
    <3>1. CASE k = i
      BY <1>1, <1>2, <1>3, <3>1
    <3>2. CASE k # i
      <4>1. PICK s \in pRuns : RunAlike(mRuns[k], s)
        BY <1>3, <2>1 DEF RunsInv, RunsPaired
      <4>2. s # r
        BY <1>3, <1>7, <2>1, <3>2, <4>1 DEF RunAlike
      <4> QED BY <1>2, <1>3, <2>1, <3>2, <4>1, <4>2
    <3> QED BY <3>1, <3>2
  <2>2. ASSUME NEW s \in pRuns'
        PROVE  \E k \in DOMAIN mRuns' : RunAlike(mRuns'[k], s)
    <3>1. CASE s = p
      BY <1>1, <1>3, <3>1
    <3>2. CASE s \in pRuns /\ s # r
      <4>1. PICK k \in DOMAIN mRuns : RunAlike(mRuns[k], s)
        BY <3>2 DEF RunsInv, RunsPaired
      <4>2. k # i
        BY <1>1, <3>2, <4>1 DEF RunAlike, RunsInv, RunsNumbered
      <4> QED BY <1>3, <4>1, <4>2
    <3> QED BY <1>2, <3>1, <3>2
  <2>3. \A s \in pRuns' : s.updated_at <= now'
    BY <1>1, <1>2 DEF RunsInv, RunsPaired
  <2>4. ASSUME NEW k \in DOMAIN mRuns', NEW l \in DOMAIN mRuns',
               NEW s \in pRuns', NEW t \in pRuns',
               mRuns'[k].key = s.key, mRuns'[l].key = t.key
        PROVE  k < l <=> s.id < t.id
    <3>1. \E q \in pRuns : q.key = s.key /\ q.id = s.id
      BY <1>1, <1>2
    <3>2. \E q \in pRuns : q.key = t.key /\ q.id = t.id
      BY <1>1, <1>2
    <3> QED BY <1>3, <1>5, <2>4, <3>1, <3>2 DEF RunsInv, RunsPaired
  <2> QED BY <2>1, <2>2, <2>3, <2>4 DEF RunsPaired
<1> QED BY <1>3, <1>4, <1>5, <1>6, <1>8 DEF RunsInv

(* A new run comes last in both.                                           *)
LEMMA AddedPaired ==
  ASSUME StoresTypeOK, RunsInv, now' = now,
         NEW m \in MemRun, NEW p \in PgRun, Added(m, p)
  PROVE  /\ mRuns' \in Seq(MemRun) /\ pRuns' \subseteq PgRun /\ pRunIds' \in Nat
         /\ DOMAIN mRuns' = DOMAIN mRuns \cup {Len(mRuns) + 1}
         /\ Len(mRuns) + 1 \notin DOMAIN mRuns
         /\ mRuns'[Len(mRuns) + 1] = m
         /\ \A k \in DOMAIN mRuns : mRuns'[k] = mRuns[k]
         /\ RunsInv'
<1> DEFINE i == Len(mRuns) + 1
<1>1. /\ mRuns \in Seq(MemRun) /\ Len(mRuns) \in Nat
      /\ DOMAIN mRuns = 1 .. Len(mRuns)
      /\ pRuns \subseteq PgRun /\ pRunIds \in Nat /\ now \in Nat
      /\ \A s \in pRuns : s.id \in Nat
      /\ p.id \in Nat /\ p.id = pRunIds + 1 /\ m.id = i
      /\ m.key = p.key /\ \A s \in pRuns : s.key # p.key
      /\ RunAlike(m, p) /\ p.updated_at <= now
  BY DEF StoresTypeOK, Added, PgRun, RunAlike
<1>2. /\ mRuns' = Append(mRuns, m)
      /\ pRuns' = pRuns \cup {p} /\ pRunIds' = pRunIds + 1
  BY DEF Added
<1>3. /\ mRuns' \in Seq(MemRun) /\ DOMAIN mRuns' = DOMAIN mRuns \cup {i}
      /\ i \notin DOMAIN mRuns
      /\ mRuns'[i] = m /\ \A k \in DOMAIN mRuns : mRuns'[k] = mRuns[k]
      /\ \A k \in DOMAIN mRuns : k < i /\ k \in Nat
  BY <1>1, <1>2
<1>4. pRuns' \subseteq PgRun /\ pRunIds' \in Nat
  BY <1>1, <1>2
<1> HIDE DEF i
<1>5. RunsNumbered'
  <2>1. \A k \in DOMAIN mRuns' : mRuns'[k].id = k
    BY <1>1, <1>3 DEF RunsInv, RunsNumbered
  <2>2. \A s \in pRuns' : s.id \in 1 .. pRunIds'
    BY <1>1, <1>2 DEF RunsInv, RunsNumbered
  <2>3. \A s, t \in pRuns' : s.key = t.key => s = t
    BY <1>1, <1>2 DEF RunsInv, RunsNumbered
  <2> QED BY <2>1, <2>2, <2>3 DEF RunsNumbered
<1>6. \A k \in DOMAIN mRuns : mRuns[k].key # p.key
  BY <1>1 DEF RunsInv, RunsPaired, RunAlike
<1>7. RunsPaired'
  <2>1. ASSUME NEW k \in DOMAIN mRuns'
        PROVE  \E s \in pRuns' : RunAlike(mRuns'[k], s)
    BY <1>1, <1>2, <1>3, <2>1 DEF RunsInv, RunsPaired
  <2>2. ASSUME NEW s \in pRuns'
        PROVE  \E k \in DOMAIN mRuns' : RunAlike(mRuns'[k], s)
    <3>1. CASE s = p
      BY <1>1, <1>3, <3>1
    <3>2. CASE s \in pRuns
      <4>1. PICK k \in DOMAIN mRuns : RunAlike(mRuns[k], s)
        BY <3>2 DEF RunsInv, RunsPaired
      <4> QED BY <1>3, <4>1
    <3> QED BY <1>2, <3>1, <3>2
  <2>3. \A s \in pRuns' : s.updated_at <= now'
    BY <1>1, <1>2 DEF RunsInv, RunsPaired
  <2>4. ASSUME NEW k \in DOMAIN mRuns', NEW l \in DOMAIN mRuns',
               NEW s \in pRuns', NEW t \in pRuns',
               mRuns'[k].key = s.key, mRuns'[l].key = t.key
        PROVE  k < l <=> s.id < t.id
    <3>1. \A q \in pRuns : q.id < p.id
      BY <1>1 DEF RunsInv, RunsNumbered
    <3>2. i \in Nat
      BY <1>1 DEF i
    <3>3. (k = i <=> s = p) /\ (l = i <=> t = p)
      BY <1>1, <1>2, <1>3, <1>6, <2>4
    <3>4. CASE k = i /\ l = i
      BY <1>1, <3>2, <3>3, <3>4
    <3>5. CASE k = i /\ l # i
      <4>1. l \in DOMAIN mRuns /\ t \in pRuns /\ s = p
        BY <1>2, <1>3, <3>3, <3>5
      <4>2. l < i /\ l \in Nat /\ t.id < p.id /\ t.id \in Nat
        BY <1>1, <1>3, <3>1, <4>1
      <4> QED BY <1>1, <3>2, <3>5, <4>1, <4>2
    <3>6. CASE k # i /\ l = i
      <4>1. k \in DOMAIN mRuns /\ s \in pRuns /\ t = p
        BY <1>2, <1>3, <3>3, <3>6
      <4>2. k < i /\ k \in Nat /\ s.id < p.id /\ s.id \in Nat
        BY <1>1, <1>3, <3>1, <4>1
      <4> QED BY <1>1, <3>2, <3>6, <4>1, <4>2
    <3>7. CASE k # i /\ l # i
      <4>1. k \in DOMAIN mRuns /\ l \in DOMAIN mRuns /\ s \in pRuns /\ t \in pRuns
        BY <1>2, <1>3, <3>3, <3>7
      <4>2. mRuns[k].key = s.key /\ mRuns[l].key = t.key
        BY <1>3, <2>4, <4>1
      <4> QED BY <4>1, <4>2 DEF RunsInv, RunsPaired
    <3> QED BY <3>4, <3>5, <3>6, <3>7
  <2> QED BY <2>1, <2>2, <2>3, <2>4 DEF RunsPaired
<1> QED BY <1>3, <1>4, <1>5, <1>7 DEF RunsInv, i

(* No step takes the rows of runs apart.                                   *)
LEMMA RunsStep ==
  StoresTypeOK /\ RunsInv /\ [StoresNext]_storesVars =>
    /\ mRuns' \in Seq(MemRun) /\ pRuns' \subseteq PgRun /\ pRunIds' \in Nat
    /\ RunsInv'
<1> SUFFICES ASSUME StoresTypeOK, RunsInv, [StoresNext]_storesVars
             PROVE  /\ mRuns' \in Seq(MemRun) /\ pRuns' \subseteq PgRun
                    /\ pRunIds' \in Nat /\ RunsInv'
  OBVIOUS
<1>1. ASSUME mRuns' = mRuns, pRuns' = pRuns, pRunIds' = pRunIds,
             now' \in {now, now + 1}
      PROVE  /\ mRuns' \in Seq(MemRun) /\ pRuns' \subseteq PgRun
             /\ pRunIds' \in Nat /\ RunsInv'
  <2>1. RunsNumbered'
    BY <1>1 DEF RunsInv, RunsNumbered
  <2>2. \A r \in pRuns' : r.updated_at <= now'
    <3>1. \A r \in pRuns : r.updated_at <= now /\ r.updated_at \in Nat
      BY DEF StoresTypeOK, PgRun, RunsInv, RunsPaired
    <3>2. now \in Nat
      BY DEF StoresTypeOK
    <3> QED BY <1>1, <3>1, <3>2
  <2>3. RunsPaired'
    BY <1>1, <2>2 DEF RunsInv, RunsPaired, RunAlike
  <2> QED BY <1>1, <2>1, <2>3 DEF StoresTypeOK, RunsInv
<1>2. CASE AskAboutJobs
  BY <1>1, <1>2, JobsLeaveRows
<1>3. CASE RowsQuiet /\ RunsChange
  <2>1. now' = now
    BY <1>3 DEF RowsQuiet
  <2>2. CASE mRuns' = mRuns /\ pRuns' = pRuns /\ pRunIds' = pRunIds
    BY <1>1, <2>1, <2>2
  <2> QED BY <1>3, <2>1, <2>2, RewrittenPaired, AddedPaired DEF RunsChange
<1>4. ASSUME NEW key, RowsQuiet, AskAboutRecords(key)
      PROVE  /\ mRuns' \in Seq(MemRun) /\ pRuns' \subseteq PgRun
             /\ pRunIds' \in Nat /\ RunsInv'
  BY <1>1, <1>4, RecordsLeaveRest DEF RowsQuiet
<1>5. ASSUME NEW i, RowsQuiet, AskAboutCredentials(i)
      PROVE  /\ mRuns' \in Seq(MemRun) /\ pRuns' \subseteq PgRun
             /\ pRunIds' \in Nat /\ RunsInv'
  BY <1>1, <1>5, CredentialsLeaveRest DEF RowsQuiet
<1>6. CASE StoresTick
  BY <1>1, <1>6 DEF StoresTick, mem, pg
<1>7. CASE UNCHANGED storesVars
  BY <1>1, <1>7 DEF storesVars, mem, pg
<1> QED BY <1>2, <1>3, <1>4, <1>5, <1>6, <1>7, StoresSteps

(* What asking about jobs does to either table.                            *)
MemJobRewritten(j, m) ==
  /\ j \in DOMAIN mJobs /\ m \in MemJob /\ mJobs' = [mJobs EXCEPT ![j] = m]
PgJobRewritten(r, p) ==
  /\ r \in pJobs /\ p \in PgJob /\ p.id = r.id
  /\ pJobs' = (pJobs \ {r}) \cup {p}

(* The types, as far as jobs go.                                           *)
LEMMA JobTypes ==
  ASSUME StoresTypeOK
  PROVE  /\ mJobs \in Seq(MemJob) /\ Len(mJobs) \in Nat
         /\ DOMAIN mJobs = 1 .. Len(mJobs)
         /\ \A j \in DOMAIN mJobs : j \in Nat /\ mJobs[j] \in MemJob
         /\ pJobs \subseteq PgJob /\ now \in Nat
         /\ mHeld \in [Worker -> DOMAIN mJobs \cup {Null}]
         /\ pHeld \in [Worker -> {r.id : r \in pJobs} \cup {Null}]
         /\ MaxAttempts \in Nat /\ Null \notin Nat
         /\ \A n \in Nat : n < MaxAttempts => BackoffAfter[n] \in Nat
<1>1. MaxAttempts \in Nat /\ BackoffAfter \in [0 .. MaxAttempts -> Nat]
  BY NumbersAssumption
<1>2. \A n \in Nat : n < MaxAttempts => BackoffAfter[n] \in Nat
  BY <1>1
<1> QED BY <1>1, <1>2, NullAssumption DEF StoresTypeOK

(* A job rewritten is still one job, under its own id.                     *)
LEMMA RewrittenTypes ==
  ASSUME StoresTypeOK
  PROVE  /\ \A j, m : MemJobRewritten(j, m) =>
              mJobs' \in Seq(MemJob) /\ DOMAIN mJobs' = DOMAIN mJobs
         /\ \A r, p : PgJobRewritten(r, p) =>
              /\ pJobs' \subseteq PgJob
              /\ {s.id : s \in pJobs'} = {s.id : s \in pJobs}
              /\ IsFiniteSet(pJobs) => IsFiniteSet(pJobs')
<1>1. ASSUME NEW j, NEW m, MemJobRewritten(j, m)
      PROVE  mJobs' \in Seq(MemJob) /\ DOMAIN mJobs' = DOMAIN mJobs
  BY <1>1 DEF StoresTypeOK, MemJobRewritten
<1>2. ASSUME NEW r, NEW p, PgJobRewritten(r, p)
      PROVE  /\ pJobs' \subseteq PgJob
             /\ {s.id : s \in pJobs'} = {s.id : s \in pJobs}
             /\ IsFiniteSet(pJobs) => IsFiniteSet(pJobs')
  <2>1. pJobs' \subseteq PgJob /\ {s.id : s \in pJobs'} = {s.id : s \in pJobs}
    BY <1>2 DEF StoresTypeOK, PgJobRewritten
  <2>2. ASSUME IsFiniteSet(pJobs) PROVE IsFiniteSet(pJobs')
    <3>1. IsFiniteSet(pJobs \ {r})
      BY <2>2, FS_Subset, pJobs \ {r} \in SUBSET pJobs
    <3>2. IsFiniteSet((pJobs \ {r}) \cup {p})
      BY <3>1, FS_AddElement
    <3> QED BY <1>2, <3>2, Zenon DEF PgJobRewritten
  <2> QED BY <2>1, <2>2
<1> QED BY <1>1, <1>2

(* claimNextJob of the array: the first job that is due.                   *)
LEMMA MemClaims ==
  ASSUME StoresTypeOK, Mem!ClaimNextJob
  PROVE  \/ Mem!Due = {} /\ mAnswer' = Null /\ mJobs' = mJobs
         \/ \E j \in Mem!Due : \E m :
              /\ \A k \in Mem!Due : j <= k
              /\ MemJobRewritten(j, m) /\ mAnswer' = j
              /\ m = [mJobs[j] EXCEPT !.status = "in_progress",
                           !.attempts = mJobs[j].attempts + 1, !.lockedAt = now]
<1>1. CASE Mem!Due = {}
  BY <1>1 DEF Mem!ClaimNextJob, Mem!Ask
<1>2. ASSUME NEW j \in Mem!Due, \A k \in Mem!Due : j <= k,
             mJobs' = [mJobs EXCEPT ![j].status = "in_progress",
                           ![j].attempts = @ + 1, ![j].lockedAt = now],
             mAnswer' = j
      PROVE  LET m == [mJobs[j] EXCEPT !.status = "in_progress",
                         !.attempts = mJobs[j].attempts + 1, !.lockedAt = now]
             IN MemJobRewritten(j, m)
  <2> DEFINE m == [mJobs[j] EXCEPT !.status = "in_progress",
                         !.attempts = mJobs[j].attempts + 1, !.lockedAt = now]
  <2>1. j \in DOMAIN mJobs
    BY <1>2 DEF Mem!Due
  <2>2. mJobs[j] \in MemJob /\ now \in Nat
    BY <2>1, JobTypes
  <2>3. m \in MemJob
    <3>1. mJobs[j].attempts + 1 \in Nat
      BY <2>2 DEF MemJob
    <3> QED BY <2>2, <3>1 DEF MemJob, JobStatus
  <2>4. mJobs' = [mJobs EXCEPT ![j] = m]
    BY <1>2
  <2> QED BY <2>1, <2>3, <2>4 DEF MemJobRewritten
<1> QED BY <1>1, <1>2 DEF Mem!ClaimNextJob, Mem!Ask

(* claimNextJob of Postgres: the first by available_at, then by id.        *)
LEMMA PgClaims ==
  ASSUME StoresTypeOK, Pg!ClaimNextJob
  PROVE  \/ /\ \A r \in pJobs : ~Pg!Claimable(r)
            /\ pAnswer' = Null /\ pJobs' = pJobs
         \/ \E r \in pJobs : \E p :
              /\ Pg!Claimable(r)
              /\ \A s \in pJobs : Pg!Claimable(s) => Pg!NoLaterThan(r, s)
              /\ PgJobRewritten(r, p) /\ pAnswer' = r.id
              /\ p = [r EXCEPT !.status = "in_progress", !.locked_at = now,
                               !.attempts = r.attempts + 1]
<1>1. CASE \A r \in pJobs : ~Pg!Claimable(r)
  BY <1>1 DEF Pg!ClaimNextJob, Pg!Ask
<1>2. ASSUME NEW r \in pJobs,
             pJobs' = Pg!Set(pJobs, r,
               [r EXCEPT !.status = "in_progress", !.locked_at = now,
                         !.attempts = @ + 1])
      PROVE  LET p == [r EXCEPT !.status = "in_progress", !.locked_at = now,
                               !.attempts = r.attempts + 1]
             IN PgJobRewritten(r, p)
  <2> DEFINE p == [r EXCEPT !.status = "in_progress", !.locked_at = now,
                               !.attempts = r.attempts + 1]
  <2>1. r \in PgJob /\ now \in Nat
    BY JobTypes
  <2>2. p \in PgJob /\ p.id = r.id
    <3>1. r.attempts + 1 \in Nat
      BY <2>1 DEF PgJob
    <3> QED BY <2>1, <3>1 DEF PgJob, JobStatus
  <2>3. pJobs' = (pJobs \ {r}) \cup {p}
    BY <1>2 DEF Pg!Set
  <2> QED BY <2>2, <2>3 DEF PgJobRewritten
<1> QED BY <1>1, <1>2 DEF Pg!ClaimNextJob, Pg!Ask

(* markJobDone, markJobFailed and failOrRetryJob of the array, which look  *)
(* the job up by its position.                                             *)
LEMMA MemSettles ==
  ASSUME StoresTypeOK, NEW j \in DOMAIN mJobs
  PROVE  /\ \A s \in {"done", "failed"} : Mem!MarkJob(j, s) =>
              /\ MemJobRewritten(j, [mJobs[j] EXCEPT !.status = s])
              /\ mAnswer' = Null
         /\ Mem!FailOrRetryJob(j) =>
              \/ /\ mJobs[j].attempts >= MaxAttempts
                 /\ MemJobRewritten(j, [mJobs[j] EXCEPT !.status = "failed"])
                 /\ mAnswer' = <<"failed", mJobs[j].attempts>>
              \/ /\ mJobs[j].attempts < MaxAttempts
                 /\ \E m : MemJobRewritten(j, m)
<1>1. mJobs[j] \in MemJob /\ now \in Nat /\ mJobs \in Seq(MemJob)
  BY JobTypes
<1>2. \A s \in {"done", "failed"} : [mJobs[j] EXCEPT !.status = s] \in MemJob
  BY <1>1 DEF MemJob, JobStatus
<1>3. ASSUME NEW s \in {"done", "failed"},
             mJobs' = [mJobs EXCEPT ![j].status = s]
      PROVE  /\ MemJobRewritten(j, [mJobs[j] EXCEPT !.status = s])
             /\ mJobs'[j].status = s
  <2>1. mJobs' = [mJobs EXCEPT ![j] = [mJobs[j] EXCEPT !.status = s]]
    BY <1>3
  <2>2. mJobs'[j].status = s
    BY <1>1, <1>3 DEF MemJob
  <2> QED BY <1>2, <2>1, <2>2 DEF MemJobRewritten
<1>4. ASSUME mJobs[j].attempts < MaxAttempts,
             mJobs' = [mJobs EXCEPT
               ![j].status = "queued", ![j].lockedAt = Null,
               ![j].availableAt = now + BackoffAfter[mJobs[j].attempts]]
      PROVE  \E m : MemJobRewritten(j, m)
  <2> DEFINE m == [mJobs[j] EXCEPT !.status = "queued", !.lockedAt = Null,
                    !.availableAt = now + BackoffAfter[mJobs[j].attempts]]
  <2>1. now + BackoffAfter[mJobs[j].attempts] \in Nat
    <3>1. mJobs[j].attempts \in Nat
      BY <1>1 DEF MemJob
    <3>2. BackoffAfter[mJobs[j].attempts] \in Nat
      BY <1>4, <3>1, JobTypes
    <3> QED BY <1>1, <3>2
  <2>2. m \in MemJob
    BY <1>1, <2>1 DEF MemJob, JobStatus
  <2>3. mJobs' = [mJobs EXCEPT ![j] = m]
    BY <1>4
  <2> QED BY <2>2, <2>3 DEF MemJobRewritten
<1>5. \A s \in {"done", "failed"} : Mem!MarkJob(j, s) =>
              /\ MemJobRewritten(j, [mJobs[j] EXCEPT !.status = s])
              /\ mAnswer' = Null
  BY <1>3 DEF Mem!MarkJob, Mem!Ask
<1>6. ASSUME Mem!FailOrRetryJob(j)
      PROVE   \/ /\ mJobs[j].attempts >= MaxAttempts
                 /\ MemJobRewritten(j, [mJobs[j] EXCEPT !.status = "failed"])
                 /\ mAnswer' = <<"failed", mJobs[j].attempts>>
              \/ /\ mJobs[j].attempts < MaxAttempts
                 /\ \E m : MemJobRewritten(j, m)
  BY <1>3, <1>4, <1>6 DEF Mem!FailOrRetryJob, Mem!Ask
<1> QED BY <1>5, <1>6

(* And of Postgres, which name the job by its id.                          *)
LEMMA PgSettles ==
  ASSUME StoresTypeOK, NEW id
  PROVE  /\ \A s \in {"done", "failed"} : Pg!MarkJob(id, s) =>
              \E r \in pJobs :
                /\ r.id = id /\ PgJobRewritten(r, [r EXCEPT !.status = s])
                /\ pAnswer' = Null
         /\ Pg!FailOrRetryJob(id) =>
              \E r \in pJobs :
                /\ r.id = id
                /\ \/ /\ r.attempts >= MaxAttempts
                      /\ PgJobRewritten(r, [r EXCEPT !.status = "failed"])
                      /\ pAnswer' = <<"failed", r.attempts>>
                   \/ /\ r.attempts < MaxAttempts
                      /\ \E p : PgJobRewritten(r, p)
                      /\ pAnswer' = <<"queued", r.attempts>>
<1>1. \A r \in pJobs : r \in PgJob /\ now \in Nat
  BY JobTypes
<1>2. ASSUME NEW s \in {"done", "failed"}, NEW r \in pJobs,
             pJobs' = Pg!Set(pJobs, r, [r EXCEPT !.status = s])
      PROVE  PgJobRewritten(r, [r EXCEPT !.status = s])
  <2> DEFINE p == [r EXCEPT !.status = s]
  <2>1. p \in PgJob /\ p.id = r.id
    BY <1>1 DEF PgJob, JobStatus
  <2>2. pJobs' = (pJobs \ {r}) \cup {p}
    BY <1>2 DEF Pg!Set
  <2> QED BY <2>1, <2>2 DEF PgJobRewritten
<1>3. ASSUME NEW r \in pJobs, r.attempts < MaxAttempts,
             pJobs' = Pg!Set(pJobs, r,
               [r EXCEPT !.status = "queued", !.locked_at = Null,
                         !.available_at = now + BackoffAfter[r.attempts]])
      PROVE  \E p : PgJobRewritten(r, p)
  <2> DEFINE p == [r EXCEPT !.status = "queued", !.locked_at = Null,
                         !.available_at = now + BackoffAfter[r.attempts]]
  <2>1. now + BackoffAfter[r.attempts] \in Nat
    <3>1. r.attempts \in Nat
      BY <1>1 DEF PgJob
    <3>2. BackoffAfter[r.attempts] \in Nat
      BY <1>3, <3>1, JobTypes
    <3> QED BY <1>1, <3>2
  <2>2. p \in PgJob /\ p.id = r.id
    BY <1>1, <2>1 DEF PgJob, JobStatus
  <2>3. pJobs' = (pJobs \ {r}) \cup {p}
    BY <1>3 DEF Pg!Set
  <2> QED BY <2>2, <2>3 DEF PgJobRewritten
<1>4. ASSUME NEW s \in {"done", "failed"}, Pg!MarkJob(id, s)
      PROVE  \E r \in pJobs :
                /\ r.id = id /\ PgJobRewritten(r, [r EXCEPT !.status = s])
                /\ pAnswer' = Null
  BY <1>2, <1>4 DEF Pg!MarkJob, Pg!Ask
<1>5. ASSUME Pg!FailOrRetryJob(id)
      PROVE   \E r \in pJobs :
                /\ r.id = id
                /\ \/ /\ r.attempts >= MaxAttempts
                      /\ PgJobRewritten(r, [r EXCEPT !.status = "failed"])
                      /\ pAnswer' = <<"failed", r.attempts>>
                   \/ /\ r.attempts < MaxAttempts
                      /\ \E p : PgJobRewritten(r, p)
                      /\ pAnswer' = <<"queued", r.attempts>>
  BY <1>2, <1>3, <1>5 DEF Pg!FailOrRetryJob, Pg!Ask
<1> QED BY <1>4, <1>5

(* Two rows that are paired stay so when both are rewritten alike.         *)
LEMMA RewrittenAlike ==
  ASSUME StoresTypeOK, JobsPaired, now' = now, mHeld' = pHeld',
         NEW j, NEW m, MemJobRewritten(j, m),
         PgJobRewritten(PgJobOf(j, mJobs[j]), PgJobOf(j, m)),
         m.availableAt = mJobs[j].availableAt
  PROVE  JobsPaired'
<1>1. /\ j \in DOMAIN mJobs /\ mJobs' = [mJobs EXCEPT ![j] = m]
      /\ pJobs' = (pJobs \ {PgJobOf(j, mJobs[j])}) \cup {PgJobOf(j, m)}
      /\ pJobs = {PgJobOf(k, mJobs[k]) : k \in DOMAIN mJobs}
  BY DEF MemJobRewritten, PgJobRewritten, JobsPaired
<1>2. /\ DOMAIN mJobs' = DOMAIN mJobs /\ mJobs'[j] = m
      /\ \A k \in DOMAIN mJobs : k # j => mJobs'[k] = mJobs[k]
  BY <1>1, JobTypes
<1>3. \A k \in DOMAIN mJobs : k # j => PgJobOf(k, mJobs[k]) # PgJobOf(j, mJobs[j])
  BY DEF PgJobOf
<1>4. pJobs' = {PgJobOf(k, mJobs'[k]) : k \in DOMAIN mJobs'}
  BY <1>1, <1>2, <1>3
<1>5. \A k \in DOMAIN mJobs : mJobs'[k].availableAt = mJobs[k].availableAt
  BY <1>2
<1>6. DueInOrder'
  BY <1>2, <1>5 DEF JobsPaired, DueInOrder
<1> QED BY <1>4, <1>6 DEF JobsPaired

JobsTyped ==
  /\ mJobs \in Seq(MemJob) /\ pJobs \subseteq PgJob
  /\ mHeld \in [Worker -> DOMAIN mJobs \cup {Null}]
  /\ pHeld \in [Worker -> {r.id : r \in pJobs} \cup {Null}]
  /\ retried \in BOOLEAN
JobsKept == JobsTyped' /\ JobsInv' /\ AnswersMirrored'

(* Paired tables have as many jobs.                                        *)
LEMMA PairedCount ==
  ASSUME StoresTypeOK, JobsPaired
  PROVE  Cardinality(pJobs) = Len(mJobs)
<1> DEFINE D == 1 .. Len(mJobs)
           f == [j \in D |-> PgJobOf(j, mJobs[j])]
<1>1. D = DOMAIN mJobs /\ Len(mJobs) \in Nat
  BY JobTypes
<1>2. pJobs = {PgJobOf(j, mJobs[j]) : j \in D}
  BY <1>1 DEF JobsPaired
<1>3. \A j, k \in D : f[j] = f[k] => j = k
  BY DEF PgJobOf
<1>4. f \in Bijection(D, pJobs)
  BY <1>2, <1>3 DEF Bijection, Injection, Surjection, IsInjective
<1>5. IsFiniteSet(D) /\ Cardinality(D) = Len(mJobs)
  <2>1. \A n \in Nat : IsFiniteSet(1 .. n) /\ Cardinality(1 .. n) = n
    BY FS_Interval
  <2> QED BY <1>1, <2>1
<1> QED BY <1>4, <1>5, FS_Bijection DEF ExistsBijection

(* A new job is due now, and so after those that are there.                *)
LEMMA EnqueueKept == StoresTypeOK /\ JobsInv /\ now' = now /\ EnqueueJob => JobsKept
<1> SUFFICES ASSUME StoresTypeOK, JobsInv, now' = now, EnqueueJob PROVE JobsKept
  OBVIOUS
<1> DEFINE j == Len(mJobs) + 1
           id == Cardinality(pJobs) + 1
           m == [status |-> "queued", attempts |-> 0,
                 availableAt |-> now, lockedAt |-> Null]
           p == [id |-> id, status |-> "queued", attempts |-> 0,
                 available_at |-> now, locked_at |-> Null]
<1>1. /\ mJobs' = Append(mJobs, m) /\ mAnswer' = j
      /\ pJobs' = pJobs \cup {p} /\ pAnswer' = id
      /\ UNCHANGED <<mHeld, pHeld, retried>>
  <2>1. mJobs' = Append(mJobs, m) /\ mAnswer' = j
    BY DEF EnqueueJob, Mem!EnqueueJob, Mem!Ask
  <2>2. pJobs' = pJobs \cup {p} /\ pAnswer' = id
    <3>1. Pg!Cardinality(pJobs) = Cardinality(pJobs)
      BY SameCount
    <3> QED BY <3>1 DEF EnqueueJob, Pg!EnqueueJob, Pg!Ask
  <2>3. UNCHANGED <<mHeld, pHeld, retried>>
    BY DEF EnqueueJob, held
  <2> QED BY <2>1, <2>2, <2>3
<1>2. IsFiniteSet(pJobs)
  BY DEF JobsInv
<1>3. id \in Nat /\ IsFiniteSet(pJobs \cup {p})
  <2>1. Cardinality(pJobs) \in Nat
    BY <1>2, FS_CardinalityType
  <2> QED BY <1>2, <2>1, FS_AddElement
<1>4. m \in MemJob /\ p \in PgJob
  <2>1. now \in Nat
    BY JobTypes
  <2> QED BY <1>3, <2>1 DEF MemJob, PgJob, JobStatus
<1>5. /\ mJobs \in Seq(MemJob) /\ Len(mJobs) \in Nat
      /\ DOMAIN mJobs = 1 .. Len(mJobs)
      /\ mHeld \in [Worker -> DOMAIN mJobs \cup {Null}]
      /\ pHeld \in [Worker -> {r.id : r \in pJobs} \cup {Null}]
      /\ pJobs \subseteq PgJob /\ retried \in BOOLEAN
      /\ now \in Nat
  BY JobTypes DEF StoresTypeOK
<1> DEFINE q == PgJobOf(j, m)
<1>6. /\ q.id = j /\ m.availableAt = now
      /\ j = id => q = p
  BY DEF PgJobOf
<1> HIDE DEF m, p, id, q
<1>7. /\ mJobs' \in Seq(MemJob) /\ DOMAIN mJobs' = DOMAIN mJobs \cup {j}
      /\ j \notin DOMAIN mJobs /\ mJobs'[j] = m
      /\ \A k \in DOMAIN mJobs : mJobs'[k] = mJobs[k]
      /\ \A k \in DOMAIN mJobs : k < j /\ k \in Nat /\ j \in Nat
  BY <1>1, <1>4, <1>5
<1> HIDE DEF j
<1>8. JobsTyped'
  BY <1>1, <1>4, <1>5, <1>7 DEF JobsTyped
<1>9. IsFiniteSet(pJobs')
  BY <1>1, <1>3, Zenon
<1>10. CASE retried
  BY <1>1, <1>8, <1>9, <1>10 DEF JobsKept, JobsInv, AnswersMirrored
<1>11. CASE JobsPaired
  <2>1. j = id
    BY <1>11, PairedCount DEF j, id
  <2>2. pJobs' = {PgJobOf(k, mJobs'[k]) : k \in DOMAIN mJobs'}
    <3>1. pJobs = {PgJobOf(k, mJobs[k]) : k \in DOMAIN mJobs}
      BY <1>11 DEF JobsPaired
    <3>2. pJobs' = pJobs \cup {PgJobOf(j, m)}
      BY <1>1, <1>6, <2>1 DEF q
    <3> QED BY <1>7, <3>1, <3>2
  <2>3. DueInOrder'
    <3> SUFFICES ASSUME NEW k \in DOMAIN mJobs'
                 PROVE  /\ mJobs'[k].availableAt <= now
                        /\ \A l \in DOMAIN mJobs' : k < l =>
                             mJobs'[k].availableAt <= mJobs'[l].availableAt
      BY JobTypes DEF DueInOrder
    <3>1. CASE k = j
      BY <1>5, <1>6, <1>7, <3>1
    <3>2. CASE k \in DOMAIN mJobs
      <4>1. /\ mJobs'[k].availableAt <= now
            /\ \A l \in DOMAIN mJobs : k < l =>
                 mJobs'[k].availableAt <= mJobs'[l].availableAt
        BY <1>7, <1>11, <3>2 DEF JobsPaired, DueInOrder
      <4> QED BY <1>6, <1>7, <4>1
    <3> QED BY <1>7, <3>1, <3>2
  <2>4. JobsPaired'
    BY <1>1, <1>11, <2>2, <2>3 DEF JobsPaired
  <2> QED BY <1>1, <1>8, <1>9, <2>1, <2>4 DEF JobsKept, JobsInv, AnswersMirrored
<1> QED BY <1>10, <1>11 DEF JobsInv

(* Whose turn it is, they agree on, as long as both are in order.          *)
LEMMA SameTurn ==
  ASSUME StoresTypeOK, JobsPaired
  PROVE  /\ \A j \in DOMAIN mJobs :
              j \in Mem!Due <=> Pg!Claimable(PgJobOf(j, mJobs[j]))
         /\ \A j \in Mem!Due, k \in DOMAIN mJobs :
              LET r == PgJobOf(k, mJobs[k]) IN
              /\ \A l \in Mem!Due : j <= l
              /\ Pg!Claimable(r)
              /\ \A s \in pJobs : Pg!Claimable(s) => Pg!NoLaterThan(r, s)
              => k = j
<1>1. \A j \in DOMAIN mJobs :
              j \in Mem!Due <=> Pg!Claimable(PgJobOf(j, mJobs[j]))
  BY DEF Mem!Due, Mem!LeaseOver, Pg!Claimable, PgJobOf
<1>2. ASSUME NEW j \in Mem!Due, NEW k \in DOMAIN mJobs,
             \A l \in Mem!Due : j <= l,
             Pg!Claimable(PgJobOf(k, mJobs[k])),
             \A s \in pJobs : Pg!Claimable(s) =>
                Pg!NoLaterThan(PgJobOf(k, mJobs[k]), s)
      PROVE  k = j
  <2>1. j \in DOMAIN mJobs
    BY DEF Mem!Due
  <2>2. j <= k
    BY <1>1, <1>2
  <2>3. Pg!NoLaterThan(PgJobOf(k, mJobs[k]), PgJobOf(j, mJobs[j]))
    BY <1>1, <1>2, <2>1 DEF JobsPaired
  <2>4. /\ j \in Nat /\ k \in Nat
        /\ mJobs[j].availableAt \in Nat /\ mJobs[k].availableAt \in Nat
    BY <2>1, JobTypes DEF MemJob
  <2>5. \/ mJobs[k].availableAt < mJobs[j].availableAt
        \/ k <= j
    BY <2>3 DEF Pg!NoLaterThan, PgJobOf
  <2>6. j < k => mJobs[j].availableAt <= mJobs[k].availableAt
    BY <2>1 DEF JobsPaired, DueInOrder
  <2> QED BY <2>2, <2>4, <2>5, <2>6
<1> QED BY <1>1, <1>2

(* Types survive a step that rewrites a job at most.                       *)
LEMMA TypedAfter ==
  ASSUME StoresTypeOK, JobsInv,
         mJobs' = mJobs \/ \E j, m : MemJobRewritten(j, m),
         pJobs' = pJobs \/ \E r, p : PgJobRewritten(r, p),
         mHeld' \in [Worker -> DOMAIN mJobs \cup {Null}],
         pHeld' \in [Worker -> {r.id : r \in pJobs} \cup {Null}],
         retried' \in BOOLEAN
  PROVE  JobsTyped' /\ IsFiniteSet(pJobs')
<1>1. mJobs' \in Seq(MemJob) /\ DOMAIN mJobs' = DOMAIN mJobs
  BY RewrittenTypes, JobTypes
<1>2. /\ pJobs' \subseteq PgJob
      /\ {s.id : s \in pJobs'} = {s.id : s \in pJobs}
      /\ IsFiniteSet(pJobs')
  <2>1. CASE pJobs' = pJobs
    BY <2>1, JobTypes DEF JobsInv
  <2>2. CASE \E r, p : PgJobRewritten(r, p)
    BY <2>2, RewrittenTypes DEF JobsInv
  <2> QED BY <2>1, <2>2
<1>3. pHeld' \in [Worker -> {r.id : r \in pJobs'} \cup {Null}]
  BY <1>2, Zenon
<1> QED BY <1>1, <1>2, <1>3 DEF JobsTyped

(* A claim takes the same job in both.                                     *)
LEMMA ClaimKept ==
  ASSUME StoresTypeOK, JobsInv, now' = now, NEW w \in Worker, Claim(w)
  PROVE  JobsKept
<1>1. /\ mHeld' = [mHeld EXCEPT ![w] = mAnswer']
      /\ pHeld' = [pHeld EXCEPT ![w] = pAnswer']
      /\ retried' = retried /\ Mem!ClaimNextJob /\ Pg!ClaimNextJob
  BY DEF Claim
<1>2. /\ mJobs' = mJobs \/ \E j, m : MemJobRewritten(j, m)
      /\ mAnswer' \in DOMAIN mJobs \cup {Null}
  BY <1>1, MemClaims DEF MemJobRewritten
<1>3. /\ pJobs' = pJobs \/ \E r, p : PgJobRewritten(r, p)
      /\ pAnswer' \in {r.id : r \in pJobs} \cup {Null}
  <2>1. CASE pAnswer' = Null /\ pJobs' = pJobs
    BY <2>1
  <2>2. CASE \E r \in pJobs : \E p : PgJobRewritten(r, p) /\ pAnswer' = r.id
    BY <2>2
  <2> QED BY <1>1, <2>1, <2>2, PgClaims
<1>4. JobsTyped' /\ IsFiniteSet(pJobs')
  <2>1. mHeld' \in [Worker -> DOMAIN mJobs \cup {Null}]
    BY <1>1, <1>2, JobTypes
  <2>2. pHeld' \in [Worker -> {r.id : r \in pJobs} \cup {Null}]
    BY <1>1, <1>3, JobTypes
  <2>3. retried' \in BOOLEAN
    BY <1>1 DEF StoresTypeOK
  <2> QED BY <1>2, <1>3, <2>1, <2>2, <2>3, TypedAfter
<1>5. CASE retried
  BY <1>1, <1>4, <1>5 DEF JobsKept, JobsInv, AnswersMirrored
<1>6. CASE JobsPaired
  <2> DEFINE row(k) == PgJobOf(k, mJobs[k])
  <2>1. mAnswer' = pAnswer' => mHeld' = pHeld'
    BY <1>1, <1>6 DEF JobsPaired
  <2>2. /\ \A j \in Mem!Due : j \in DOMAIN mJobs
        /\ \A j \in DOMAIN mJobs : j \in Mem!Due <=> Pg!Claimable(row(j))
        /\ \A j \in DOMAIN mJobs : row(j) \in pJobs /\ row(j).id = j
        /\ \A r \in pJobs : \E j \in DOMAIN mJobs : r = row(j)
    BY <1>6, SameTurn DEF Mem!Due, JobsPaired, PgJobOf
  <2> HIDE DEF row
  <2>3. CASE Mem!Due = {}
    <3>1. mAnswer' = Null /\ mJobs' = mJobs
      BY <1>1, <2>3, MemClaims
    <3>2. \A r \in pJobs : ~Pg!Claimable(r)
      BY <2>2, <2>3
    <3>3. pAnswer' = Null /\ pJobs' = pJobs
      BY <1>1, <3>2, PgClaims
    <3>4. JobsPaired'
      BY <1>6, <2>1, <3>1, <3>3 DEF JobsPaired, DueInOrder
    <3> QED BY <1>4, <3>1, <3>3, <3>4 DEF JobsKept, JobsInv, AnswersMirrored
  <2>4. CASE Mem!Due # {}
    <3> DEFINE m(j) == [mJobs[j] EXCEPT !.status = "in_progress",
                         !.attempts = mJobs[j].attempts + 1, !.lockedAt = now]
               p(r) == [r EXCEPT !.status = "in_progress", !.locked_at = now,
                                 !.attempts = r.attempts + 1]
    <3>1. PICK j \in Mem!Due :
              /\ \A k \in Mem!Due : j <= k
              /\ MemJobRewritten(j, m(j)) /\ mAnswer' = j
      BY <1>1, <2>4, MemClaims
    <3>2. PICK r \in pJobs :
              /\ Pg!Claimable(r)
              /\ \A s \in pJobs : Pg!Claimable(s) => Pg!NoLaterThan(r, s)
              /\ PgJobRewritten(r, p(r)) /\ pAnswer' = r.id
      <4>1. ~\A r \in pJobs : ~Pg!Claimable(r)
        BY <2>2, <2>4
      <4> QED BY <1>1, <4>1, PgClaims
    <3>3. r = row(j)
      <4>1. PICK k \in DOMAIN mJobs : r = row(k)
        BY <2>2
      <4>2. k = j
        BY <1>6, <3>1, <3>2, <4>1, SameTurn DEF row
      <4> QED BY <4>1, <4>2
    <3>4. j \in DOMAIN mJobs /\ mJobs[j] \in MemJob
      BY <2>2, JobTypes
    <3>5. p(r) = PgJobOf(j, m(j)) /\ m(j).availableAt = mJobs[j].availableAt
      <4>1. r = [id |-> j, status |-> mJobs[j].status,
                 attempts |-> mJobs[j].attempts,
                 available_at |-> mJobs[j].availableAt,
                 locked_at |-> mJobs[j].lockedAt]
        BY <3>3 DEF row, PgJobOf
      <4>2. p(r) = [id |-> j, status |-> "in_progress",
                    attempts |-> mJobs[j].attempts + 1,
                    available_at |-> mJobs[j].availableAt, locked_at |-> now]
        <5>1. r.attempts = mJobs[j].attempts
          BY <4>1
        <5>2. PICK n : n = mJobs[j].attempts + 1
          OBVIOUS
        <5>3. PICK q : q = [r EXCEPT !.status = "in_progress"]
          OBVIOUS
        <5>4. PICK u : u = [q EXCEPT !.locked_at = now]
          OBVIOUS
        <5>5. p(r) = [u EXCEPT !.attempts = n]
          BY <5>1, <5>2, <5>3, <5>4
        <5> HIDE DEF p
        <5>6. q = [id |-> j, status |-> "in_progress",
                   attempts |-> mJobs[j].attempts,
                   available_at |-> mJobs[j].availableAt,
                   locked_at |-> mJobs[j].lockedAt]
          BY <4>1, <5>3
        <5>7. u = [id |-> j, status |-> "in_progress",
                   attempts |-> mJobs[j].attempts,
                   available_at |-> mJobs[j].availableAt, locked_at |-> now]
          BY <5>4, <5>6
        <5>8. [u EXCEPT !.attempts = n]
                = [id |-> j, status |-> "in_progress", attempts |-> n,
                   available_at |-> mJobs[j].availableAt, locked_at |-> now]
          BY <5>7
        <5> QED BY <5>2, <5>5, <5>8
      <4>3. /\ m(j).status = "in_progress"
            /\ m(j).attempts = mJobs[j].attempts + 1
            /\ m(j).availableAt = mJobs[j].availableAt /\ m(j).lockedAt = now
        BY <3>4 DEF MemJob
      <4> HIDE DEF m, p
      <4> QED BY <4>2, <4>3 DEF PgJobOf
    <3> HIDE DEF m, p
    <3>6. mAnswer' = pAnswer'
      BY <2>2, <3>1, <3>2, <3>3, <3>4
    <3>7. JobsPaired'
      BY <1>6, <2>1, <3>1, <3>2, <3>3, <3>5, <3>6, RewrittenAlike DEF row
    <3> QED BY <1>4, <3>6, <3>7 DEF JobsKept, JobsInv, AnswersMirrored
  <2> QED BY <2>3, <2>4
<1> QED BY <1>5, <1>6 DEF JobsInv

(* A job with the same new status in both is paired still.                 *)
LEMMA SettledAlike ==
  ASSUME StoresTypeOK, JobsPaired, now' = now, mHeld' = pHeld',
         NEW j \in DOMAIN mJobs, NEW r \in pJobs, r.id = j, NEW s,
         MemJobRewritten(j, [mJobs[j] EXCEPT !.status = s]),
         PgJobRewritten(r, [r EXCEPT !.status = s])
  PROVE  JobsPaired'
<1> DEFINE m == [mJobs[j] EXCEPT !.status = s]
           p == [r EXCEPT !.status = s]
<1>1. r = PgJobOf(j, mJobs[j])
  BY DEF JobsPaired, PgJobOf
<1>2. mJobs[j] \in MemJob
  BY JobTypes
<1>3. p = PgJobOf(j, m) /\ m.availableAt = mJobs[j].availableAt
  BY <1>1, <1>2 DEF PgJobOf, MemJob
<1>4. MemJobRewritten(j, m) /\ PgJobRewritten(r, p)
  OBVIOUS
<1> HIDE DEF m, p
<1> QED BY <1>1, <1>3, <1>4, RewrittenAlike

(* A job is settled alike, unless it is queued again.                      *)
LEMMA SettleKept ==
  ASSUME StoresTypeOK, JobsInv, now' = now, NEW w \in Worker, Settle(w)
  PROVE  JobsKept
<1>1. /\ mHeld' = [mHeld EXCEPT ![w] = Null]
      /\ pHeld' = [pHeld EXCEPT ![w] = Null]
      /\ mHeld[w] # Null /\ pHeld[w] # Null
  BY DEF Settle, Drop
<1>2. PICK j \in DOMAIN mJobs : j = mHeld[w]
  BY <1>1, JobTypes
<1>3. PICK id : id = pHeld[w]
  OBVIOUS
<1>4. JobsPaired => j = id /\ mHeld' = pHeld'
  BY <1>1, <1>2, <1>3 DEF JobsPaired
<1>5. /\ mHeld' \in [Worker -> DOMAIN mJobs \cup {Null}]
      /\ pHeld' \in [Worker -> {r.id : r \in pJobs} \cup {Null}]
  BY <1>1, JobTypes
<1>6. ASSUME NEW s \in {"done", "failed"}, Mem!MarkJob(j, s), Pg!MarkJob(id, s),
             retried' = retried
      PROVE  JobsKept
  <2>1. /\ MemJobRewritten(j, [mJobs[j] EXCEPT !.status = s])
        /\ mAnswer' = Null
    BY <1>6, MemSettles
  <2>2. PICK r \in pJobs :
          /\ r.id = id /\ PgJobRewritten(r, [r EXCEPT !.status = s])
          /\ pAnswer' = Null
    BY <1>6, PgSettles
  <2>3. JobsTyped' /\ IsFiniteSet(pJobs')
    <3>1. retried' \in BOOLEAN
      BY <1>6 DEF StoresTypeOK
    <3> QED BY <1>5, <2>1, <2>2, <3>1, TypedAfter
  <2>4. JobsPaired => JobsPaired'
    BY <1>4, <2>1, <2>2, SettledAlike
  <2> QED
    BY <1>6, <2>1, <2>2, <2>3, <2>4 DEF JobsKept, JobsInv, AnswersMirrored
<1>7. ASSUME Mem!FailOrRetryJob(j), Pg!FailOrRetryJob(id),
             retried' = (retried \/ pAnswer'[1] = "queued")
      PROVE  JobsKept
  <2>1. retried' \in BOOLEAN
    BY <1>7
  <2>2. \E m : MemJobRewritten(j, m)
    BY <1>7, MemSettles
  <2>3. PICK r \in pJobs :
          /\ r.id = id
          /\ \/ /\ r.attempts >= MaxAttempts
                /\ PgJobRewritten(r, [r EXCEPT !.status = "failed"])
                /\ pAnswer' = <<"failed", r.attempts>>
             \/ /\ r.attempts < MaxAttempts
                /\ \E p : PgJobRewritten(r, p)
                /\ pAnswer' = <<"queued", r.attempts>>
    BY <1>7, PgSettles
  <2>4. JobsTyped' /\ IsFiniteSet(pJobs')
    BY <1>5, <2>1, <2>2, <2>3, TypedAfter
  <2>5. CASE retried'
    BY <2>4, <2>5 DEF JobsKept, JobsInv, AnswersMirrored
  <2>6. CASE ~retried'
    <3>1. JobsPaired /\ pAnswer'[1] # "queued"
      BY <1>7, <2>6 DEF JobsInv
    <3>2. /\ r.attempts >= MaxAttempts
          /\ PgJobRewritten(r, [r EXCEPT !.status = "failed"])
          /\ pAnswer' = <<"failed", r.attempts>>
      BY <2>3, <3>1
    <3>3. r.attempts = mJobs[j].attempts /\ r.id = j
      BY <1>4, <2>3, <3>1 DEF JobsPaired, PgJobOf
    <3>4. mJobs[j].attempts \in Nat /\ MaxAttempts \in Nat
      BY JobTypes DEF MemJob
    <3>5. /\ MemJobRewritten(j, [mJobs[j] EXCEPT !.status = "failed"])
          /\ mAnswer' = <<"failed", mJobs[j].attempts>>
      <4>1. ~(mJobs[j].attempts < MaxAttempts)
        BY <3>2, <3>3, <3>4
      <4> QED BY <1>7, <4>1, MemSettles
    <3>6. JobsPaired'
      BY <1>4, <3>1, <3>2, <3>3, <3>5, SettledAlike
    <3>7. mAnswer' = pAnswer'
      BY <3>2, <3>3, <3>5
    <3> QED BY <2>4, <3>6, <3>7 DEF JobsKept, JobsInv, AnswersMirrored
  <2> QED BY <2>5, <2>6
<1> QED
  BY <1>2, <1>3, <1>6, <1>7
  DEF Settle, Mem!MarkJobDone, Mem!MarkJobFailed, Pg!MarkJobDone, Pg!MarkJobFailed

(* No step about jobs takes them apart while none is queued again.         *)
LEMMA JobsStep ==
  ASSUME StoresTypeOK, JobsInv, AnswersMirrored, AskAboutJobs
  PROVE  JobsKept
<1>1. now' = now /\ refused' = refused
  BY JobsLeaveRows
<1>2. ASSUME NEW w \in Worker, Crash(w) PROVE JobsKept
  <2>1. /\ mHeld' = [mHeld EXCEPT ![w] = Null]
        /\ pHeld' = [pHeld EXCEPT ![w] = Null]
        /\ UNCHANGED <<mJobs, pJobs, retried, mAnswer, pAnswer>>
    BY <1>2 DEF Crash, Drop, mem, pg
  <2>2. JobsTyped' /\ IsFiniteSet(pJobs')
    <3>1. /\ mHeld' \in [Worker -> DOMAIN mJobs \cup {Null}]
          /\ pHeld' \in [Worker -> {r.id : r \in pJobs} \cup {Null}]
          /\ retried' \in BOOLEAN
      BY <2>1, JobTypes DEF StoresTypeOK
    <3> QED BY <2>1, <3>1, TypedAfter
  <2>3. JobsPaired => JobsPaired'
    BY <1>1, <2>1 DEF JobsPaired, DueInOrder
  <2>4. AnswersMirrored'
    BY <1>1, <2>1 DEF AnswersMirrored
  <2> QED BY <2>1, <2>2, <2>3, <2>4 DEF JobsKept, JobsInv
<1> QED
  BY <1>1, <1>2, EnqueueKept, ClaimKept, SettleKept DEF AskAboutJobs

(* Credentials.                                                            *)
PgCredential == [installation : Installation, secret : Secret, auth_type : AuthType]
RowOf(h, c) ==
  [installation |-> h, secret |-> c.secret, auth_type |-> c.authType]
CredentialsKept ==
  /\ mCredentials' \in [Installation -> MemCredential \cup {Null}]
  /\ pCredentials' \subseteq PgCredential
  /\ CredentialsAlike' /\ mAnswer' = pAnswer'

(* Postgres has one row for each installation that has an entry in the     *)
(* map, and it says the same.                                              *)
LEMMA CredentialRows ==
  ASSUME StoresTypeOK, CredentialsAlike
  PROVE  /\ mCredentials \in [Installation -> MemCredential \cup {Null}]
         /\ \A c \in MemCredential : c # Null
         /\ pCredentials = {RowOf(h, mCredentials[h]) :
                              h \in {g \in Installation : mCredentials[g] # Null}}
         /\ \A h \in Installation :
              Pg!Of(h) = IF mCredentials[h] = Null THEN {}
                         ELSE {RowOf(h, mCredentials[h])}
<1>1. \A c \in MemCredential : c # Null
  <2> SUFFICES ASSUME NEW c \in MemCredential PROVE c # Null
    OBVIOUS
  <2>1. c = [secret |-> c.secret, authType |-> c.authType]
    BY DEF MemCredential
  <2>2. c.secret \in Secret /\ c.authType \in AuthType
    BY DEF MemCredential
  <2> QED BY <2>1, <2>2, NullAssumption
<1>2. pCredentials = {RowOf(h, mCredentials[h]) :
                        h \in {g \in Installation : mCredentials[g] # Null}}
  BY DEF CredentialsAlike, RowOf
<1>3. ASSUME NEW h \in Installation
      PROVE  Pg!Of(h) = IF mCredentials[h] = Null THEN {}
                        ELSE {RowOf(h, mCredentials[h])}
  <2>1. \A g \in Installation : RowOf(g, mCredentials[g]).installation = g
    BY DEF RowOf
  <2> QED BY <1>2, <2>1 DEF Pg!Of
<1> QED BY <1>1, <1>2, <1>3 DEF StoresTypeOK

(* The rows are alike when the credential of one installation was replaced *)
(* alike.                                                                  *)
LEMMA ReplacedAlike ==
  ASSUME StoresTypeOK, CredentialsAlike, NEW i \in Installation,
         NEW c \in MemCredential \cup {Null},
         mCredentials' = [mCredentials EXCEPT ![i] = c],
         pCredentials' = (pCredentials \ Pg!Of(i)) \cup
                           (IF c = Null THEN {} ELSE {RowOf(i, c)}),
         mAnswer' = pAnswer'
  PROVE  CredentialsKept
<1>1. /\ mCredentials \in [Installation -> MemCredential \cup {Null}]
      /\ pCredentials = {RowOf(h, mCredentials[h]) :
                           h \in {g \in Installation : mCredentials[g] # Null}}
  BY CredentialRows
<1>2. /\ mCredentials' \in [Installation -> MemCredential \cup {Null}]
      /\ mCredentials'[i] = c
      /\ \A h \in Installation : h # i => mCredentials'[h] = mCredentials[h]
  BY <1>1
<1>3. \A h, d : RowOf(h, d).installation = h
  BY DEF RowOf
<1>4. pCredentials' = {RowOf(h, mCredentials'[h]) :
                         h \in {g \in Installation : mCredentials'[g] # Null}}
  BY <1>1, <1>2, <1>3 DEF Pg!Of
<1>5. pCredentials' \subseteq PgCredential
  <2>1. \A d \in MemCredential, h \in Installation : RowOf(h, d) \in PgCredential
    BY DEF MemCredential, RowOf, PgCredential
  <2> QED BY <1>2, <1>4, <2>1
<1> QED BY <1>2, <1>4, <1>5 DEF CredentialsKept, CredentialsAlike, RowOf

(* Storing, relabelling and deleting a credential keep it so.              *)
LEMMA CredentialsStep ==
  ASSUME StoresTypeOK, CredentialsAlike, NEW i \in Installation,
         AskAboutCredentials(i)
  PROVE  CredentialsKept
<1>1. /\ mCredentials \in [Installation -> MemCredential \cup {Null}]
      /\ \A c \in MemCredential : c # Null
      /\ Pg!Of(i) = IF mCredentials[i] = Null THEN {}
                         ELSE {RowOf(i, mCredentials[i])}
  BY CredentialRows
<1>2. mCredentials[i] \in MemCredential \cup {Null}
  BY <1>1
<1>3. ASSUME NEW s \in Secret, Mem!UpsertInstallationCredential(i, s),
             Pg!UpsertInstallationCredential(i, s)
      PROVE  CredentialsKept
  <2> DEFINE c == [secret |-> s, authType |-> Mem!KeptType(mCredentials[i])]
  <2>1. c \in MemCredential
    <3>1. Mem!KeptType(mCredentials[i]) \in AuthType
      BY <1>2, AuthTypeAssumption DEF Mem!KeptType, MemCredential
    <3> QED BY <3>1 DEF MemCredential
  <2>2. mCredentials' = [mCredentials EXCEPT ![i] = c] /\ mAnswer' = Null
    BY <1>3 DEF Mem!UpsertInstallationCredential, Mem!Ask
  <2>3. pCredentials' = (pCredentials \ Pg!Of(i)) \cup {RowOf(i, c)}
    <3>1. CASE mCredentials[i] = Null
      <4>1. pCredentials' = pCredentials \cup
             {[installation |-> i, secret |-> s, auth_type |-> "api_key"]}
        BY <1>1, <1>3, <3>1 DEF Pg!UpsertInstallationCredential
      <4>2. RowOf(i, c) =
              [installation |-> i, secret |-> s, auth_type |-> "api_key"]
        BY <3>1 DEF RowOf, Mem!KeptType
      <4> QED BY <1>1, <3>1, <4>1, <4>2
    <3>2. CASE mCredentials[i] # Null
      <4> DEFINE r == RowOf(i, mCredentials[i])
      <4>1. Pg!Of(i) = {r}
        BY <1>1, <3>2
      <4>2. pCredentials' = (pCredentials \ {r}) \cup {[r EXCEPT !.secret = s]}
        BY <1>3, <4>1 DEF Pg!UpsertInstallationCredential, Pg!Set
      <4>3. RowOf(i, c) = [r EXCEPT !.secret = s]
        BY <3>2 DEF RowOf, Mem!KeptType
      <4> HIDE DEF r, c
      <4> QED BY <4>1, <4>2, <4>3
    <3> QED BY <3>1, <3>2
  <2>4. pAnswer' = Null
    BY <1>3 DEF Pg!UpsertInstallationCredential, Pg!Ask
  <2>5. c # Null
    BY <1>1, <2>1
  <2> HIDE DEF c
  <2> QED BY <2>1, <2>2, <2>3, <2>4, <2>5, ReplacedAlike
<1>4. ASSUME NEW t \in AuthType, Mem!SetInstallationAuthType(i, t),
             Pg!SetInstallationAuthType(i, t)
      PROVE  CredentialsKept
  <2>1. /\ pCredentials' = {IF d \in Pg!Of(i) THEN [d EXCEPT !.auth_type = t]
                            ELSE d : d \in pCredentials}
        /\ pAnswer' = (Pg!Of(i) # {})
    BY <1>4 DEF Pg!SetInstallationAuthType, Pg!Ask
  <2>2. CASE mCredentials[i] = Null
    <3>1. mCredentials' = mCredentials /\ mAnswer' = FALSE
      BY <1>4, <2>2 DEF Mem!SetInstallationAuthType, Mem!Ask
    <3>2. mCredentials' = [mCredentials EXCEPT ![i] = Null]
      BY <1>1, <2>2, <3>1
    <3>3. pCredentials' = (pCredentials \ Pg!Of(i)) \cup {} /\ pAnswer' = FALSE
      BY <1>1, <2>1, <2>2
    <3> QED BY <3>1, <3>2, <3>3, ReplacedAlike
  <2>3. CASE mCredentials[i] # Null
    <3> DEFINE c == [mCredentials[i] EXCEPT !.authType = t]
               r == RowOf(i, mCredentials[i])
    <3>1. mCredentials' = [mCredentials EXCEPT ![i] = c] /\ mAnswer' = TRUE
      BY <1>4, <2>3 DEF Mem!SetInstallationAuthType, Mem!Ask
    <3>2. c \in MemCredential
      BY <1>2, <2>3 DEF MemCredential
    <3>3. Pg!Of(i) = {r}
      BY <1>1, <2>3
    <3>4. [r EXCEPT !.auth_type = t] = RowOf(i, c)
      BY <1>2, <2>3 DEF RowOf, MemCredential
    <3> HIDE DEF c, r
    <3>5. r \in pCredentials
      BY <3>3 DEF Pg!Of
    <3>6. pCredentials' = (pCredentials \ Pg!Of(i)) \cup {RowOf(i, c)}
      BY <2>1, <3>3, <3>4, <3>5
    <3>7. pAnswer' = TRUE
      BY <2>1, <3>3
    <3>8. c # Null
      BY <1>1, <3>2
    <3> QED BY <3>1, <3>2, <3>6, <3>7, <3>8, ReplacedAlike
  <2> QED BY <2>2, <2>3
<1>5. ASSUME Mem!DeleteInstallationCredential(i),
             Pg!DeleteInstallationCredential(i)
      PROVE  CredentialsKept
  <2>1. /\ mCredentials' = [mCredentials EXCEPT ![i] = Null] /\ mAnswer' = Null
        /\ pCredentials' = (pCredentials \ Pg!Of(i)) \cup {} /\ pAnswer' = Null
    BY <1>5 DEF Mem!DeleteInstallationCredential, Mem!Ask,
       Pg!DeleteInstallationCredential, Pg!Ask
  <2> QED BY <2>1, ReplacedAlike
<1> QED BY <1>3, <1>4, <1>5 DEF AskAboutCredentials

(* Which row goes with which: old pairs are kept, and a new one has a new  *)
(* id in either store.                                                     *)
Pair(i, r) == i \in DOMAIN mRuns /\ r \in pRuns /\ mRuns[i].key = r.key

(* A row has one partner.                                                  *)
LEMMA PairIds ==
  ASSUME StoresTypeOK, RunsInv
  PROVE  \A i, k, r, s : Pair(i, r) /\ Pair(k, s) => (i = k <=> r.id = s.id)
<1> SUFFICES ASSUME NEW i, NEW k, NEW r, NEW s, Pair(i, r), Pair(k, s)
             PROVE  i = k <=> r.id = s.id
  OBVIOUS
<1>1. i \in Nat /\ k \in Nat /\ r.id \in Nat /\ s.id \in Nat
  <2>1. Len(mRuns) \in Nat /\ DOMAIN mRuns = 1 .. Len(mRuns) /\ pRuns \subseteq PgRun
    BY DEF StoresTypeOK
  <2> QED BY <2>1 DEF Pair, PgRun
<1>2. (i < k <=> r.id < s.id) /\ (k < i <=> s.id < r.id)
  BY DEF RunsInv, RunsPaired, Pair
<1> QED BY <1>1, <1>2

(* A step pairs rows as before, or both are new.                           *)
LEMMA PairsKept ==
  ASSUME StoresTypeOK, RunsInv, now' = now, RunsChange
  PROVE  /\ DOMAIN mRuns \subseteq DOMAIN mRuns'
         /\ pRunIds' \in {pRunIds, pRunIds + 1} /\ pRunIds \in Nat
         /\ \A i, r : Pair(i, r)' =>
              \/ \E q : Pair(i, q) /\ q.id = r.id
              \/ i \notin DOMAIN mRuns /\ r.id = pRunIds + 1
<1>1. pRunIds \in Nat
  BY DEF StoresTypeOK
<1>2. CASE mRuns' = mRuns /\ pRuns' = pRuns /\ pRunIds' = pRunIds
  BY <1>1, <1>2 DEF Pair
<1>3. ASSUME NEW i \in DOMAIN mRuns, NEW r \in pRuns, NEW m \in MemRun,
             NEW p \in PgRun, Rewritten(i, r, m, p),
             pRunIds' \in {pRunIds, pRunIds + 1}
      PROVE  /\ DOMAIN mRuns' = DOMAIN mRuns
             /\ \A k, s : Pair(k, s)' => \E q : Pair(k, q) /\ q.id = s.id
  <2>1. /\ DOMAIN mRuns' = DOMAIN mRuns
        /\ \A k \in DOMAIN mRuns : mRuns'[k].key = mRuns[k].key
    BY <1>3, RewrittenPaired
  <2>2. \A s \in pRuns' : \E q \in pRuns : q.key = s.key /\ q.id = s.id
    BY <1>3 DEF Rewritten
  <2> QED BY <2>1, <2>2 DEF Pair
<1>4. ASSUME NEW m \in MemRun, NEW p \in PgRun, Added(m, p)
      PROVE  /\ DOMAIN mRuns \subseteq DOMAIN mRuns' /\ pRunIds' = pRunIds + 1
             /\ \A k, s : Pair(k, s)' =>
                  \/ \E q : Pair(k, q) /\ q.id = s.id
                  \/ k \notin DOMAIN mRuns /\ s.id = pRunIds + 1
  <2>1. /\ DOMAIN mRuns' = DOMAIN mRuns \cup {Len(mRuns) + 1}
        /\ Len(mRuns) + 1 \notin DOMAIN mRuns
        /\ mRuns'[Len(mRuns) + 1] = m
        /\ \A k \in DOMAIN mRuns : mRuns'[k] = mRuns[k]
    BY <1>4, AddedPaired
  <2>2. /\ pRunIds' = pRunIds + 1 /\ pRuns' = pRuns \cup {p}
        /\ p.id = pRunIds + 1 /\ m.key = p.key
        /\ \A s \in pRuns : s.key # p.key
    BY <1>4 DEF Added, RunAlike
  <2>3. \A k \in DOMAIN mRuns : mRuns[k].key # p.key
    BY <2>2 DEF RunsInv, RunsPaired, RunAlike
  <2> QED BY <2>1, <2>2, <2>3 DEF Pair
<1> QED BY <1>1, <1>2, <1>3, <1>4 DEF RunsChange

(* Artifacts.                                                              *)
ArtifactTypes ==
  mArtifacts \in Seq(MemArtifact) /\ pArtifacts \subseteq PgArtifact

(* A run that is new has no artifacts in either store.                     *)
LEMMA ArtifactsOfNewRun ==
  ASSUME StoresTypeOK, RunsInv, ArtifactsInv, now' = now, RunsChange,
         UNCHANGED <<mArtifacts, pArtifacts>>
  PROVE  ArtifactTypes' /\ ArtifactsInv'
<1>1. /\ DOMAIN mRuns \subseteq DOMAIN mRuns'
      /\ pRunIds' \in {pRunIds, pRunIds + 1} /\ pRunIds \in Nat
      /\ \A i, r : Pair(i, r)' =>
              \/ \E q : Pair(i, q) /\ q.id = r.id
              \/ i \notin DOMAIN mRuns /\ r.id = pRunIds + 1
  BY PairsKept
<1>2. \A i, id, k : /\ Mem!getArtifact(i, k)' = Mem!getArtifact(i, k)
                    /\ Pg!getArtifact(id, k)' = Pg!getArtifact(id, k)
  BY DEF Mem!getArtifact, Pg!getArtifact, Mem!OfKind, Pg!OfKind
<1>3. ASSUME NEW i, NEW r, Pair(i, r)', NEW k \in Kind
      PROVE  Mem!getArtifact(i, k) = Pg!getArtifact(r.id, k)
  <2>1. ASSUME NEW q, Pair(i, q), q.id = r.id
        PROVE  Mem!getArtifact(i, k) = Pg!getArtifact(r.id, k)
    BY <2>1 DEF ArtifactsInv, Pair
  <2>2. ASSUME i \notin DOMAIN mRuns, r.id = pRunIds + 1
        PROVE  Mem!getArtifact(i, k) = Pg!getArtifact(r.id, k)
    <3>1. Mem!getArtifact(i, k) = {}
      BY <2>2 DEF ArtifactsInv, Mem!getArtifact, Mem!OfKind
    <3>2. \A a \in pArtifacts : a.run_id # r.id
      BY <1>1, <2>2 DEF ArtifactsInv
    <3> QED BY <3>1, <3>2 DEF Pg!getArtifact, Pg!OfKind
  <2> QED BY <1>1, <1>3, <2>1, <2>2
<1>4. \A i \in DOMAIN mRuns', r \in pRuns', k \in Kind :
        mRuns'[i].key = r.key =>
          Mem!getArtifact(i, k)' = Pg!getArtifact(r.id, k)'
  BY <1>2, <1>3 DEF Pair
<1>5. \A a \in pArtifacts' : a.run_id \in 1 .. pRunIds'
  BY <1>1 DEF ArtifactsInv
<1> QED BY <1>1, <1>4, <1>5 DEF ArtifactsInv, StoresTypeOK, ArtifactTypes

(* An artifact replaces that of its kind in both, or is the first.         *)
LEMMA ArtifactRecorded ==
  ASSUME StoresTypeOK, RunsInv, ArtifactsInv,
         UNCHANGED <<mRuns, pRuns, pRunIds>>,
         NEW i, NEW r, Pair(i, r), NEW kind \in Kind, NEW content \in Content,
         Mem!RecordArtifact(i, kind, content),
         Pg!RecordArtifact(r.id, kind, content)
  PROVE  ArtifactTypes' /\ ArtifactsInv' /\ mAnswer' = pAnswer'
<1>1. /\ mArtifacts \in Seq(MemArtifact) /\ pArtifacts \subseteq PgArtifact
      /\ Len(mArtifacts) \in Nat /\ DOMAIN mArtifacts = 1 .. Len(mArtifacts)
      /\ i \in DOMAIN mRuns /\ r.id \in 1 .. pRunIds /\ i \in Nat
      /\ pRunIds \in Nat
  BY DEF StoresTypeOK, Pair, RunsInv, RunsNumbered
<1>2. mAnswer' = content /\ pAnswer' = content
  BY DEF Mem!RecordArtifact, Pg!RecordArtifact, Mem!Ask, Pg!Ask
<1>3. \E n \in DOMAIN mArtifacts' :
        /\ mArtifacts' \in Seq(MemArtifact)
        /\ mArtifacts'[n] = [run |-> i, kind |-> kind, content |-> content]
        /\ DOMAIN mArtifacts' = DOMAIN mArtifacts \cup {n}
        /\ \A l \in DOMAIN mArtifacts : l # n => mArtifacts'[l] = mArtifacts[l]
        /\ Mem!OfKind(i, kind) \subseteq {n}
        /\ n \in DOMAIN mArtifacts => n \in Mem!OfKind(i, kind)
  <2> DEFINE a == [run |-> i, kind |-> kind, content |-> content]
  <2>1. a \in MemArtifact
    BY <1>1 DEF MemArtifact
  <2>2. CASE Mem!OfKind(i, kind) = {} /\ mArtifacts' = Append(mArtifacts, a)
    <3> HIDE DEF a
    <3>1. /\ mArtifacts' \in Seq(MemArtifact)
          /\ DOMAIN mArtifacts' = DOMAIN mArtifacts \cup {Len(mArtifacts) + 1}
          /\ Len(mArtifacts) + 1 \notin DOMAIN mArtifacts
          /\ mArtifacts'[Len(mArtifacts) + 1] = a
          /\ \A l \in DOMAIN mArtifacts : mArtifacts'[l] = mArtifacts[l]
      BY <1>1, <2>1, <2>2
    <3> QED BY <2>2, <3>1 DEF a
  <2>3. ASSUME NEW n \in Mem!OfKind(i, kind),
               mArtifacts' = Mem!Replaced(n, content)
        PROVE  /\ n \in DOMAIN mArtifacts'
               /\ mArtifacts' \in Seq(MemArtifact)
               /\ mArtifacts'[n] = a
               /\ DOMAIN mArtifacts' = DOMAIN mArtifacts
               /\ \A l \in DOMAIN mArtifacts : l # n => mArtifacts'[l] = mArtifacts[l]
               /\ Mem!OfKind(i, kind) \subseteq {n}
    <3>1. /\ n \in DOMAIN mArtifacts /\ mArtifacts[n] \in MemArtifact
          /\ mArtifacts[n].run = i /\ mArtifacts[n].kind = kind
      BY <1>1 DEF Mem!OfKind
    <3>2. mArtifacts' = [mArtifacts EXCEPT ![n].content = content]
      BY <2>3 DEF Mem!Replaced
    <3>3. [mArtifacts[n] EXCEPT !.content = content] = a
      BY <3>1 DEF MemArtifact
    <3> HIDE DEF a
    <3>4. mArtifacts' = [mArtifacts EXCEPT ![n] = a]
      BY <3>1, <3>2, <3>3
    <3>5. Mem!OfKind(i, kind) \subseteq {n}
      BY <3>1 DEF Mem!OfKind, ArtifactsInv
    <3> QED BY <1>1, <2>1, <3>1, <3>4, <3>5
  <2> QED
    BY <2>2, <2>3 DEF Mem!RecordArtifact, Mem!OfKind
<1>4. PICK n \in DOMAIN mArtifacts' :
        /\ mArtifacts' \in Seq(MemArtifact)
        /\ mArtifacts'[n] = [run |-> i, kind |-> kind, content |-> content]
        /\ DOMAIN mArtifacts' = DOMAIN mArtifacts \cup {n}
        /\ \A l \in DOMAIN mArtifacts : l # n => mArtifacts'[l] = mArtifacts[l]
        /\ Mem!OfKind(i, kind) \subseteq {n}
        /\ n \in DOMAIN mArtifacts => n \in Mem!OfKind(i, kind)
  BY <1>3
<1> DEFINE p == [run_id |-> r.id, kind |-> kind, content |-> content]
<1>5. /\ pArtifacts' = (pArtifacts \ Pg!OfKind(r.id, kind)) \cup {p}
      /\ p \in PgArtifact
  BY <1>1 DEF Pg!RecordArtifact, Pg!Replaced, PgArtifact
<1>6. ArtifactTypes'
  BY <1>1, <1>4, <1>5 DEF ArtifactTypes
<1>7. ASSUME NEW k, NEW s, Pair(k, s), NEW kind2 \in Kind
      PROVE  Mem!getArtifact(k, kind2)' = Pg!getArtifact(s.id, kind2)'
  <2>1. k = i <=> s.id = r.id
    BY <1>7, PairIds
  <2>2. CASE k = i /\ kind2 = kind
    <3>1. Mem!OfKind(k, kind2)' = {n}
      BY <1>4, <2>2 DEF Mem!OfKind
    <3>2. Mem!getArtifact(k, kind2)' = {content}
      BY <1>4, <3>1 DEF Mem!getArtifact
    <3>3. Pg!OfKind(s.id, kind2)' = {p}
      BY <1>5, <2>1, <2>2 DEF Pg!OfKind
    <3>4. Pg!getArtifact(s.id, kind2)' = {content}
      BY <3>3 DEF Pg!getArtifact
    <3> QED BY <3>2, <3>4
  <2>3. CASE ~(k = i /\ kind2 = kind)
    <3>1. /\ Mem!OfKind(k, kind2)' = Mem!OfKind(k, kind2)
          /\ \A l \in Mem!OfKind(k, kind2) : mArtifacts'[l] = mArtifacts[l]
      <4>1. n \notin Mem!OfKind(k, kind2)'
        BY <1>4, <2>3 DEF Mem!OfKind
      <4>2. n \notin Mem!OfKind(k, kind2)
        BY <1>4, <2>3 DEF Mem!OfKind
      <4> QED BY <1>4, <4>1, <4>2 DEF Mem!OfKind
    <3>2. Mem!getArtifact(k, kind2)' = Mem!getArtifact(k, kind2)
      BY <3>1 DEF Mem!getArtifact
    <3>3. Pg!OfKind(s.id, kind2)' = Pg!OfKind(s.id, kind2)
      BY <1>5, <2>1, <2>3 DEF Pg!OfKind
    <3>4. Pg!getArtifact(s.id, kind2)' = Pg!getArtifact(s.id, kind2)
      BY <3>3 DEF Pg!getArtifact
    <3>5. Mem!getArtifact(k, kind2) = Pg!getArtifact(s.id, kind2)
      BY <1>7 DEF ArtifactsInv, Pair
    <3> QED BY <3>2, <3>4, <3>5
  <2> QED BY <2>2, <2>3
<1>8. \A l \in DOMAIN mArtifacts' : mArtifacts'[l].run \in DOMAIN mRuns'
  BY <1>1, <1>4 DEF ArtifactsInv
<1>9. \A a \in pArtifacts' : a.run_id \in 1 .. pRunIds'
  BY <1>1, <1>5 DEF ArtifactsInv
<1>10. \A l, q \in DOMAIN mArtifacts' :
         mArtifacts'[l].run = mArtifacts'[q].run
           /\ mArtifacts'[l].kind = mArtifacts'[q].kind => l = q
  <2> SUFFICES ASSUME NEW l \in DOMAIN mArtifacts', NEW q \in DOMAIN mArtifacts',
                      mArtifacts'[l].run = mArtifacts'[q].run,
                      mArtifacts'[l].kind = mArtifacts'[q].kind
               PROVE  l = q
    OBVIOUS
  <2>1. ASSUME NEW t \in DOMAIN mArtifacts, mArtifacts[t].run = i,
               mArtifacts[t].kind = kind
        PROVE  t = n
    BY <1>4, <2>1 DEF Mem!OfKind
  <2>2. CASE l = n
    BY <1>4, <2>1, <2>2
  <2>3. CASE q = n
    BY <1>4, <2>1, <2>3
  <2>4. CASE l # n /\ q # n
    <3>1. l \in DOMAIN mArtifacts /\ q \in DOMAIN mArtifacts
      BY <1>4, <2>4
    <3> QED BY <1>4, <2>4, <3>1 DEF ArtifactsInv
  <2> QED BY <2>2, <2>3, <2>4
<1>11. \A k \in DOMAIN mRuns', s \in pRuns', k2 \in Kind :
         mRuns'[k].key = s.key =>
           Mem!getArtifact(k, k2)' = Pg!getArtifact(s.id, k2)'
  BY <1>7 DEF Pair
<1> QED BY <1>2, <1>6, <1>8, <1>9, <1>10, <1>11 DEF ArtifactsInv

(* Tasks.                                                                  *)
TaskTypes ==
  /\ mTasks \in Seq(MemTask) /\ pTasks \subseteq PgTask /\ pTaskIds \in Nat
  /\ refused \in BOOLEAN

(* The types, as far as tasks go.                                          *)
LEMMA TaskFacts ==
  ASSUME StoresTypeOK
  PROVE  /\ mTasks \in Seq(MemTask) /\ Len(mTasks) \in Nat
         /\ DOMAIN mTasks = 1 .. Len(mTasks) /\ IsFiniteSet(DOMAIN mTasks)
         /\ \A n \in DOMAIN mTasks : mTasks[n] \in MemTask /\ n \in Nat
         /\ pTasks \subseteq PgTask /\ pTaskIds \in Nat
         /\ Index \subseteq Nat
<1>1. /\ mTasks \in Seq(MemTask) /\ Len(mTasks) \in Nat
      /\ DOMAIN mTasks = 1 .. Len(mTasks)
      /\ \A n \in DOMAIN mTasks : mTasks[n] \in MemTask /\ n \in Nat
  BY DEF StoresTypeOK
<1>2. IsFiniteSet(1 .. Len(mTasks))
  BY <1>1, FS_Interval
<1> QED BY <1>1, <1>2, NumbersAssumption DEF StoresTypeOK

(* A patch sets the fields it names and no others, in both.                *)
LEMMA PatchedFields ==
  ASSUME NEW patch \in Patch
  PROVE  /\ \A u \in MemTask : LET v == Mem!Patched(u, patch) IN
              /\ v \in MemTask /\ v.run = u.run /\ v.idx = u.idx
              /\ \A f \in {"status", "red", "green", "sha"} :
                   v[f] = IF f \in DOMAIN patch THEN patch[f] ELSE u[f]
         /\ \A t \in PgTask :
              LET v == [f \in DOMAIN t |->
                          IF f \in DOMAIN patch THEN patch[f] ELSE t[f]] IN
              /\ v \in PgTask /\ v.id = t.id /\ v.run_id = t.run_id
              /\ v.idx = t.idx
              /\ \A f \in {"status", "red", "green", "sha"} :
                   v[f] = IF f \in DOMAIN patch THEN patch[f] ELSE t[f]
<1>1. DOMAIN patch \subseteq {"status", "red", "green", "sha"}
  BY PatchAssumption
<1>2. \A f \in DOMAIN patch : \A first : patch[f] \in Holds(f, first)
  BY DEF Holds
<1>3. ASSUME NEW u \in MemTask
      PROVE  LET v == Mem!Patched(u, patch) IN
              /\ v \in MemTask /\ v.run = u.run /\ v.idx = u.idx
              /\ \A f \in {"status", "red", "green", "sha"} :
                   v[f] = IF f \in DOMAIN patch THEN patch[f] ELSE u[f]
  <2> DEFINE v == Mem!Patched(u, patch)
  <2>1. DOMAIN u = {"run", "idx", "status", "red", "green", "sha"}
    BY DEF MemTask
  <2>2. /\ DOMAIN v = {"run", "idx", "status", "red", "green", "sha"}
        /\ \A f \in {"run", "idx", "status", "red", "green", "sha"} :
             v[f] = IF f \in DOMAIN patch THEN patch[f] ELSE u[f]
    BY <2>1 DEF Mem!Patched
  <2>3. v = [f \in {"run", "idx", "status", "red", "green", "sha"} |-> v[f]]
    BY <2>1, <2>2 DEF Mem!Patched
  <2> HIDE DEF v
  <2>4. v.run = u.run /\ v.idx = u.idx
    BY <1>1, <2>2
  <2>5. /\ v.status \in Holds("status", "pending")
        /\ v.red \in Holds("red", FALSE) /\ v.green \in Holds("green", FALSE)
        /\ v.sha \in Holds("sha", Null)
    BY <1>2, <2>2 DEF MemTask
  <2>6. v \in MemTask
    BY <2>2, <2>3, <2>4, <2>5 DEF MemTask
  <2> QED BY <2>2, <2>4, <2>6 DEF v
<1>4. ASSUME NEW t \in PgTask
      PROVE  LET v == [f \in DOMAIN t |->
                          IF f \in DOMAIN patch THEN patch[f] ELSE t[f]] IN
              /\ v \in PgTask /\ v.id = t.id /\ v.run_id = t.run_id
              /\ v.idx = t.idx
              /\ \A f \in {"status", "red", "green", "sha"} :
                   v[f] = IF f \in DOMAIN patch THEN patch[f] ELSE t[f]
  <2> DEFINE D == {"id", "run_id", "idx", "status", "red", "green", "sha"}
             v == [f \in DOMAIN t |->
                     IF f \in DOMAIN patch THEN patch[f] ELSE t[f]]
  <2>1. DOMAIN t = D
    BY DEF PgTask
  <2>2. /\ DOMAIN v = D
        /\ \A f \in D : v[f] = IF f \in DOMAIN patch THEN patch[f] ELSE t[f]
    BY <2>1
  <2>3. v = [f \in D |-> v[f]]
    BY <2>1, <2>2
  <2> HIDE DEF v
  <2>4. v.id = t.id /\ v.run_id = t.run_id /\ v.idx = t.idx
    BY <1>1, <2>2
  <2>5. /\ v.status \in Holds("status", "pending")
        /\ v.red \in Holds("red", FALSE) /\ v.green \in Holds("green", FALSE)
        /\ v.sha \in Holds("sha", Null)
    BY <1>2, <2>2 DEF PgTask
  <2>6. v \in PgTask
    BY <2>2, <2>3, <2>4, <2>5 DEF PgTask
  <2> QED BY <2>2, <2>4, <2>6 DEF v
<1> QED BY <1>3, <1>4

(* Both list the tasks of a run by their indices: the n-th of one is like  *)
(* the n-th of the other.                                                  *)
LEMMA TasksListed ==
  ASSUME StoresTypeOK, TasksNumbered, OneTaskPerIndex, NEW i, NEW r,
         TasksOfPair(i, r)
  PROVE  LET m == Mem!getTasks(i) p == Pg!getTasks(r.id) IN
         /\ DOMAIN m = DOMAIN p /\ Len(m) = Len(p)
         /\ \A n \in DOMAIN p :
              /\ m[n] \in DOMAIN mTasks /\ mTasks[m[n]].run = i
              /\ \E t \in pTasks : /\ t.id = p[n] /\ t.run_id = r.id
                                   /\ TaskAlike(mTasks[m[n]], t)
<1> DEFINE S == {n \in DOMAIN mTasks : mTasks[n].run = i}
           R == {t \in pTasks : t.run_id = r.id}
           mKey == [n \in S |-> mTasks[n].idx]
           pKey == [t \in R |-> t.idx]
           V == {mKey[n] : n \in S}
           W == {pKey[t] : t \in R}
           M == Cardinality(S)
           P == Cardinality(R)
<1>1. Keyed(S, mKey, V)
  <2>1. IsFiniteSet(S)
    BY TaskFacts, FS_Subset, S \in SUBSET DOMAIN mTasks
  <2>2. \A n \in S : mTasks[n].idx \in Int
    <3>1. \A n \in S : mTasks[n].idx \in Index
      BY TaskFacts DEF MemTask
    <3> QED BY <3>1, TaskFacts
  <2>3. \A x, y \in S : mKey[x] = mKey[y] => x = y
    BY DEF OneTaskPerIndex
  <2> QED BY <2>1, <2>2, <2>3 DEF Keyed
<1>2. Keyed(R, pKey, W)
  <2>1. IsFiniteSet(R)
    BY FS_Subset, R \in SUBSET pTasks DEF TasksNumbered
  <2>2. \A t \in R : t.idx \in Int
    <3>1. \A t \in R : t.idx \in Index
      BY TaskFacts DEF PgTask
    <3> QED BY <3>1, TaskFacts
  <2>3. \A x, y \in R : pKey[x] = pKey[y] => x = y
    BY DEF TasksNumbered
  <2> QED BY <2>1, <2>2, <2>3 DEF Keyed
<1>3. V = W
  <2>1. \A n \in S : \E t \in R : t.idx = mTasks[n].idx
    BY DEF TasksOfPair, TaskAlike
  <2>2. \A t \in R : \E n \in S : t.idx = mTasks[n].idx
    BY DEF TasksOfPair, TaskAlike
  <2>3. V = {mTasks[n].idx : n \in S} /\ W = {t.idx : t \in R}
    OBVIOUS
  <2> HIDE DEF S, R, V, W
  <2> QED BY <2>1, <2>2, <2>3
<1>4. /\ IsFiniteSet(V) /\ Cardinality(V) = M /\ V \subseteq Int
      /\ Cardinality(W) = P
  <2> HIDE DEF S, R, mKey, pKey, V, W
  <2> QED BY <1>1, <1>2, RankByKey
<1>5. M = P /\ M \in Nat
  <2>1. Cardinality(V) \in Nat
    <3> HIDE DEF V
    <3> QED BY <1>4, FS_CardinalityType
  <2> QED BY <1>3, <1>4, <2>1
<1> DEFINE mNth(n) == CHOOSE x \in S : Place(S, mKey, x) = n
           pNth(n) == CHOOSE x \in R : Place(R, pKey, x) = n
<1>6. Mem!getTasks(i) = [n \in 1 .. M |-> mNth(n)]
  <2>1. \A x \in S : {k \in S : Mem!InOrder(k, x)} = {y \in S : mKey[y] <= mKey[x]}
    <3> SUFFICES ASSUME NEW x \in S, NEW y \in S
                 PROVE  Mem!InOrder(y, x) <=> mKey[y] <= mKey[x]
      OBVIOUS
    <3>1. mKey[x] \in Int /\ mKey[y] \in Int /\ (mKey[x] = mKey[y] => x = y)
      BY <1>1 DEF Keyed
    <3>2. x \in Nat /\ mKey[x] = mTasks[x].idx /\ mKey[y] = mTasks[y].idx
      BY TaskFacts
    <3> QED BY <3>1, <3>2 DEF Mem!InOrder
  <2>2. \A x \in S : Mem!Cardinality({k \in S : Mem!InOrder(k, x)}) = Place(S, mKey, x)
    <3> HIDE DEF S, mKey
    <3> QED BY <2>1, SameCount DEF Place
  <2>3. Mem!Cardinality(S) = M
    BY SameCount
  <2>4. Mem!getTasks(i) =
          [n \in 1 .. Mem!Cardinality(S) |->
             CHOOSE x \in S : Mem!Cardinality({k \in S : Mem!InOrder(k, x)}) = n]
    BY DEF Mem!getTasks, Mem!TasksOf
  <2> HIDE DEF S, mKey, M
  <2>5. \A n : (CHOOSE x \in S : Mem!Cardinality({k \in S : Mem!InOrder(k, x)}) = n)
                 = mNth(n)
    BY <2>2
  <2> HIDE DEF mNth
  <2> QED BY <2>3, <2>4, <2>5
<1>7. Pg!getTasks(r.id) = [n \in 1 .. P |-> pNth(n).id]
  <2>1. \A x \in R : {y \in R : y.idx <= x.idx} = {y \in R : pKey[y] <= pKey[x]}
    OBVIOUS
  <2>2. \A x \in R : Pg!Cardinality({y \in R : y.idx <= x.idx}) = Place(R, pKey, x)
    <3> HIDE DEF R, pKey
    <3> QED BY <2>1, SameCount DEF Place
  <2>3. Pg!Cardinality(R) = P
    BY SameCount
  <2>4. Pg!getTasks(r.id) =
          [n \in 1 .. Pg!Cardinality(R) |->
             (CHOOSE x \in R : Pg!Cardinality({y \in R : y.idx <= x.idx}) = n).id]
    BY DEF Pg!getTasks
  <2> HIDE DEF R, pKey, P
  <2>5. \A n : (CHOOSE x \in R : Pg!Cardinality({y \in R : y.idx <= x.idx}) = n)
                 = pNth(n)
    BY <2>2
  <2> HIDE DEF pNth
  <2> QED BY <2>3, <2>4, <2>5
<1>8. ASSUME NEW n \in 1 .. M
      PROVE  /\ mNth(n) \in S /\ pNth(n) \in R
             /\ mTasks[mNth(n)].idx = pNth(n).idx
  <2>1. /\ mNth(n) \in S
        /\ mKey[mNth(n)] \in V /\ Rank(V, mKey[mNth(n)]) = n
    <3> HIDE DEF S, mKey, V
    <3>1. /\ \E x \in S : Place(S, mKey, x) = n
          /\ \A x \in S : Place(S, mKey, x) = n
                           => mKey[x] \in V /\ Rank(V, mKey[x]) = n
      BY <1>1, NthByKey
    <3> QED BY <3>1
  <2>2. /\ pNth(n) \in R
        /\ pKey[pNth(n)] \in W /\ Rank(W, pKey[pNth(n)]) = n
    <3>0. n \in 1 .. P
      BY <1>5
    <3> HIDE DEF R, pKey, W
    <3>1. /\ \E x \in R : Place(R, pKey, x) = n
          /\ \A x \in R : Place(R, pKey, x) = n
                           => pKey[x] \in W /\ Rank(W, pKey[x]) = n
      BY <1>2, <3>0, NthByKey
    <3> QED BY <3>1
  <2>3. \A v, w \in V : Rank(V, v) = Rank(V, w) => v = w
    <3> HIDE DEF V
    <3> QED BY <1>4, RanksDiffer
  <2> HIDE DEF mNth, pNth, V, W
  <2>4. mKey[mNth(n)] = pKey[pNth(n)]
    BY <1>3, <2>1, <2>2, <2>3
  <2> QED BY <2>1, <2>2, <2>4
<1>9. ASSUME NEW n \in 1 .. M
      PROVE  TaskAlike(mTasks[mNth(n)], pNth(n))
  <2> HIDE DEF mNth, pNth
  <2>1. PICK t \in pTasks : t.run_id = r.id /\ TaskAlike(mTasks[mNth(n)], t)
    BY <1>8 DEF TasksOfPair
  <2>2. t = pNth(n)
    BY <1>8, <2>1 DEF TasksNumbered, TaskAlike
  <2> QED BY <2>1, <2>2
<1> HIDE DEF mNth, pNth, M, P
<1>10. ASSUME NEW n \in 1 .. M
       PROVE  /\ mNth(n) \in DOMAIN mTasks /\ mTasks[mNth(n)].run = i
              /\ pNth(n) \in pTasks /\ pNth(n).run_id = r.id
              /\ TaskAlike(mTasks[mNth(n)], pNth(n))
  BY <1>8, <1>9
<1> HIDE DEF S, R
<1>11. /\ DOMAIN Mem!getTasks(i) = 1 .. M /\ DOMAIN Pg!getTasks(r.id) = 1 .. M
       /\ Len(Mem!getTasks(i)) = M /\ Len(Pg!getTasks(r.id)) = M
       /\ \A n \in 1 .. M : /\ Mem!getTasks(i)[n] = mNth(n)
                            /\ Pg!getTasks(r.id)[n] = pNth(n).id
  BY <1>5, <1>6, <1>7
<1> QED BY <1>10, <1>11

TasksKept == TaskTypes' /\ TasksInv' /\ AnswersMirrored'

(* A run that is new has no tasks in either store.                         *)
LEMMA TasksOfNewRun ==
  ASSUME StoresTypeOK, RunsInv, TasksInv, now' = now, RunsChange,
         UNCHANGED <<mTasks, pTasks, pTaskIds, refused>>
  PROVE  TaskTypes' /\ TasksInv'
<1>1. /\ DOMAIN mRuns \subseteq DOMAIN mRuns'
      /\ pRunIds' \in {pRunIds, pRunIds + 1} /\ pRunIds \in Nat
      /\ \A i, r : Pair(i, r)' =>
              \/ \E q : Pair(i, q) /\ q.id = r.id
              \/ i \notin DOMAIN mRuns /\ r.id = pRunIds + 1
  BY PairsKept
<1>2. TasksNumbered'
  <2>1. \A t \in pTasks' : t.id \in 1 .. pTaskIds' /\ t.run_id \in 1 .. pRunIds'
    BY <1>1 DEF TasksInv, TasksNumbered
  <2> QED BY <2>1 DEF TasksInv, TasksNumbered
<1>3. ASSUME TasksPaired PROVE TasksPaired'
  <2>1. ASSUME NEW i, NEW r, Pair(i, r)' PROVE TasksOfPair(i, r)'
    <3>1. ASSUME NEW q, Pair(i, q), q.id = r.id PROVE TasksOfPair(i, r)'
      BY <1>3, <3>1 DEF TasksPaired, Pair, TasksOfPair, TaskAlike
    <3>2. ASSUME i \notin DOMAIN mRuns, r.id = pRunIds + 1
          PROVE  TasksOfPair(i, r)'
      <4>1. \A t \in pTasks : t.run_id # r.id
        BY <1>1, <3>2 DEF TasksInv, TasksNumbered
      <4>2. \A n \in DOMAIN mTasks : mTasks[n].run # i
        BY <1>3, <3>2 DEF TasksPaired
      <4> QED BY <4>1, <4>2 DEF TasksOfPair
    <3> QED BY <1>1, <2>1, <3>1, <3>2
  <2>2. \A n \in DOMAIN mTasks' : mTasks'[n].run \in DOMAIN mRuns'
    BY <1>1, <1>3 DEF TasksPaired
  <2>3. OneTaskPerIndex'
    BY <1>3 DEF TasksPaired, OneTaskPerIndex
  <2> QED BY <2>1, <2>2, <2>3 DEF TasksPaired, Pair
<1>4. TaskTypes'
  BY DEF TaskTypes, StoresTypeOK
<1> QED BY <1>2, <1>3, <1>4 DEF TasksInv

(* A task with a new index is added to both; one whose index is taken      *)
(* Postgres refuses, and the pairing ends.                                 *)
LEMMA TaskRecorded ==
  ASSUME StoresTypeOK, RunsInv, TasksInv, UNCHANGED <<mRuns, pRuns, pRunIds>>,
         NEW i, NEW r, Pair(i, r), NEW n \in Index,
         Mem!RecordTask(i, n), Pg!RecordTask(r.id, n),
         refused' = (refused \/ (pTaskIds' # pTaskIds /\ pTasks' = pTasks))
  PROVE  TasksKept
<1> DEFINE a == Len(mTasks) + 1
           m == [run |-> i, idx |-> n, status |-> "pending",
                 red |-> FALSE, green |-> FALSE, sha |-> Null]
           p == [id |-> pTaskIds + 1, run_id |-> r.id, idx |-> n,
                 status |-> "pending", red |-> FALSE, green |-> FALSE,
                 sha |-> Null]
<1>1. /\ i \in DOMAIN mRuns /\ r \in pRuns /\ i \in Nat
      /\ r.id \in 1 .. pRunIds /\ r.id \in Nat
  BY DEF StoresTypeOK, Pair, RunsInv, RunsNumbered
<1>2. mTasks' = Append(mTasks, m) /\ mAnswer' = "recorded"
  BY DEF Mem!RecordTask, Mem!Ask
<1>3. pTaskIds' = pTaskIds + 1 /\ pTaskIds \in Nat /\ pTasks \subseteq PgTask
  BY DEF Pg!RecordTask, StoresTypeOK
<1>4. m \in MemTask /\ p \in PgTask
  BY <1>1, <1>3 DEF MemTask, PgTask, Holds
<1>5. /\ p.id = pTaskIds + 1 /\ p.run_id = r.id /\ p.idx = n
      /\ m.run = i /\ m.idx = n /\ TaskAlike(m, p)
  BY DEF TaskAlike
<1>6. \/ /\ \A t \in pTasks : t.run_id = r.id => t.idx # n
         /\ pTasks' = pTasks \cup {p} /\ pAnswer' = "recorded"
      \/ pTasks' = pTasks
  BY DEF Pg!RecordTask, Pg!Ask
<1> HIDE DEF m, p
<1>7. /\ mTasks' \in Seq(MemTask) /\ DOMAIN mTasks' = DOMAIN mTasks \cup {a}
      /\ a \notin DOMAIN mTasks /\ mTasks'[a] = m
      /\ \A k \in DOMAIN mTasks : mTasks'[k] = mTasks[k]
  BY <1>2, <1>4, TaskFacts
<1> HIDE DEF a
<1>8. TaskTypes'
  <2>1. pTasks' \subseteq PgTask /\ pTaskIds' \in Nat
    BY <1>3, <1>4, <1>6
  <2>2. refused' \in BOOLEAN
    BY DEF StoresTypeOK
  <2> QED BY <1>7, <2>1, <2>2 DEF TaskTypes
<1>9. CASE pTasks' = pTasks
  <2>1. refused'
    <3>1. pTaskIds' # pTaskIds
      BY <1>3
    <3> QED BY <1>9, <3>1
  <2>2. TasksNumbered'
    <3>1. \A t \in pTasks' : t.id \in 1 .. pTaskIds'
      BY <1>3, <1>9 DEF TasksInv, TasksNumbered
    <3> QED BY <1>9, <3>1 DEF TasksInv, TasksNumbered
  <2> QED BY <1>8, <2>1, <2>2 DEF TasksKept, TasksInv, AnswersMirrored
<1>10. CASE /\ \A t \in pTasks : t.run_id = r.id => t.idx # n
            /\ pTasks' = pTasks \cup {p} /\ pAnswer' = "recorded"
  <2>1. \A t \in pTasks : t.id # p.id
    BY <1>3, <1>5 DEF TasksInv, TasksNumbered
  <2>2. refused' = refused
    <3>1. pTasks' # pTasks
      BY <1>10, <2>1
    <3> QED BY <3>1 DEF StoresTypeOK
  <2>3. TasksNumbered'
    <3>1. IsFiniteSet(pTasks \cup {p})
      BY FS_AddElement DEF TasksInv, TasksNumbered
    <3>2. IsFiniteSet(pTasks')
      BY <1>10, <3>1, Zenon
    <3>3. \A t \in pTasks' : t.id \in 1 .. pTaskIds' /\ t.run_id \in 1 .. pRunIds'
      BY <1>1, <1>3, <1>5, <1>10 DEF TasksInv, TasksNumbered
    <3>4. \A t, u \in pTasks' : t.id = u.id => t = u
      BY <1>10, <2>1 DEF TasksInv, TasksNumbered
    <3>5. \A t, u \in pTasks' : t.run_id = u.run_id /\ t.idx = u.idx => t = u
      BY <1>5, <1>10 DEF TasksInv, TasksNumbered
    <3> QED BY <3>2, <3>3, <3>4, <3>5 DEF TasksNumbered
  <2>4. ASSUME TasksPaired PROVE TasksPaired'
    <3>1. \A k \in DOMAIN mTasks : mTasks[k].run = i => mTasks[k].idx # n
      <4>1. TasksOfPair(i, r)
        BY <2>4 DEF TasksPaired, Pair
      <4> QED BY <1>10, <4>1 DEF TasksOfPair, TaskAlike
    <3>2. OneTaskPerIndex'
      BY <1>5, <1>7, <2>4, <3>1 DEF TasksPaired, OneTaskPerIndex
    <3>3. \A k \in DOMAIN mTasks' : mTasks'[k].run \in DOMAIN mRuns'
      BY <1>1, <1>5, <1>7, <2>4 DEF TasksPaired
    <3>4. ASSUME NEW k, NEW s, Pair(k, s) PROVE TasksOfPair(k, s)'
      <4>1. k = i <=> s.id = r.id
        BY <3>4, PairIds
      <4>2. TasksOfPair(k, s)
        BY <2>4, <3>4 DEF TasksPaired, Pair
      <4>3. ASSUME NEW l \in DOMAIN mTasks', mTasks'[l].run = k
            PROVE  \E t \in pTasks' : t.run_id = s.id /\ TaskAlike(mTasks'[l], t)
        <5>1. CASE l = a
          BY <1>5, <1>7, <1>10, <4>1, <4>3, <5>1
        <5>2. CASE l \in DOMAIN mTasks
          BY <1>7, <1>10, <4>2, <4>3, <5>2 DEF TasksOfPair
        <5> QED BY <1>7, <5>1, <5>2
      <4>4. ASSUME NEW t \in pTasks', t.run_id = s.id
            PROVE  \E l \in DOMAIN mTasks' :
                     mTasks'[l].run = k /\ TaskAlike(mTasks'[l], t)
        <5>1. CASE t = p
          BY <1>5, <1>7, <4>1, <4>4, <5>1
        <5>2. CASE t \in pTasks
          <6>1. PICK l \in DOMAIN mTasks :
                  mTasks[l].run = k /\ TaskAlike(mTasks[l], t)
            BY <4>2, <4>4, <5>2 DEF TasksOfPair
          <6> QED BY <1>7, <6>1
        <5> QED BY <1>10, <5>1, <5>2
      <4> QED BY <4>3, <4>4 DEF TasksOfPair
    <3>5. \A k \in DOMAIN mRuns', s \in pRuns' :
            mRuns'[k].key = s.key => TasksOfPair(k, s)'
      BY <3>4 DEF Pair
    <3> QED BY <3>2, <3>3, <3>5 DEF TasksPaired
  <2> QED
    BY <1>2, <1>8, <1>10, <2>2, <2>3, <2>4
    DEF TasksKept, TasksInv, AnswersMirrored
<1> QED BY <1>6, <1>9, <1>10

(* The n-th task of the list is the same task in both, and is patched      *)
(* alike.                                                                  *)
LEMMA TaskUpdated ==
  ASSUME StoresTypeOK, RunsInv, TasksInv, UNCHANGED <<mRuns, pRuns, pRunIds>>,
         NEW i, NEW r, Pair(i, r), NEW patch \in Patch,
         NEW n \in DOMAIN Pg!getTasks(r.id),
         Mem!UpdateTask(Mem!getTasks(i)[n], patch),
         Pg!UpdateTask(Pg!getTasks(r.id)[n], patch),
         refused' = (refused \/ (pTaskIds' # pTaskIds /\ pTasks' = pTasks))
  PROVE  TasksKept
<1> DEFINE patched(t) ==
      [f \in DOMAIN t |-> IF f \in DOMAIN patch THEN patch[f] ELSE t[f]]
<1>1. PICK a : a = Mem!getTasks(i)[n]
  OBVIOUS
<1>2. mTasks' = [mTasks EXCEPT ![a] = Mem!Patched(mTasks[a], patch)] /\ mAnswer' = Null
  BY <1>1 DEF Mem!UpdateTask, Mem!Ask
<1>3. PICK t \in pTasks :
        /\ t.id = Pg!getTasks(r.id)[n]
        /\ pTasks' = (pTasks \ {t}) \cup {patched(t)}
  BY DEF Pg!UpdateTask, Pg!Set
<1>4. pTaskIds' = pTaskIds /\ pAnswer' = Null
  BY DEF Pg!UpdateTask, Pg!Ask
<1>5. refused' = refused
  BY <1>4 DEF StoresTypeOK
<1>6. \A u \in MemTask : LET v == Mem!Patched(u, patch) IN
              /\ v \in MemTask /\ v.run = u.run /\ v.idx = u.idx
              /\ \A f \in {"status", "red", "green", "sha"} :
                   v[f] = IF f \in DOMAIN patch THEN patch[f] ELSE u[f]
  BY PatchedFields
<1>7. PICK p : p = patched(t)
  OBVIOUS
<1>8. /\ t \in PgTask /\ p \in PgTask /\ p.id = t.id /\ p.run_id = t.run_id
      /\ p.idx = t.idx
      /\ \A f \in {"status", "red", "green", "sha"} :
           p[f] = IF f \in DOMAIN patch THEN patch[f] ELSE t[f]
  BY <1>7, TaskFacts, PatchedFields
<1>9. pTasks' = (pTasks \ {t}) \cup {p}
  BY <1>3, <1>7
<1> HIDE DEF patched
<1>10. /\ mTasks' \in Seq(MemTask) /\ DOMAIN mTasks' = DOMAIN mTasks
       /\ \A k \in DOMAIN mTasks : /\ k # a => mTasks'[k] = mTasks[k]
                                   /\ mTasks'[k].run = mTasks[k].run
                                   /\ mTasks'[k].idx = mTasks[k].idx
  <2>1. CASE a \in DOMAIN mTasks
    <3>1. PICK m \in MemTask : /\ m = Mem!Patched(mTasks[a], patch)
                               /\ m.run = mTasks[a].run /\ m.idx = mTasks[a].idx
      BY <1>6, <2>1, TaskFacts
    <3>2. mTasks' = [mTasks EXCEPT ![a] = m]
      BY <1>2, <3>1
    <3> QED BY <2>1, <3>1, <3>2, TaskFacts
  <2>2. CASE a \notin DOMAIN mTasks
    <3>1. mTasks' = mTasks
      BY <1>2, <2>2, TaskFacts
    <3> QED BY <2>2, <3>1, TaskFacts
  <2> QED BY <2>1, <2>2
<1>11. TaskTypes'
  BY <1>4, <1>5, <1>8, <1>9, <1>10 DEF TaskTypes, StoresTypeOK
<1>12. TasksNumbered'
  <2>1. IsFiniteSet(pTasks')
    <3>1. IsFiniteSet(pTasks \ {t})
      BY FS_Subset, pTasks \ {t} \in SUBSET pTasks DEF TasksInv, TasksNumbered
    <3>2. IsFiniteSet((pTasks \ {t}) \cup {p})
      BY <3>1, FS_AddElement
    <3> QED BY <1>9, <3>2, Zenon
  <2>2. \A u \in pTasks' : \E v \in pTasks :
          /\ u.id = v.id /\ u.run_id = v.run_id /\ u.idx = v.idx
          /\ v = t => u = p
          /\ v # t => u = v
    BY <1>8, <1>9
  <2>3. \A u \in pTasks' : u.id \in 1 .. pTaskIds' /\ u.run_id \in 1 .. pRunIds'
    BY <1>4, <2>2 DEF TasksInv, TasksNumbered
  <2>4. \A u, v \in pTasks' : u.id = v.id => u = v
    BY <2>2 DEF TasksInv, TasksNumbered
  <2>5. \A u, v \in pTasks' : u.run_id = v.run_id /\ u.idx = v.idx => u = v
    BY <2>2 DEF TasksInv, TasksNumbered
  <2> QED BY <2>1, <2>3, <2>4, <2>5 DEF TasksNumbered
<1>13. ASSUME TasksPaired PROVE TasksPaired'
  <2>1. TasksOfPair(i, r)
    BY <1>13 DEF TasksPaired, Pair
  <2>2. /\ a \in DOMAIN mTasks /\ mTasks[a].run = i
        /\ t.run_id = r.id /\ TaskAlike(mTasks[a], t)
    <3>1. /\ a \in DOMAIN mTasks /\ mTasks[a].run = i
          /\ \E u \in pTasks : /\ u.id = Pg!getTasks(r.id)[n] /\ u.run_id = r.id
                               /\ TaskAlike(mTasks[a], u)
      BY <1>1, <1>13, <2>1, TasksListed DEF TasksInv, TasksPaired
    <3>2. \A u \in pTasks : u.id = t.id => u = t
      BY DEF TasksInv, TasksNumbered
    <3> QED BY <1>3, <3>1, <3>2
  <2>3. TaskAlike(mTasks'[a], p)
    <3>1. mTasks'[a] = Mem!Patched(mTasks[a], patch) /\ mTasks[a] \in MemTask
      BY <1>2, <2>2, TaskFacts
    <3> HIDE DEF MemTask
    <3>2. /\ mTasks'[a].idx = mTasks[a].idx
          /\ \A f \in {"status", "red", "green", "sha"} :
                mTasks'[a][f] = IF f \in DOMAIN patch THEN patch[f] ELSE mTasks[a][f]
      BY <1>6, <3>1
    <3> QED BY <1>8, <2>2, <3>2 DEF TaskAlike
  <2>4. \A k \in DOMAIN mTasks : \A u \in pTasks :
          mTasks[k].run = i /\ u.run_id = r.id /\ mTasks[k].idx = u.idx =>
            (k = a <=> u = t)
    BY <1>13, <2>2 DEF TasksPaired, OneTaskPerIndex, TasksInv, TasksNumbered, TaskAlike
  <2>5. ASSUME NEW k, NEW s, Pair(k, s) PROVE TasksOfPair(k, s)'
    <3>1. k = i <=> s.id = r.id
      BY <2>5, PairIds
    <3>2. TasksOfPair(k, s)
      BY <1>13, <2>5 DEF TasksPaired, Pair
    <3>3. ASSUME NEW l \in DOMAIN mTasks', mTasks'[l].run = k
          PROVE  \E u \in pTasks' : u.run_id = s.id /\ TaskAlike(mTasks'[l], u)
      <4>1. CASE l = a
        BY <1>8, <1>9, <1>10, <2>2, <2>3, <3>1, <3>3, <4>1
      <4>2. CASE l # a
        <5>1. PICK u \in pTasks : u.run_id = s.id /\ TaskAlike(mTasks[l], u)
          BY <1>10, <3>2, <3>3 DEF TasksOfPair
        <5>2. u # t
          BY <1>10, <2>2, <2>4, <3>1, <3>3, <4>2, <5>1 DEF TaskAlike
        <5> QED BY <1>9, <1>10, <3>3, <4>2, <5>1, <5>2
      <4> QED BY <4>1, <4>2
    <3>4. ASSUME NEW u \in pTasks', u.run_id = s.id
          PROVE  \E l \in DOMAIN mTasks' :
                   mTasks'[l].run = k /\ TaskAlike(mTasks'[l], u)
      <4>1. CASE u = p
        BY <1>8, <1>10, <2>2, <2>3, <3>1, <3>4, <4>1
      <4>2. CASE u \in pTasks /\ u # t
        <5>1. PICK l \in DOMAIN mTasks :
                mTasks[l].run = k /\ TaskAlike(mTasks[l], u)
          BY <3>2, <3>4, <4>2 DEF TasksOfPair
        <5>2. l # a
          BY <2>2, <2>4, <3>1, <3>4, <4>2, <5>1 DEF TaskAlike
        <5> QED BY <1>10, <5>1, <5>2
      <4> QED BY <1>9, <4>1, <4>2
    <3> QED BY <3>3, <3>4 DEF TasksOfPair
  <2>6. OneTaskPerIndex'
    BY <1>10, <1>13 DEF TasksPaired, OneTaskPerIndex
  <2>7. \A k \in DOMAIN mTasks' : mTasks'[k].run \in DOMAIN mRuns'
    BY <1>10, <1>13 DEF TasksPaired
  <2>8. \A k \in DOMAIN mRuns', s \in pRuns' :
          mRuns'[k].key = s.key => TasksOfPair(k, s)'
    BY <2>5 DEF Pair
  <2> QED BY <2>6, <2>7, <2>8 DEF TasksPaired
<1> QED
  BY <1>2, <1>4, <1>5, <1>11, <1>12, <1>13
  DEF TasksKept, TasksInv, AnswersMirrored

(* What was spent stays the same in both.                                  *)
LEMMA SumsStep ==
  ASSUME StoresTypeOK, RunsInv, SumsInv, now' = now, RunsChange
  PROVE  SumsInv'
<1>1. PICK spent \in [RunKey -> Nat], total \in [SUBSET RunKey -> Nat] :
        Adds(total, spent, RunKey) /\ SpentAlike(spent)
  BY DEF SumsInv
<1>2. \A r \in pRuns : r.key \in RunKey /\ r.spent \in Nat
  BY DEF StoresTypeOK, PgRun
<1>3. CASE mRuns' = mRuns /\ pRuns' = pRuns
  <2>1. SpentAlike(spent)'
    BY <1>1, <1>3 DEF SpentAlike, Known
  <2> QED BY <1>1, <2>1 DEF SumsInv
<1>4. ASSUME NEW m \in MemRun, NEW p \in PgRun, Added(m, p)
      PROVE  SumsInv'
  <2>1. /\ pRuns' = pRuns \cup {p} /\ p.spent = 0
        /\ \A r \in pRuns : r.key # p.key
    BY <1>4 DEF Added
  <2>2. Known' = Known \cup {p.key} /\ p.key \notin Known
    BY <2>1 DEF Known
  <2>3. SpentAlike(spent)'
    BY <1>1, <2>1, <2>2 DEF SpentAlike
  <2> QED BY <1>1, <2>3 DEF SumsInv
<1>5. ASSUME NEW i \in DOMAIN mRuns, NEW r \in pRuns, NEW m \in MemRun,
             NEW p \in PgRun, Rewritten(i, r, m, p)
      PROVE  SumsInv'
  <2>1. /\ pRuns' = (pRuns \ {r}) \cup {p} /\ p.key = r.key
        /\ p.spent - r.spent \in Nat /\ p.spent \in Nat
    BY <1>5 DEF Rewritten, PgRun
  <2>2. PICK key \in RunKey : key = r.key
    BY <1>2
  <2>3. PICK c \in Nat : c = p.spent - r.spent
    BY <2>1
  <2>4. r.spent = spent[key] /\ key \in Known
    BY <1>1, <2>2 DEF SpentAlike, Known
  <2> DEFINE spent2 == [spent EXCEPT ![key] = spent[key] + c]
             total2 == [K \in SUBSET RunKey |->
                          IF key \in K THEN total[K] + c ELSE total[K]]
  <2>5. /\ spent2 \in [RunKey -> Nat] /\ total2 \in [SUBSET RunKey -> Nat]
        /\ spent2[key] = p.spent
        /\ \A k \in RunKey : k # key => spent2[k] = spent[k]
    <3>1. spent[key] \in Nat /\ spent[key] + c \in Nat
      OBVIOUS
    <3>2. spent[key] + c = p.spent
      BY <1>2, <2>1, <2>3, <2>4
    <3>3. spent2 \in [RunKey -> Nat] /\ spent2[key] = p.spent
      BY <3>1, <3>2
    <3>4. \A K \in SUBSET RunKey : total[K] \in Nat /\ total[K] + c \in Nat
      OBVIOUS
    <3> QED BY <3>3, <3>4
  <2>6. Adds(total2, spent2, RunKey)
    <3>1. total2[{}] = 0
      BY <1>1 DEF Adds
    <3>2. ASSUME NEW T \in SUBSET RunKey, NEW x \in RunKey \ T
          PROVE  total2[T \cup {x}] = total2[T] + spent2[x]
      <4>1. PICK U \in SUBSET RunKey : U = T \cup {x}
        OBVIOUS
      <4>2. /\ total[U] = total[T] + spent[x]
            /\ total[U] \in Nat /\ total[T] \in Nat /\ spent[x] \in Nat
        BY <1>1, <4>1 DEF Adds
      <4>3. spent2[x] = IF x = key THEN spent[x] + c ELSE spent[x]
        OBVIOUS
      <4>4. /\ total2[U] = IF key \in U THEN total[U] + c ELSE total[U]
            /\ total2[T] = IF key \in T THEN total[T] + c ELSE total[T]
        OBVIOUS
      <4>5. (key \in U <=> key \in T \/ x = key) /\ ~(key \in T /\ x = key)
        BY <4>1
      <4> HIDE DEF spent2, total2
      <4>6. total2[U] = total2[T] + spent2[x]
        BY <4>2, <4>3, <4>4, <4>5
      <4> QED BY <4>1, <4>6
    <3> HIDE DEF spent2, total2
    <3> QED BY <2>5, <3>1, <3>2 DEF Adds
  <2>7. Known' = Known
    BY <2>1 DEF Known
  <2> HIDE DEF spent2, total2
  <2>8. SpentAlike(spent2)'
    <3>1. ASSUME NEW k \in RunKey, k \notin Known PROVE spent2[k] = 0
      <4>1. k # key
        BY <2>4, <3>1
      <4> QED BY <1>1, <2>5, <3>1, <4>1 DEF SpentAlike
    <3>2. ASSUME NEW s \in pRuns' PROVE s.spent = spent2[s.key]
      <4>1. CASE s = p
        BY <2>1, <2>2, <2>5, <4>1
      <4>2. CASE s \in pRuns /\ s # r
        <5>1. s.key # key
          BY <2>2, <4>2 DEF RunsInv, RunsNumbered
        <5> QED BY <1>1, <1>2, <2>5, <4>2, <5>1 DEF SpentAlike
      <4> QED BY <2>1, <4>1, <4>2
    <3> QED BY <2>7, <3>1, <3>2 DEF SpentAlike
  <2> QED BY <2>5, <2>6, <2>8 DEF SumsInv
<1> QED BY <1>3, <1>4, <1>5 DEF RunsChange

(* There are as many rows of runs in one as in the other, and the averages *)
(* of what they cost are the same.                                         *)
LEMMA RunCounts ==
  ASSUME StoresTypeOK, RunsInv
  PROVE  /\ IsFiniteSet(pRuns) /\ IsFiniteSet(DOMAIN mRuns)
         /\ Len(mRuns) = Cardinality(pRuns) /\ Len(mRuns) \in Nat
<1> DEFINE D == DOMAIN mRuns
           row(i) == CHOOSE r \in pRuns : RunAlike(mRuns[i], r)
           f == [i \in D |-> row(i)]
<1>1. Len(mRuns) \in Nat /\ D = 1 .. Len(mRuns)
  BY DEF StoresTypeOK
<1>2. \A i \in D : row(i) \in pRuns /\ RunAlike(mRuns[i], row(i))
  BY DEF RunsInv, RunsPaired
<1> HIDE DEF row
<1>3. \A i, k \in D : row(i) = row(k) => i = k
  <2> SUFFICES ASSUME NEW i \in D, NEW k \in D, row(i) = row(k) PROVE i = k
    OBVIOUS
  <2>1. Pair(i, row(i)) /\ Pair(k, row(i))
    BY <1>2 DEF Pair, RunAlike
  <2> QED BY <2>1, PairIds
<1>4. \A r \in pRuns : \E i \in D : row(i) = r
  <2> SUFFICES ASSUME NEW r \in pRuns PROVE \E i \in D : row(i) = r
    OBVIOUS
  <2>1. PICK i \in D : RunAlike(mRuns[i], r)
    BY DEF RunsInv, RunsPaired
  <2>2. row(i) = r
    BY <1>2, <2>1 DEF RunAlike, RunsInv, RunsNumbered
  <2> QED BY <2>2
<1>5. f \in Bijection(D, pRuns)
  <2> HIDE DEF D
  <2> QED BY <1>2, <1>3, <1>4 DEF Bijection, Injection, Surjection, IsInjective
<1>6. IsFiniteSet(D) /\ Cardinality(D) = Len(mRuns)
  <2>1. \A n \in Nat : IsFiniteSet(1 .. n) /\ Cardinality(1 .. n) = n
    BY FS_Interval
  <2> QED BY <1>1, <2>1
<1> HIDE DEF f, D
<1>7. IsFiniteSet(pRuns) /\ Cardinality(pRuns) = Cardinality(D)
  BY <1>5, <1>6, FS_Bijection DEF ExistsBijection
<1> QED BY <1>1, <1>6, <1>7 DEF D

(* The metrics are the same.                                               *)
LEMMA CostsAlike ==
  ASSUME StoresTypeOK, RunsInv, SumsInv
  PROVE  Mem!getCostMetrics = Pg!getCostMetrics
<1>1. PICK spent \in [RunKey -> Nat], total \in [SUBSET RunKey -> Nat] :
        Adds(total, spent, RunKey) /\ SpentAlike(spent)
  BY DEF SumsInv
<1> DEFINE memKeys(I) == {mRuns[i].key : i \in I}
           pgKeys(T) == {r.key : r \in T}
           memShare == [i \in DOMAIN mRuns |-> mRuns[i].spent]
           pgShare == [r \in pRuns |-> r.spent]
           memSum == [I \in SUBSET DOMAIN mRuns |-> total[memKeys(I)]]
           pgSum == [T \in SUBSET pRuns |-> total[pgKeys(T)]]
<1>2. /\ \A r \in pRuns : /\ r.key \in RunKey /\ r.spent \in Nat
                          /\ r.spent = spent[r.key]
      /\ \A r, s \in pRuns : r.key = s.key => r = s
  BY <1>1 DEF StoresTypeOK, PgRun, SpentAlike, RunsInv, RunsNumbered
<1>3. /\ \A i \in DOMAIN mRuns : /\ mRuns[i].key \in RunKey
                                 /\ mRuns[i].spent = spent[mRuns[i].key]
      /\ \A i, k \in DOMAIN mRuns : mRuns[i].key = mRuns[k].key => i = k
  <2>1. \A i \in DOMAIN mRuns : \E r \in pRuns :
          /\ r.key = mRuns[i].key /\ r.spent = mRuns[i].spent /\ Pair(i, r)
    BY DEF RunsInv, RunsPaired, RunAlike, Pair
  <2>2. ASSUME NEW i \in DOMAIN mRuns, NEW k \in DOMAIN mRuns,
               mRuns[i].key = mRuns[k].key
        PROVE  i = k
    <3>1. PICK r \in pRuns : r.key = mRuns[i].key
      BY <2>1
    <3>2. Pair(i, r) /\ Pair(k, r)
      BY <2>2, <3>1 DEF Pair
    <3> QED BY <3>2, PairIds
  <2> QED BY <1>2, <2>1, <2>2
<1>4. Adds(memSum, memShare, DOMAIN mRuns)
  <2>1. ASSUME NEW I \in SUBSET DOMAIN mRuns, NEW x \in DOMAIN mRuns \ I
        PROVE  memSum[I \cup {x}] = memSum[I] + memShare[x]
    <3>1. PICK K \in SUBSET RunKey : K = memKeys(I)
      <4>1. memKeys(I) \in SUBSET RunKey
        BY <1>3
      <4> QED BY <4>1
    <3>2. PICK k \in RunKey : k = mRuns[x].key
      BY <1>3
    <3>3. k \notin K
      BY <1>3, <3>1, <3>2
    <3>4. memKeys(I \cup {x}) = K \cup {k}
      BY <3>1, <3>2
    <3>5. total[K \cup {k}] = total[K] + spent[k]
      BY <1>1, <3>3 DEF Adds
    <3>6. I \cup {x} \in SUBSET DOMAIN mRuns
      OBVIOUS
    <3>7. memSum[I \cup {x}] = total[memKeys(I \cup {x})] /\ memSum[I] = total[K]
      BY <3>1, <3>6
    <3>8. memShare[x] = spent[k]
      BY <1>3, <3>2
    <3> HIDE DEF memSum, memShare, memKeys
    <3>9. total[memKeys(I \cup {x})] = total[K \cup {k}]
      BY <3>4, Zenon
    <3> QED BY <3>5, <3>7, <3>8, <3>9
  <2>2. memShare \in [DOMAIN mRuns -> Nat]
    BY <1>3
  <2>3. memSum \in [SUBSET DOMAIN mRuns -> Nat]
    <3>1. \A I \in SUBSET DOMAIN mRuns : memKeys(I) \in SUBSET RunKey
      BY <1>3
    <3> HIDE DEF memKeys
    <3> QED BY <3>1
  <2>4. memSum[{}] = 0
    <3>1. memKeys({}) = {}
      OBVIOUS
    <3>2. memSum[{}] = total[memKeys({})]
      OBVIOUS
    <3> HIDE DEF memSum, memKeys
    <3>3. total[memKeys({})] = total[{}]
      BY <3>1, Zenon
    <3> QED BY <1>1, <3>2, <3>3 DEF Adds
  <2> HIDE DEF memSum, memShare
  <2> QED BY <2>1, <2>2, <2>3, <2>4 DEF Adds
<1>5. Adds(pgSum, pgShare, pRuns)
  <2>1. ASSUME NEW T \in SUBSET pRuns, NEW x \in pRuns \ T
        PROVE  pgSum[T \cup {x}] = pgSum[T] + pgShare[x]
    <3>1. PICK K \in SUBSET RunKey : K = pgKeys(T)
      <4>1. pgKeys(T) \in SUBSET RunKey
        BY <1>2
      <4> QED BY <4>1
    <3>2. PICK k \in RunKey : k = x.key
      BY <1>2
    <3>3. k \notin K
      BY <1>2, <3>1, <3>2
    <3>4. pgKeys(T \cup {x}) = K \cup {k}
      BY <3>1, <3>2
    <3>5. total[K \cup {k}] = total[K] + spent[k]
      BY <1>1, <3>3 DEF Adds
    <3>6. T \cup {x} \in SUBSET pRuns
      OBVIOUS
    <3>7. pgSum[T \cup {x}] = total[pgKeys(T \cup {x})] /\ pgSum[T] = total[K]
      BY <3>1, <3>6
    <3>8. pgShare[x] = spent[k]
      BY <1>2, <3>2
    <3> HIDE DEF pgSum, pgShare, pgKeys
    <3>9. total[pgKeys(T \cup {x})] = total[K \cup {k}]
      BY <3>4, Zenon
    <3> QED BY <3>5, <3>7, <3>8, <3>9
  <2>2. pgShare \in [pRuns -> Nat]
    BY <1>2
  <2>3. pgSum \in [SUBSET pRuns -> Nat]
    <3>1. \A T \in SUBSET pRuns : pgKeys(T) \in SUBSET RunKey
      BY <1>2
    <3> HIDE DEF pgKeys
    <3> QED BY <3>1
  <2>4. pgSum[{}] = 0
    <3>1. pgKeys({}) = {}
      OBVIOUS
    <3>2. pgSum[{}] = total[pgKeys({})]
      OBVIOUS
    <3> HIDE DEF pgSum, pgKeys
    <3>3. total[pgKeys({})] = total[{}]
      BY <3>1, Zenon
    <3> QED BY <1>1, <3>2, <3>3 DEF Adds
  <2> HIDE DEF pgSum, pgShare
  <2> QED BY <2>1, <2>2, <2>3, <2>4 DEF Adds
<1>6. memSum[DOMAIN mRuns] = pgSum[pRuns]
  <2>1. memKeys(DOMAIN mRuns) = pgKeys(pRuns)
    <3>1. /\ \A i \in DOMAIN mRuns : \E r \in pRuns : r.key = mRuns[i].key
          /\ \A r \in pRuns : \E i \in DOMAIN mRuns : r.key = mRuns[i].key
      BY DEF RunsInv, RunsPaired, RunAlike
    <3> QED BY <3>1
  <2>2. /\ memSum[DOMAIN mRuns] = total[memKeys(DOMAIN mRuns)]
        /\ pgSum[pRuns] = total[pgKeys(pRuns)]
    OBVIOUS
  <2> HIDE DEF memSum, pgSum, memKeys, pgKeys
  <2> QED BY <2>1, <2>2, Zenon
<1>7. /\ Mem!getCostMetrics.total = memSum[DOMAIN mRuns]
      /\ Pg!getCostMetrics.total = pgSum[pRuns]
  <2> HIDE DEF memSum, pgSum
  <2> QED BY <1>4, <1>5, RunCounts, TotalsAre
<1> HIDE DEF memSum, pgSum, memShare, pgShare
<1> DEFINE n == Len(mRuns)
           sum == Mem!getCostMetrics.total
<1>8. Mem!getCostMetrics =
        [runCount |-> n, total |-> sum,
         avgCost |-> IF n = 0 THEN 0 ELSE (2 * sum + n) \div (2 * n)]
  <2>1. mRuns = <<>> <=> n = 0
    BY DEF StoresTypeOK
  <2> QED BY <2>1 DEF Mem!getCostMetrics
<1>9. Pg!getCostMetrics =
        [runCount |-> n, total |-> sum,
         avgCost |-> IF n = 0 THEN 0 ELSE (2 * sum + n) \div (2 * n)]
  <2>1. Pg!getCostMetrics.total = sum
    BY <1>6, <1>7
  <2>2. Pg!Cardinality(pRuns) = n
    BY RunCounts, SameCount
  <2> HIDE DEF n, sum
  <2> QED BY <2>1, <2>2 DEF Pg!getCostMetrics
<1> QED BY <1>8, <1>9

CredentialTypes ==
  /\ mCredentials \in [Installation -> MemCredential \cup {Null}]
  /\ pCredentials \subseteq PgCredential
ClockTypes == now \in 1 .. MaxNow /\ group \in Group /\ calls \in 0 .. MaxCalls
RunTypes == mRuns \in Seq(MemRun) /\ pRuns \subseteq PgRun /\ pRunIds \in Nat

(* The types, table by table.                                              *)
LEMMA TypesTogether ==
  /\ StoresTypeOK <=> /\ ClockTypes /\ JobsTyped /\ RunTypes /\ TaskTypes
                      /\ ArtifactTypes /\ CredentialTypes
  /\ StoresTypeOK' <=> /\ ClockTypes' /\ JobsTyped' /\ RunTypes' /\ TaskTypes'
                       /\ ArtifactTypes' /\ CredentialTypes'
BY DEF StoresTypeOK, ClockTypes, JobsTyped, RunTypes, TaskTypes, ArtifactTypes,
   CredentialTypes, PgCredential

(* What is not asked about stays as it is.                                 *)
LEMMA QuietSums ==
  SumsInv /\ pRuns' = pRuns => SumsInv'
BY DEF SumsInv, SpentAlike, Known

(* Artifacts.                                                              *)
LEMMA QuietArtifacts ==
  ASSUME ArtifactTypes, ArtifactsInv,
         UNCHANGED <<mRuns, pRuns, pRunIds, mArtifacts, pArtifacts>>
  PROVE  ArtifactTypes' /\ ArtifactsInv'
<1>1. \A i, id, k : /\ Mem!getArtifact(i, k)' = Mem!getArtifact(i, k)
                    /\ Pg!getArtifact(id, k)' = Pg!getArtifact(id, k)
  BY DEF Mem!getArtifact, Pg!getArtifact, Mem!OfKind, Pg!OfKind
<1> QED BY <1>1 DEF ArtifactTypes, ArtifactsInv

(* Tasks.                                                                  *)
LEMMA QuietTasks ==
  ASSUME TaskTypes, TasksInv,
         UNCHANGED <<mRuns, pRuns, pRunIds, mTasks, pTasks, pTaskIds, refused>>
  PROVE  TaskTypes' /\ TasksInv'
<1>1. TasksNumbered <=> TasksNumbered'
  BY DEF TasksNumbered
<1>2. TasksPaired <=> TasksPaired'
  BY DEF TasksPaired, TasksOfPair, TaskAlike, OneTaskPerIndex
<1> QED BY <1>1, <1>2 DEF TaskTypes, TasksInv

(* Credentials.                                                            *)
LEMMA QuietCredentials ==
  ASSUME CredentialTypes, CredentialsAlike, UNCHANGED <<mCredentials, pCredentials>>
  PROVE  CredentialTypes' /\ CredentialsAlike'
BY DEF CredentialTypes, CredentialsAlike

(* Jobs: time may pass.                                                    *)
LEMMA QuietJobs ==
  ASSUME StoresTypeOK, JobsTyped, JobsInv, now' \in {now, now + 1},
         UNCHANGED <<mJobs, pJobs, held, retried>>
  PROVE  JobsTyped' /\ JobsInv'
<1>1. mHeld' = mHeld /\ pHeld' = pHeld
  BY DEF held
<1>2. JobsTyped'
  BY <1>1 DEF JobsTyped
<1>3. ASSUME JobsPaired PROVE JobsPaired'
  <2>1. \A j \in DOMAIN mJobs : mJobs[j].availableAt <= now'
    <3>1. \A j \in DOMAIN mJobs : mJobs[j].availableAt \in Nat /\ now \in Nat
      BY JobTypes DEF MemJob
    <3>2. \A j \in DOMAIN mJobs : mJobs[j].availableAt <= now
      BY <1>3 DEF JobsPaired, DueInOrder
    <3> QED BY <3>1, <3>2
  <2> QED BY <1>1, <1>3, <2>1 DEF JobsPaired, DueInOrder
<1> QED BY <1>2, <1>3 DEF JobsInv

(* Empty stores are alike.                                                 *)
LEMMA InitStores == StoresInit => StoresInv
<1> SUFFICES ASSUME StoresInit PROVE StoresInv
  OBVIOUS
<1>1. mRuns = <<>> /\ mTasks = <<>> /\ mArtifacts = <<>> /\ mJobs = <<>>
  BY DEF StoresInit
<1>2. /\ DOMAIN mRuns = {} /\ DOMAIN mTasks = {} /\ DOMAIN mArtifacts = {}
      /\ DOMAIN mJobs = {}
  BY <1>1
<1>3. /\ pRuns = {} /\ pTasks = {} /\ pArtifacts = {} /\ pJobs = {}
      /\ pCredentials = {} /\ mHeld = pHeld
      /\ mCredentials = [i \in Installation |-> Null]
  BY DEF StoresInit
<1>4. StoresTypeOK
  <2>1. now \in 1 .. MaxNow /\ calls \in 0 .. MaxCalls
    BY NumbersAssumption DEF StoresInit
  <2>2. /\ mJobs \in Seq(MemJob) /\ mRuns \in Seq(MemRun)
        /\ mTasks \in Seq(MemTask) /\ mArtifacts \in Seq(MemArtifact)
    BY <1>1
  <2> QED BY <1>3, <2>1, <2>2 DEF StoresInit, StoresTypeOK
<1>5. RunsInv
  BY <1>2, <1>3 DEF RunsInv, RunsNumbered, RunsPaired
<1>6. SumsInv
  <2> DEFINE spent == [k \in RunKey |-> 0]
             total == [K \in SUBSET RunKey |-> 0]
  <2>1. spent \in [RunKey -> Nat] /\ total \in [SUBSET RunKey -> Nat]
    OBVIOUS
  <2>2. Adds(total, spent, RunKey)
    <3>1. \A T \in SUBSET RunKey : \A x \in RunKey \ T :
            total[T \cup {x}] = total[T] + spent[x]
      OBVIOUS
    <3>2. total[{}] = 0
      OBVIOUS
    <3> HIDE DEF spent, total
    <3> QED BY <2>1, <3>1, <3>2 DEF Adds
  <2>3. SpentAlike(spent)
    BY <1>3 DEF SpentAlike
  <2> HIDE DEF spent, total
  <2> QED BY <2>1, <2>2, <2>3 DEF SumsInv
<1>7. ArtifactsInv
  BY <1>2, <1>3 DEF ArtifactsInv
<1>8. TasksInv
  BY <1>2, <1>3, FS_EmptySet DEF TasksInv, TasksNumbered, TasksPaired,
     OneTaskPerIndex
<1>9. JobsInv
  BY <1>2, <1>3, FS_EmptySet DEF JobsInv, JobsPaired, DueInOrder
<1>10. CredentialsAlike
  BY <1>3 DEF CredentialsAlike
<1>11. AnswersMirrored
  BY DEF StoresInit, AnswersMirrored
<1> QED
  BY <1>4, <1>5, <1>6, <1>7, <1>8, <1>9, <1>10, <1>11 DEF StoresInv

(* No step takes the stores apart.                                         *)
LEMMA StoresStep == StoresInv /\ [StoresNext]_storesVars => StoresInv'
<1> SUFFICES ASSUME StoresInv, [StoresNext]_storesVars PROVE StoresInv'
  OBVIOUS
<1>1. /\ StoresTypeOK /\ RunsInv /\ SumsInv /\ ArtifactsInv /\ TasksInv /\ JobsInv
      /\ CredentialsAlike /\ AnswersMirrored
  BY DEF StoresInv
<1>2. /\ ClockTypes /\ JobsTyped /\ RunTypes /\ TaskTypes
      /\ ArtifactTypes /\ CredentialTypes
  BY <1>1, TypesTogether
<1>3. RunTypes' /\ RunsInv'
  BY <1>1, RunsStep DEF RunTypes
<1> DEFINE Goal ==
      /\ ClockTypes' /\ JobsTyped' /\ TaskTypes' /\ ArtifactTypes'
      /\ CredentialTypes'
      /\ SumsInv' /\ ArtifactsInv' /\ TasksInv' /\ JobsInv'
      /\ CredentialsAlike' /\ AnswersMirrored'
<1> SUFFICES Goal
  BY <1>3, TypesTogether DEF StoresInv
<1>4. CASE AskAboutJobs
  <2>1. UNCHANGED <<now, mRuns, mTasks, mArtifacts, mCredentials,
                    pRuns, pTasks, pArtifacts, pCredentials, pRunIds, pTaskIds,
                    group, calls, refused>>
    BY <1>4, JobsLeaveRows
  <2>2. JobsTyped' /\ JobsInv' /\ AnswersMirrored'
    BY <1>1, <1>4, JobsStep DEF JobsKept
  <2>3. ClockTypes'
    BY <1>2, <2>1 DEF ClockTypes
  <2> QED
    BY <1>1, <1>2, <2>1, <2>2, <2>3, QuietSums, QuietArtifacts, QuietTasks,
       QuietCredentials
<1>5. ASSUME RowsQuiet PROVE JobsTyped' /\ JobsInv' /\ now' = now
  BY <1>1, <1>2, <1>5, QuietJobs DEF RowsQuiet
<1>6. ASSUME RowsQuiet, calls < MaxCalls, calls' = calls + 1, group' = group
      PROVE  ClockTypes'
  <2>1. calls + 1 \in 0 .. MaxCalls
    BY <1>2, <1>6, NumbersAssumption DEF ClockTypes
  <2> QED BY <1>2, <1>6, <2>1 DEF ClockTypes, RowsQuiet
<1>7. CASE /\ RowsQuiet /\ RunsChange /\ UNCHANGED Others /\ mAnswer' = pAnswer'
           /\ calls < MaxCalls /\ calls' = calls + 1
           /\ UNCHANGED <<group, refused>>
  <2>1. /\ UNCHANGED <<mTasks, mArtifacts, mCredentials, pTasks, pArtifacts>>
        /\ UNCHANGED <<pCredentials, pTaskIds, refused>> /\ now' = now
    BY <1>5, <1>7 DEF Others
  <2>2. SumsInv'
    BY <1>1, <1>7, <2>1, SumsStep
  <2>3. ArtifactTypes' /\ ArtifactsInv'
    BY <1>1, <1>7, <2>1, ArtifactsOfNewRun
  <2>4. TaskTypes' /\ TasksInv'
    BY <1>1, <1>7, <2>1, TasksOfNewRun
  <2>5. AnswersMirrored'
    BY <1>7 DEF AnswersMirrored
  <2> QED
    BY <1>1, <1>2, <1>5, <1>6, <1>7, <2>1, <2>2, <2>3, <2>4, <2>5,
       QuietCredentials
<1>8. ASSUME NEW key \in Known, RowsQuiet, AskAboutRecords(key),
             calls < MaxCalls, calls' = calls + 1, group' = group,
             refused' = (refused \/ (pTaskIds' # pTaskIds /\ pTasks' = pTasks))
      PROVE  Goal
  <2>1. UNCHANGED <<mJobs, mRuns, mCredentials, pJobs, pRuns, pCredentials,
                     pRunIds>>
    BY <1>8, RecordsLeaveRest
  <2>2. PICK i, r : Pair(i, r) /\ MemId(key) = i /\ PgId(key) = r.id
    BY <1>1, RunIds DEF Pair
  <2>3. /\ ClockTypes' /\ JobsTyped' /\ JobsInv' /\ SumsInv'
        /\ CredentialTypes' /\ CredentialsAlike'
    BY <1>1, <1>2, <1>5, <1>6, <1>8, <2>1, QuietSums, QuietCredentials
  <2>4. ASSUME NEW k \in Kind, NEW c \in Content,
               Mem!RecordArtifact(i, k, c), Pg!RecordArtifact(r.id, k, c)
        PROVE  Goal
    <3>1. ArtifactTypes' /\ ArtifactsInv' /\ mAnswer' = pAnswer'
      BY <1>1, <2>1, <2>2, <2>4, ArtifactRecorded
    <3>2. UNCHANGED <<mTasks, pTasks, pTaskIds>>
      BY <2>4 DEF Mem!RecordArtifact, Pg!RecordArtifact
    <3>3. refused' = refused
      BY <1>2, <1>8, <3>2 DEF TaskTypes
    <3>4. TaskTypes' /\ TasksInv'
      BY <1>1, <1>2, <2>1, <3>2, <3>3, QuietTasks
    <3>5. AnswersMirrored'
      BY <3>1 DEF AnswersMirrored
    <3> QED BY <2>3, <3>1, <3>4, <3>5
  <2>5. ASSUME TasksKept, UNCHANGED <<mArtifacts, pArtifacts>> PROVE Goal
    BY <1>1, <1>2, <2>1, <2>3, <2>5, QuietArtifacts DEF TasksKept
  <2>6. ASSUME NEW n \in Index, Mem!RecordTask(i, n), Pg!RecordTask(r.id, n)
        PROVE  Goal
    <3>1. TasksKept
      BY <1>1, <1>8, <2>1, <2>2, <2>6, TaskRecorded
    <3> QED BY <2>5, <2>6, <3>1 DEF Mem!RecordTask, Pg!RecordTask
  <2>7. ASSUME NEW n \in DOMAIN Pg!getTasks(r.id), NEW patch \in Patch,
               Mem!UpdateTask(Mem!getTasks(i)[n], patch),
               Pg!UpdateTask(Pg!getTasks(r.id)[n], patch)
        PROVE  Goal
    <3>1. TasksKept
      BY <1>1, <1>8, <2>1, <2>2, <2>7, TaskUpdated
    <3> QED BY <2>5, <2>7, <3>1 DEF Mem!UpdateTask, Pg!UpdateTask
  <2> HIDE DEF Goal
  <2> QED BY <1>8, <2>2, <2>4, <2>6, <2>7 DEF AskAboutRecords
<1>9. ASSUME NEW i \in Installation, RowsQuiet, AskAboutCredentials(i),
             calls < MaxCalls, calls' = calls + 1, UNCHANGED <<group, refused>>
      PROVE  Goal
  <2>1. UNCHANGED <<mJobs, mRuns, mTasks, mArtifacts, pJobs, pRuns, pTasks,
                     pArtifacts, pRunIds, pTaskIds>>
    BY <1>9, CredentialsLeaveRest
  <2>2. CredentialTypes' /\ CredentialsAlike' /\ mAnswer' = pAnswer'
    BY <1>1, <1>9, CredentialsStep DEF CredentialsKept, CredentialTypes
  <2>3. AnswersMirrored'
    BY <2>2 DEF AnswersMirrored
  <2> QED
    BY <1>1, <1>2, <1>5, <1>6, <1>9, <2>1, <2>2, <2>3, QuietSums,
       QuietArtifacts, QuietTasks
<1>10. ASSUME now' \in {now, now + 1}, now' \in 1 .. MaxNow,
              UNCHANGED <<group, calls, mem, pg, held, retried, refused>>
       PROVE  Goal
  <2>1. UNCHANGED <<mJobs, mRuns, mTasks, mArtifacts, mCredentials, mAnswer,
                    pJobs, pRuns, pTasks, pArtifacts, pCredentials, pRunIds,
                    pTaskIds, pAnswer>>
    BY <1>10 DEF mem, pg
  <2>2. ClockTypes'
    BY <1>2, <1>10 DEF ClockTypes
  <2>3. JobsTyped' /\ JobsInv'
    BY <1>1, <1>2, <1>10, <2>1, QuietJobs
  <2>4. AnswersMirrored'
    BY <1>1, <1>10, <2>1 DEF AnswersMirrored
  <2> QED
    BY <1>1, <1>2, <1>10, <2>1, <2>2, <2>3, <2>4, QuietSums, QuietArtifacts,
       QuietTasks, QuietCredentials
<1>11. CASE StoresTick
  <2>1. /\ now' \in {now, now + 1} /\ now' \in 1 .. MaxNow
        /\ UNCHANGED <<group, calls, mem, pg, held, retried, refused>>
    BY <1>2, <1>11, NumbersAssumption DEF StoresTick, ClockTypes
  <2> QED BY <1>10, <2>1
<1>12. CASE UNCHANGED storesVars
  <2>1. /\ now' \in {now, now + 1} /\ now' \in 1 .. MaxNow
        /\ UNCHANGED <<group, calls, mem, pg, held, retried, refused>>
    BY <1>2, <1>12 DEF storesVars, ClockTypes
  <2> QED BY <1>10, <2>1
<1> HIDE DEF Goal
<1> QED BY <1>1, <1>4, <1>7, <1>8, <1>9, <1>11, <1>12, StoresSteps

(* What the invariant says of the rows, table by table.                    *)
LEMMA RowsAlike == StoresInv => RowsMirrored
<1> SUFFICES ASSUME StoresInv PROVE RowsMirrored
  OBVIOUS
<1>1. /\ StoresTypeOK /\ RunsInv /\ SumsInv /\ ArtifactsInv /\ TasksInv /\ JobsInv
      /\ CredentialsAlike
  BY DEF StoresInv
<1>2. RunsAlike
  BY <1>1, RunCounts DEF RunsAlike, RunsInv, RunsPaired, RunAlike
<1>3. ArtifactsAlike
  <2> SUFFICES ASSUME NEW key \in Known, NEW k \in Kind
               PROVE  Mem!getArtifact(MemId(key), k) = Pg!getArtifact(PgId(key), k)
    BY DEF ArtifactsAlike
  <2>1. PICK i, r : Pair(i, r) /\ MemId(key) = i /\ PgId(key) = r.id
    BY <1>1, RunIds DEF Pair
  <2> QED BY <1>1, <2>1 DEF ArtifactsInv, Pair
<1>4. ASSUME TasksPaired PROVE TasksAlike
  <2> SUFFICES ASSUME NEW key \in Known
               PROVE  LET m == Mem!getTasks(MemId(key))
                          p == Pg!getTasks(PgId(key)) IN
                      /\ Len(m) = Len(p)
                      /\ \A n \in DOMAIN p :
                           LET t == Row(pTasks, p[n]) u == mTasks[m[n]]
                           IN <<t.idx, t.status, t.red, t.green, t.sha>> =
                              <<u.idx, u.status, u.red, u.green, u.sha>>
    BY DEF TasksAlike
  <2>1. PICK i, r : Pair(i, r) /\ MemId(key) = i /\ PgId(key) = r.id
    BY <1>1, RunIds DEF Pair
  <2>2. TasksNumbered /\ OneTaskPerIndex /\ TasksOfPair(i, r)
    BY <1>1, <1>4, <2>1 DEF TasksInv, TasksPaired, Pair
  <2> DEFINE m == Mem!getTasks(i)
             p == Pg!getTasks(r.id)
  <2>3. /\ Len(m) = Len(p)
        /\ \A n \in DOMAIN p : \E t \in pTasks :
             t.id = p[n] /\ TaskAlike(mTasks[m[n]], t)
    BY <1>1, <2>2, TasksListed
  <2> HIDE DEF m, p
  <2>4. ASSUME NEW n \in DOMAIN p
        PROVE  LET t == Row(pTasks, p[n]) u == mTasks[m[n]]
               IN <<t.idx, t.status, t.red, t.green, t.sha>> =
                  <<u.idx, u.status, u.red, u.green, u.sha>>
    <3>1. PICK t \in pTasks : t.id = p[n] /\ TaskAlike(mTasks[m[n]], t)
      BY <2>3
    <3>2. Row(pTasks, p[n]) = t
      BY <2>2, <3>1 DEF Row, TasksNumbered
    <3> QED BY <3>1, <3>2 DEF TaskAlike
  <2> QED BY <2>1, <2>3, <2>4 DEF m, p
<1>5. ASSUME JobsPaired PROVE JobsAlike
  <2>1. Cardinality(pJobs) = Len(mJobs)
    BY <1>1, <1>5, PairedCount
  <2>2. ASSUME NEW r \in pJobs
        PROVE  mJobs[r.id] =
                 [status |-> r.status, attempts |-> r.attempts,
                  availableAt |-> r.available_at, lockedAt |-> r.locked_at]
    <3>1. PICK j \in DOMAIN mJobs : r = PgJobOf(j, mJobs[j])
      BY <1>5 DEF JobsPaired
    <3>2. mJobs[j] \in MemJob
      BY <1>1, JobTypes
    <3> QED BY <3>1, <3>2 DEF PgJobOf, MemJob
  <2> QED BY <2>1, <2>2 DEF JobsAlike
<1> QED
  BY <1>1, <1>2, <1>3, <1>4, <1>5, CostsAlike
  DEF RowsMirrored, TasksInv, JobsInv

(* What one store lists as stale, and in which order.                      *)
MemStale(states, t) ==
  {i \in DOMAIN mRuns : mRuns[i].state \in states /\ mRuns[i].updatedAt < t}
PgStale(states, t) == {r \in pRuns : r.state \in states /\ r.updated_at < t}
MemIdOf(S) == [i \in S |-> mRuns[i].id]
PgIdOf(R) == [r \in R |-> r.id]
MemNth(S, n) == CHOOSE i \in S : Place(S, MemIdOf(S), i) = n
PgNth(R, n) == CHOOSE r \in R : Place(R, PgIdOf(R), r) = n

(* getStaleRuns of the array sorts the stale runs by their ids.            *)
LEMMA MemListsStale ==
  ASSUME StoresInv, NEW states, NEW t, NEW S, S = MemStale(states, t)
  PROVE  /\ \E V : Keyed(S, MemIdOf(S), V)
         /\ Mem!getStaleRuns(states, t) =
              [n \in 1 .. Cardinality(S) |-> mRuns[MemNth(S, n)].key]
<1>1. /\ S \in SUBSET DOMAIN mRuns
      /\ \A i \in S : mRuns[i].id = i /\ i \in Int
  BY DEF MemStale, StoresInv, RunsInv, RunsNumbered, StoresTypeOK
<1>2. Keyed(S, MemIdOf(S), {MemIdOf(S)[i] : i \in S})
  <2>1. IsFiniteSet(S)
    BY <1>1, RunCounts, FS_Subset DEF StoresInv
  <2> QED BY <1>1, <2>1 DEF Keyed, MemIdOf
<1>3. \A i \in S : {k \in S : ~(mRuns[i].id < mRuns[k].id)}
                     = {k \in S : MemIdOf(S)[k] <= MemIdOf(S)[i]}
  BY <1>1 DEF MemIdOf
<1>4. \A i \in S : Mem!Cardinality({k \in S : ~(mRuns[i].id < mRuns[k].id)})
                     = Place(S, MemIdOf(S), i)
  BY <1>3, SameCount DEF Place
<1>5. Mem!getStaleRuns(states, t) =
        [n \in 1 .. Mem!Cardinality(S) |->
           mRuns[CHOOSE i \in S :
                   Mem!Cardinality({k \in S : ~(mRuns[i].id < mRuns[k].id)}) = n].key]
  BY DEF Mem!getStaleRuns, MemStale
<1>6. \A n : (CHOOSE i \in S :
                Mem!Cardinality({k \in S : ~(mRuns[i].id < mRuns[k].id)}) = n)
               = MemNth(S, n)
  BY <1>4 DEF MemNth
<1>7. Mem!Cardinality(S) = Cardinality(S)
  BY SameCount
<1> QED BY <1>2, <1>5, <1>6, <1>7

(* And so does that of Postgres.                                           *)
LEMMA PgListsStale ==
  ASSUME StoresInv, NEW states, NEW t, NEW R, R = PgStale(states, t)
  PROVE  /\ \E V : Keyed(R, PgIdOf(R), V)
         /\ Pg!getStaleRuns(states, t) =
              [n \in 1 .. Cardinality(R) |-> PgNth(R, n).key]
<1>1. /\ R \in SUBSET pRuns
      /\ \A r \in R : r.id \in Int
      /\ \A r, s \in R : r.id = s.id => r = s
  <2>1. R \in SUBSET pRuns /\ pRuns \subseteq PgRun
    BY DEF PgStale, StoresInv, StoresTypeOK
  <2>2. ASSUME NEW r \in R, NEW s \in R, r.id = s.id PROVE r = s
    <3>1. r.key \in Known
      BY <2>1 DEF Known
    <3>2. PICK i \in DOMAIN mRuns : Pair(i, r)
      BY <2>1 DEF StoresInv, RunsInv, RunsPaired, RunAlike, Pair
    <3>3. PICK k \in DOMAIN mRuns : Pair(k, s)
      BY <2>1 DEF StoresInv, RunsInv, RunsPaired, RunAlike, Pair
    <3>4. i = k
      BY <2>2, <3>2, <3>3, PairIds DEF StoresInv
    <3> QED BY <2>1, <3>2, <3>3, <3>4 DEF Pair, StoresInv, RunsInv, RunsNumbered
  <2> QED BY <2>1, <2>2 DEF PgRun
<1>2. Keyed(R, PgIdOf(R), {PgIdOf(R)[r] : r \in R})
  <2>1. IsFiniteSet(R)
    BY <1>1, RunCounts, FS_Subset DEF StoresInv
  <2> QED BY <1>1, <2>1 DEF Keyed, PgIdOf
<1>3. \A r \in R : {s \in R : s.id <= r.id} = {s \in R : PgIdOf(R)[s] <= PgIdOf(R)[r]}
  BY DEF PgIdOf
<1>4. \A r \in R : Pg!Cardinality({s \in R : s.id <= r.id}) = Place(R, PgIdOf(R), r)
  BY <1>3, SameCount DEF Place
<1>5. Pg!getStaleRuns(states, t) =
        [n \in 1 .. Pg!Cardinality(R) |->
           (CHOOSE r \in R : Pg!Cardinality({s \in R : s.id <= r.id}) = n).key]
  BY DEF Pg!getStaleRuns, PgStale
<1>6. \A n : (CHOOSE r \in R : Pg!Cardinality({s \in R : s.id <= r.id}) = n)
               = PgNth(R, n)
  BY <1>4 DEF PgNth
<1>7. Pg!Cardinality(R) = Cardinality(R)
  BY SameCount
<1> QED BY <1>2, <1>5, <1>6, <1>7

(* Of two runs that one store lists, the one that it lists first has its   *)
(* partner listed first by the other: in both the order is that of ids.    *)
LEMMA StaleAlike ==
  ASSUME StoresInv
  PROVE  StaleRunsMirrored
<1> SUFFICES ASSUME NEW states \in SUBSET RunState, NEW t \in 1 .. now + 1
             PROVE  PartOf(Pg!getStaleRuns(states, t), Mem!getStaleRuns(states, t))
  BY DEF StaleRunsMirrored
<1> DEFINE S == MemStale(states, t)
           R == PgStale(states, t)
           partner(r) == CHOOSE i \in DOMAIN mRuns : RunAlike(mRuns[i], r)
           turn == [n \in 1 .. Cardinality(R) |->
                      Place(S, MemIdOf(S), partner(PgNth(R, n)))]
<1>1. /\ \E V : Keyed(S, MemIdOf(S), V)
      /\ Mem!getStaleRuns(states, t) =
           [n \in 1 .. Cardinality(S) |-> mRuns[MemNth(S, n)].key]
  BY MemListsStale
<1>2. /\ \E V : Keyed(R, PgIdOf(R), V)
      /\ Pg!getStaleRuns(states, t) =
           [n \in 1 .. Cardinality(R) |-> PgNth(R, n).key]
  BY PgListsStale
<1>3. ASSUME NEW r \in R
      PROVE  /\ partner(r) \in S /\ Pair(partner(r), r)
             /\ mRuns[partner(r)].key = r.key
  <2>1. /\ r \in pRuns /\ r \in PgRun /\ r.state \in states /\ r.updated_at < t
        /\ mRuns \in Seq(MemRun) /\ now \in Nat
    BY DEF PgStale, StoresInv, StoresTypeOK
  <2>2. \E i \in DOMAIN mRuns : RunAlike(mRuns[i], r)
    BY <2>1 DEF StoresInv, RunsInv, RunsPaired
  <2>3. partner(r) \in DOMAIN mRuns /\ RunAlike(mRuns[partner(r)], r)
    BY <2>2
  <2> HIDE DEF partner
  <2>4. mRuns[partner(r)] \in MemRun
    BY <2>1, <2>3
  <2>5. mRuns[partner(r)].updatedAt < t
    <3>1. /\ mRuns[partner(r)].updatedAt \in Nat /\ r.updated_at \in Nat
          /\ t \in Nat /\ mRuns[partner(r)].updatedAt <= r.updated_at
      BY <2>1, <2>3, <2>4 DEF MemRun, PgRun, RunAlike
    <3> QED BY <2>1, <3>1
  <2> QED BY <2>1, <2>3, <2>5 DEF MemStale, Pair, RunAlike
<1>4. ASSUME NEW r \in R, NEW q \in R, r.id < q.id
      PROVE  mRuns[partner(r)].id < mRuns[partner(q)].id
  <2>1. Pair(partner(r), r) /\ Pair(partner(q), q)
    BY <1>3
  <2> HIDE DEF partner
  <2>2. partner(r) < partner(q)
    BY <1>4, <2>1 DEF Pair, StoresInv, RunsInv, RunsPaired
  <2> QED BY <2>1, <2>2 DEF Pair, StoresInv, RunsInv, RunsNumbered
<1> HIDE DEF S, R, partner
<1>5. \A n \in 1 .. Cardinality(R) :
        PgNth(R, n) \in R /\ Place(R, PgIdOf(R), PgNth(R, n)) = n
  BY <1>2, Listed DEF PgNth
<1>6. \A i \in S : /\ Place(S, MemIdOf(S), i) \in 1 .. Cardinality(S)
                   /\ MemNth(S, Place(S, MemIdOf(S), i)) = i
  BY <1>1, Listed DEF MemNth
<1>7. ASSUME NEW n \in 1 .. Cardinality(R)
      PROVE  /\ turn[n] \in 1 .. Cardinality(S)
             /\ mRuns[MemNth(S, turn[n])].key = PgNth(R, n).key
  BY <1>3, <1>5, <1>6
<1>8. ASSUME NEW n \in 1 .. Cardinality(R), NEW k \in 1 .. Cardinality(R), k < n
      PROVE  turn[k] < turn[n]
  <2>1. /\ PgNth(R, k) \in R /\ PgNth(R, n) \in R
        /\ partner(PgNth(R, k)) \in S /\ partner(PgNth(R, n)) \in S
    BY <1>3, <1>5
  <2>2. \A r, q \in R : PgIdOf(R)[r] < PgIdOf(R)[q]
                          <=> Place(R, PgIdOf(R), r) < Place(R, PgIdOf(R), q)
    BY <1>2, Listed
  <2>3. PgNth(R, k).id < PgNth(R, n).id
    <3>1. PgIdOf(R)[PgNth(R, k)] < PgIdOf(R)[PgNth(R, n)]
      BY <1>5, <1>8, <2>1, <2>2
    <3> QED BY <2>1, <3>1 DEF PgIdOf
  <2>4. mRuns[partner(PgNth(R, k))].id < mRuns[partner(PgNth(R, n))].id
    BY <1>4, <2>1, <2>3
  <2>5. \A i, l \in S : MemIdOf(S)[i] < MemIdOf(S)[l]
                          <=> Place(S, MemIdOf(S), i) < Place(S, MemIdOf(S), l)
    BY <1>1, Listed
  <2>6. Place(S, MemIdOf(S), partner(PgNth(R, k)))
          < Place(S, MemIdOf(S), partner(PgNth(R, n)))
    BY <2>1, <2>4, <2>5 DEF MemIdOf
  <2> QED BY <2>6
<1> HIDE DEF turn
<1>9. turn \in [1 .. Cardinality(R) -> 1 .. Cardinality(S)]
  BY <1>7 DEF turn
<1>10. /\ DOMAIN Pg!getStaleRuns(states, t) = 1 .. Cardinality(R)
       /\ DOMAIN Mem!getStaleRuns(states, t) = 1 .. Cardinality(S)
       /\ \A n \in 1 .. Cardinality(R) :
            /\ Mem!getStaleRuns(states, t)[turn[n]] = Pg!getStaleRuns(states, t)[n]
            /\ \A k \in 1 .. Cardinality(R) : k < n => turn[k] < turn[n]
  BY <1>1, <1>2, <1>7, <1>8
<1> QED BY <1>9, <1>10 DEF PartOf

(* StoresInv holds throughout.                                             *)
LEMMA StoresAlways == StoresSpec => []StoresInv
BY InitStores, StoresStep, PTL DEF StoresSpec

(* Whatever calls reach the two stores, each of them keeps rows and jobs   *)
(* of the shapes its types declare (store/types.ts), a run's or a task's   *)
(* fields hold what was written to them, and a worker holds a job that is  *)
(* there (memory-store.ts:70-338, pg-store.ts:118-486).                    *)
THEOREM StoresTypeCorrect == StoresSpec => []StoresTypeOK
<1>1. StoresInv => StoresTypeOK
  BY DEF StoresInv
<1> QED BY <1>1, StoresAlways, PTL

(* "Mirrors the semantics of PgStore" (memory-store.ts:45): after any      *)
(* calls, in any number, the runs, artifacts, credentials, costs, tasks    *)
(* (until one is recorded twice) and jobs (until one is queued again) are  *)
(* the same in the store of the tests as in that of the program.           *)
THEOREM RowsMirroredAlways == StoresSpec => []RowsMirrored
BY RowsAlike, StoresAlways, PTL

(* And each call was answered alike: what a test was told is what the      *)
(* program would have been, with the same exceptions (memory-store.ts:45). *)
THEOREM AnswersMirroredAlways == StoresSpec => []AnswersMirrored
<1>1. StoresInv => AnswersMirrored
  BY DEF StoresInv
<1> QED BY <1>1, StoresAlways, PTL

(* The runs that the program's sweeper would be given are among those that *)
(* the sweeper of the tests is, in the same order, for any states and any  *)
(* deadline (getStaleRuns: memory-store.ts:188, pg-store.ts:255).          *)
THEOREM StaleRunsMirroredAlways == StoresSpec => []StaleRunsMirrored
BY StaleAlike, StoresAlways, PTL

=============================================================================
