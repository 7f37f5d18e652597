-------------------------- MODULE WebhookIntakeProofs --------------------------
(***************************************************************************)
(* What holds of the intake for any number of requests at a time, events,  *)
(* redeliveries, failing statements and gates: a delivery leads to at most *)
(* one job, and nothing but the job of a human's event moves a parked run. *)
(***************************************************************************)
EXTENDS WebhookIntake, SequenceTheorems, TLAPS

-----------------------------------------------------------------------------
(* Types.                                                                  *)
LEMMA Emitted ==
  ASSUME TypeOK, NEW event \in EventType, Emit(event)
  PROVE  /\ events' \in Seq(EventType) /\ Len(events') <= MaxEvents
         /\ Len(events') = Len(events) + 1 /\ DOMAIN events' = 1 .. Len(events')
         /\ DOMAIN events \subseteq DOMAIN events'
         /\ pending' = pending \cup {Len(events')}
         /\ pending' \subseteq DOMAIN events'
         /\ events'[Len(events')] = event
         /\ \A d \in DOMAIN events : events'[d] = events[d]
         /\ \A d \in DOMAIN events' : d \in DOMAIN events \/ d = Len(events')
<1>1. events \in Seq(EventType) /\ pending \subseteq DOMAIN events
  BY DEF TypeOK
<1>2. events' = Append(events, event) /\ Len(events) < MaxEvents
      /\ pending' = pending \cup {Len(events')} /\ MaxEvents \in Nat
  BY IntakeAssumption DEF Emit
<1> QED BY <1>1, <1>2, AppendProperties

LEMMA EventTyped ==
  ASSUME TypeOK, NEW kind \in Kind, NEW by \in {"human", "bot"}
  PROVE  Event(kind, by) \in EventType
<1>1. /\ visit \in Nat /\ (state \in Gates) \in BOOLEAN
      /\ (kind \in Comment /\ Place(kind) \in open) \in BOOLEAN
  BY DEF TypeOK
<1> QED BY <1>1 DEF Event, EventType

LEMMA EmittedTyped ==
  ASSUME TypeOK, NEW kind \in Kind, NEW by \in {"human", "bot"},
         Emit(Event(kind, by)), UNCHANGED <<processed, request>>
  PROVE  /\ events' \in Seq(EventType) /\ Len(events') <= MaxEvents
         /\ (pending \cup processed)' \subseteq DOMAIN events'
         /\ \A s \in Slot :
              request'[s].step # "none" => request'[s].id \in DOMAIN events'
         /\ [type : JobType, from : DOMAIN events]
              \subseteq [type : JobType, from : DOMAIN events']
<1>1. Event(kind, by) \in EventType
  BY EventTyped
<1> QED BY <1>1, Emitted DEF TypeOK

LEMMA Indices == TypeOK => DOMAIN events \subseteq Id
<1> SUFFICES ASSUME TypeOK PROVE DOMAIN events \subseteq Id
  OBVIOUS
<1>1. events \in Seq(EventType) /\ Len(events) <= MaxEvents
  BY DEF TypeOK
<1>2. Len(events) \in Nat /\ DOMAIN events = 1 .. Len(events)
  BY <1>1
<1> QED BY <1>1, <1>2, IntakeAssumption DEF Id

LEMMA InitTyped == Init => TypeOK
<1> SUFFICES ASSUME Init PROVE TypeOK
  OBVIOUS
<1>1. events \in Seq(EventType) /\ Len(events) <= MaxEvents
  BY IntakeAssumption DEF Init
<1>2. None \in Request
  BY DEF None, Request
<1> QED BY <1>1, <1>2 DEF Init, TypeOK, None

LEMMA RequestTyped ==
  ASSUME TypeOK, UNCHANGED <<events>>, NEW s \in Slot, NEW q \in Request,
         request' = [request EXCEPT ![s] = q],
         q.step # "none" => q.id \in DOMAIN events,
         q.step = "enqueue" => q.type \in JobType
  PROVE  /\ request' \in [Slot -> Request]
         /\ \A t \in Slot :
              /\ request'[t].step # "none" => request'[t].id \in DOMAIN events'
              /\ request'[t].step = "enqueue" => request'[t].type \in JobType
BY DEF TypeOK

LEMMA AnswerTyped ==
  ASSUME TypeOK, UNCHANGED <<events>>, NEW s \in Slot, Answer(s)
  PROVE  /\ request' \in [Slot -> Request]
         /\ \A t \in Slot :
              /\ request'[t].step # "none" => request'[t].id \in DOMAIN events'
              /\ request'[t].step = "enqueue" => request'[t].type \in JobType
<1>1. None \in Request /\ None.step = "none"
  BY DEF None, Request
<1> QED BY <1>1, RequestTyped DEF Answer

LEMMA StepTyped == TypeOK /\ [Next]_vars => TypeOK'
<1> SUFFICES ASSUME TypeOK, [Next]_vars PROVE TypeOK'
  OBVIOUS
<1>1. CASE IssueOpened \/ Uninstall \/ \E kind \in Comment : Say(kind)
  <2>1. \E kind \in Kind : Emit(Event(kind, "human"))
    BY <1>1 DEF IssueOpened, Uninstall, Say, Kind
  <2>2. UNCHANGED <<run, key, processed, request, jobs, queued, happened>>
    BY <1>1 DEF IssueOpened, Uninstall, Say
  <2> QED BY <2>1, <2>2, EmittedTyped DEF TypeOK, run
<1>2. CASE Redeliver
  <2>1. happened' \in [redeliveries : Nat, failures : Nat]
    BY <1>2 DEF Redeliver, TypeOK
  <2> QED BY <1>2, <2>1 DEF Redeliver, TypeOK, run
<1>3. ASSUME NEW s \in Slot, Receive(s)
      PROVE  TypeOK'
  <2>1. PICK d \in pending :
          /\ pending' = pending \ {d}
          /\ request' = IF Ignored(events[d]) THEN request
                        ELSE [request EXCEPT ![s].id = d, ![s].step = "mark"]
    BY <1>3 DEF Receive
  <2> DEFINE q == [request[s] EXCEPT !.id = d, !.step = "mark"]
  <2>2. d \in DOMAIN events /\ d \in Id
    BY <2>1, Indices DEF TypeOK
  <2>3. q \in Request /\ q.id = d /\ q.step = "mark"
    BY <2>2 DEF TypeOK, Request
  <2>4. request' = request \/ request' = [request EXCEPT ![s] = q]
    BY <2>1
  <2>5. /\ request' \in [Slot -> Request]
        /\ \A t \in Slot :
             /\ request'[t].step # "none" => request'[t].id \in DOMAIN events
             /\ request'[t].step = "enqueue" => request'[t].type \in JobType
    <3> HIDE DEF q
    <3> QED BY <2>2, <2>3, <2>4, RequestTyped, <1>3 DEF TypeOK, Receive
  <2> QED BY <1>3, <2>1, <2>5 DEF Receive, TypeOK, run
<1>4. ASSUME NEW s \in Slot, Mark(s)
      PROVE  TypeOK'
  <2> DEFINE d == request[s].id
             q == [request[s] EXCEPT
                     !.step = AfterMark(events[d].kind),
                     !.type = IF events[d].kind = "opened"
                              THEN "issue_opened" ELSE "none"]
  <2>1. request[s] \in Request /\ d \in DOMAIN events /\ d \in Id
    BY <1>4, Indices DEF Mark, TypeOK
  <2>2. /\ q \in Request /\ q.id = d
        /\ q.step = "enqueue" => q.type \in JobType
    BY <2>1 DEF Request, AfterMark, JobType
  <2>3. Answer(s) \/ request' = [request EXCEPT ![s] = q]
    BY <1>4 DEF Mark, Answer
  <2>4. /\ request' \in [Slot -> Request]
        /\ \A t \in Slot :
             /\ request'[t].step # "none" => request'[t].id \in DOMAIN events'
             /\ request'[t].step = "enqueue" => request'[t].type \in JobType
    <3> HIDE DEF q
    <3> QED BY <1>4, <2>1, <2>2, <2>3, RequestTyped, AnswerTyped DEF Mark
  <2> QED BY <1>4, <2>1, <2>4 DEF Mark, TypeOK, run
<1>5. ASSUME NEW s \in Slot, Read(s)
      PROVE  TypeOK'
  <2> DEFINE type == Route(events[request[s].id].kind)
             q == [request[s] EXCEPT !.step = "enqueue", !.type = type]
  <2>1. request[s] \in Request /\ request[s].id \in DOMAIN events
    BY <1>5 DEF Read, TypeOK
  <2>2. type = "none" \/ type \in JobType
    BY DEF Route, RouteWithoutHelp, JobType
  <2>3. type # "none" => q \in Request /\ q.id = request[s].id
                         /\ q.type \in JobType
    BY <2>1, <2>2 DEF Request
  <2>4. \/ Answer(s)
        \/ type # "none" /\ request' = [request EXCEPT ![s] = q]
    <3>1. request' = [request EXCEPT ![s] = IF type = "none" THEN None ELSE q]
      BY <1>5 DEF Read
    <3> HIDE DEF type, q
    <3> QED BY <3>1 DEF Answer
  <2>5. /\ request' \in [Slot -> Request]
        /\ \A t \in Slot :
             /\ request'[t].step # "none" => request'[t].id \in DOMAIN events'
             /\ request'[t].step = "enqueue" => request'[t].type \in JobType
    <3> HIDE DEF q, type
    <3> QED BY <1>5, <2>1, <2>3, <2>4, RequestTyped, AnswerTyped DEF Read
  <2> QED BY <1>5, <2>5 DEF Read, TypeOK, run
<1>6. ASSUME NEW s \in Slot, EnqueueJob(s)
      PROVE  TypeOK'
  <2>1. request[s].id \in DOMAIN events /\ request[s].type \in JobType
    BY <1>6 DEF EnqueueJob, TypeOK
  <2>2. jobs' \subseteq [type : JobType, from : DOMAIN events]
    BY <1>6, <2>1 DEF EnqueueJob, TypeOK
  <2>3. queued' \in [Id -> Nat]
    <3>1. request[s].id \in Id /\ queued[request[s].id] \in Nat
      BY <2>1, Indices DEF TypeOK
    <3> QED BY <1>6, <3>1 DEF EnqueueJob, TypeOK
  <2> QED BY <1>6, <2>2, <2>3, AnswerTyped DEF EnqueueJob, TypeOK, run
<1>7. ASSUME NEW s \in Slot, Purge(s)
      PROVE  TypeOK'
  BY <1>7, AnswerTyped DEF Purge, TypeOK, run
<1>8. ASSUME NEW s \in Slot, Fails(s)
      PROVE  TypeOK'
  <2>1. happened' \in [redeliveries : Nat, failures : Nat]
    BY <1>8 DEF Fails, TypeOK
  <2> QED BY <1>8, <2>1, AnswerTyped DEF Fails, TypeOK, run
<1>9. ASSUME NEW j \in jobs, TakeUp(j)
      PROVE  TypeOK'
  BY <1>9 DEF TakeUp, TypeOK, intake
<1>10. ASSUME NEW j \in jobs, FixInPlace(j)
       PROVE  TypeOK'
  <2>1. \E kind \in Kind : /\ Emit(Event(kind, "bot"))
                           /\ open' \in {open, open \cup {Place(kind)}}
    BY <1>10 DEF FixInPlace, Kind, Comment
  <2>2. open' \subseteq {"issue", "pull", "review"}
    BY <2>1 DEF TypeOK, Place
  <2> QED BY <1>10, <2>1, <2>2, EmittedTyped DEF FixInPlace, TypeOK
<1>11. ASSUME NEW gate \in Gates, Ask(gate)
       PROVE  TypeOK'
  <2>1. \E kind \in Kind : Emit(Event(kind, "bot"))
    BY <1>11 DEF Ask, Kind, Comment
  <2>2. open' \subseteq {"issue", "pull", "review"}
    BY <1>11 DEF Ask, PlaceOf
  <2> QED BY <1>11, <2>1, <2>2, EmittedTyped DEF Ask, TypeOK
<1>12. CASE Park
  BY <1>12 DEF Park, TypeOK, intake
<1>13. CASE UNCHANGED vars
  BY <1>13 DEF vars, TypeOK, run, intake
<1> QED
  BY <1>1, <1>2, <1>3, <1>4, <1>5, <1>6, <1>7, <1>8, <1>9, <1>10, <1>11,
     <1>12, <1>13 DEF Next, GitHub, App, Step, Work

(* Events, requests and jobs keep their types; a job and a request always  *)
(* name an event that has happened.                                        *)
THEOREM IntakeTypeCorrect == Spec => []TypeOK
BY InitTyped, StepTyped, PTL DEF Spec

-----------------------------------------------------------------------------
(* One job per delivery: who gets past the mark was the first to set it,   *)
(* and has the delivery to itself.                                         *)
PastMark(s) == request[s].step \in {"read", "purge", "enqueue"}
MarkInv ==
  /\ \A d \in Id : queued[d] <= 1 /\ (queued[d] > 0 => d \in processed)
  /\ \A s \in Slot : PastMark(s) =>
       /\ request[s].id \in processed /\ queued[request[s].id] = 0
       /\ \A t \in Slot : PastMark(t) /\ request[t].id = request[s].id => t = s

LEMMA StepMark == TypeOK /\ MarkInv /\ [Next]_vars => MarkInv'
<1> SUFFICES ASSUME TypeOK, MarkInv, [Next]_vars PROVE MarkInv'
  OBVIOUS
<1>0. /\ request \in [Slot -> Request] /\ queued \in [Id -> Nat]
      /\ \A s \in Slot : PastMark(s) => request[s].id \in Id
  BY Indices DEF TypeOK, PastMark
<1>1. ASSUME UNCHANGED <<queued, processed>>,
             \A s \in Slot : PastMark(s)' =>
               PastMark(s) /\ request'[s].id = request[s].id
      PROVE  MarkInv'
  BY <1>1 DEF MarkInv
<1>2. CASE \/ GitHub \/ Work \/ UNCHANGED vars
  <2>1. UNCHANGED <<queued, processed, request>>
    BY <1>2 DEF GitHub, Work, IssueOpened, Uninstall, Redeliver, Say, TakeUp,
       FixInPlace, Ask, Park, vars, intake
  <2> QED BY <1>1, <2>1 DEF PastMark
<1>3. ASSUME NEW s \in Slot, Receive(s)
      PROVE  MarkInv'
  <2>1. /\ UNCHANGED <<queued, processed>>
        /\ request'[s].step \in {"none", "mark"}
        /\ \A t \in Slot : t # s => request'[t] = request[t]
    BY <1>0, <1>3 DEF Receive, Request, None
  <2> QED BY <1>1, <2>1 DEF PastMark
<1>4. ASSUME NEW s \in Slot, Mark(s)
      PROVE  MarkInv'
  <2> DEFINE d == request[s].id
  <2>1. CASE d \in processed
    <3>1. /\ processed' = processed /\ queued' = queued
          /\ request' = [request EXCEPT ![s] = None]
      BY <1>4, <2>1 DEF Mark, Fresh
    <3>2. ~PastMark(s)' /\ \A t \in Slot : t # s => request'[t] = request[t]
      BY <1>0, <3>1 DEF PastMark, None
    <3> QED BY <1>1, <3>1, <3>2 DEF PastMark
  <2>2. CASE d \notin processed
    <3>1. /\ processed' = processed \cup {d} /\ queued' = queued
          /\ request'[s].id = d
          /\ \A t \in Slot : t # s => request'[t] = request[t]
      BY <1>0, <1>4, <2>2 DEF Mark, Fresh, Request
    <3>2. d \in Id
      BY <1>4, Indices DEF Mark, TypeOK
    <3>3. queued[d] = 0
      BY <1>0, <2>2, <3>2 DEF MarkInv
    <3>4. \A t \in Slot : t # s /\ PastMark(t) => request[t].id # d
      BY <2>2 DEF MarkInv
    <3>5. \A t \in Slot : t # s => (PastMark(t)' <=> PastMark(t))
      BY <3>1 DEF PastMark
    <3> QED BY <3>1, <3>3, <3>4, <3>5 DEF MarkInv
  <2> QED BY <2>1, <2>2
<1>5. ASSUME NEW s \in Slot, Read(s)
      PROVE  MarkInv'
  <2>1. /\ UNCHANGED <<queued, processed>> /\ PastMark(s)
        /\ request'[s] = None \/ request'[s].id = request[s].id
        /\ \A t \in Slot : t # s => request'[t] = request[t]
    BY <1>0, <1>5 DEF Read, Request, PastMark
  <2> QED BY <1>1, <2>1 DEF PastMark, None
<1>6. ASSUME NEW s \in Slot, EnqueueJob(s)
      PROVE  MarkInv'
  <2> DEFINE d == request[s].id
  <2>1. /\ PastMark(s) /\ d \in Id /\ processed' = processed
        /\ queued' = [queued EXCEPT ![d] = @ + 1] /\ ~PastMark(s)'
        /\ \A t \in Slot : t # s => request'[t] = request[t]
    BY <1>0, <1>6 DEF EnqueueJob, Answer, None, PastMark
  <2>2. d \in processed /\ queued[d] = 0
        /\ \A t \in Slot : t # s /\ PastMark(t) => request[t].id # d
    BY <2>1 DEF MarkInv
  <2>3. queued'[d] = 1 /\ \A i \in Id : i # d => queued'[i] = queued[i]
    BY <1>0, <2>1, <2>2
  <2>4. \A t \in Slot : PastMark(t)' =>
          /\ t # s /\ PastMark(t) /\ request'[t] = request[t]
          /\ request[t].id # d
    BY <2>1, <2>2 DEF PastMark
  <2>5. \A i \in Id : queued'[i] <= 1 /\ (queued'[i] > 0 => i \in processed')
    BY <2>1, <2>2, <2>3 DEF MarkInv
  <2>6. \A t \in Slot : PastMark(t)' =>
          request'[t].id \in processed' /\ queued'[request'[t].id] = 0
    BY <1>0, <2>1, <2>3, <2>4 DEF MarkInv
  <2>7. \A t \in Slot, u \in Slot :
          PastMark(t)' /\ PastMark(u)' /\ request'[u].id = request'[t].id =>
            u = t
    BY <2>4 DEF MarkInv
  <2> QED BY <2>5, <2>6, <2>7 DEF MarkInv
<1>7. ASSUME NEW s \in Slot, Purge(s) \/ Fails(s)
      PROVE  MarkInv'
  <2>1. /\ UNCHANGED <<queued, processed>> /\ request'[s] = None
        /\ \A t \in Slot : t # s => request'[t] = request[t]
    BY <1>0, <1>7 DEF Purge, Fails, Answer
  <2> QED BY <1>1, <2>1 DEF PastMark, None
<1> QED
  BY <1>2, <1>3, <1>4, <1>5, <1>6, <1>7 DEF Next, App, Step

(* However many copies of a delivery are handled at the same time, and     *)
(* wherever one of them fails, it leads to one job at most.                *)
THEOREM OneJobPerDeliveryAlways == Spec => []OneJobPerDelivery
<1>1. Init => MarkInv
  BY DEF Init, MarkInv, PastMark, None
<1>2. MarkInv => OneJobPerDelivery
  BY DEF MarkInv, OneJobPerDelivery
<1> QED BY <1>1, <1>2, InitTyped, StepTyped, StepMark, PTL DEF Spec

-----------------------------------------------------------------------------
(* What a bot writes is a comment, and is dropped before it becomes a      *)
(* request; so requests and jobs are about what a human did.  Only a       *)
(* handler parks the run, and only while it works on it.                   *)
ByHuman(d) == events[d].by = "human"
HumanInv ==
  /\ \A d \in DOMAIN events : ~ByHuman(d) => Ignored(events[d])
  /\ \A s \in Slot : request[s].step # "none" => ByHuman(request[s].id)
  /\ \A j \in jobs : ByHuman(j.from)
  /\ asking # "none" => state = "working"

LEMMA StepHuman == TypeOK /\ HumanInv /\ [Next]_vars => HumanInv'
<1> SUFFICES ASSUME TypeOK, HumanInv, [Next]_vars PROVE HumanInv'
  OBVIOUS
<1>0. /\ request \in [Slot -> Request]
      /\ \A s \in Slot : request[s].step # "none" =>
           request[s].id \in DOMAIN events
      /\ \A j \in jobs : j.from \in DOMAIN events
  BY DEF TypeOK
<1>1. ASSUME NEW kind \in Kind, NEW by \in {"human", "bot"},
             Emit(Event(kind, by)), by = "human" \/ kind \in Comment,
             UNCHANGED request, jobs' \subseteq jobs,
             asking' # "none" => state' = "working"
      PROVE  HumanInv'
  <2> DEFINE e == Event(kind, by)
  <2>1. e \in EventType /\ e.kind = kind /\ e.by = by
    BY EventTyped DEF Event
  <2> HIDE DEF e
  <2>2. /\ \A d \in DOMAIN events : d \in DOMAIN events' /\ events'[d] = events[d]
        /\ \A d \in DOMAIN events' : d \in DOMAIN events \/ events'[d] = e
    BY <1>1, <2>1, Emitted DEF e
  <2>3. by # "human" => Ignored(e)
    BY <1>1, <2>1 DEF Ignored
  <2>4. \A d \in DOMAIN events' : ~ByHuman(d)' => Ignored(events'[d])
    BY <2>1, <2>2, <2>3 DEF HumanInv, ByHuman
  <2> QED BY <1>0, <1>1, <2>2, <2>4 DEF HumanInv, ByHuman
<1>2. ASSUME UNCHANGED events, jobs' \subseteq jobs,
             asking' # "none" => state' = "working",
             \A s \in Slot : request'[s].step # "none" =>
               request[s].step # "none" /\ request'[s].id = request[s].id
      PROVE  HumanInv'
  BY <1>2 DEF HumanInv, ByHuman, Ignored
<1>3. CASE IssueOpened \/ Uninstall \/ \E kind \in Comment : Say(kind)
  <2>1. \E kind \in Kind : Emit(Event(kind, "human"))
    BY <1>3 DEF IssueOpened, Uninstall, Say, Kind
  <2>2. UNCHANGED <<run, request, jobs>>
    BY <1>3 DEF IssueOpened, Uninstall, Say
  <2> QED BY <1>1, <2>1, <2>2 DEF run, HumanInv
<1>4. CASE Redeliver
  BY <1>2, <1>4 DEF Redeliver, run, HumanInv
<1>5. ASSUME NEW s \in Slot, Receive(s)
      PROVE  HumanInv'
  <2>1. PICK d \in pending :
          request' = IF Ignored(events[d]) THEN request
                     ELSE [request EXCEPT ![s].id = d, ![s].step = "mark"]
    BY <1>5 DEF Receive
  <2>2. UNCHANGED <<run, events, jobs>> /\ d \in DOMAIN events
    BY <1>5 DEF Receive, TypeOK
  <2>3. CASE request' = request
    BY <1>2, <2>2, <2>3 DEF run, HumanInv
  <2>4. CASE ~Ignored(events[d])
    <3>1. /\ request'[s].id = d
          /\ \A t \in Slot : t # s => request'[t] = request[t]
      BY <1>0, <2>1, <2>4 DEF Request
    <3>2. ByHuman(d)
      BY <2>2, <2>4 DEF HumanInv
    <3> QED BY <2>2, <3>1, <3>2 DEF HumanInv, ByHuman, run
  <2> QED BY <2>1, <2>3, <2>4
<1>6. ASSUME NEW s \in Slot, Mark(s) \/ Read(s) \/ Purge(s) \/ Fails(s)
      PROVE  HumanInv'
  <2>1. UNCHANGED <<run, events, jobs>>
    BY <1>6 DEF Mark, Read, Purge, Fails
  <2>2. /\ \/ request'[s] = None
           \/ request[s].step # "none" /\ request'[s].id = request[s].id
        /\ \A t \in Slot : t # s => request'[t] = request[t]
    BY <1>0, <1>6 DEF Mark, Read, Purge, Fails, Answer, Request
  <2> QED BY <1>2, <2>1, <2>2 DEF run, HumanInv, None
<1>7. ASSUME NEW s \in Slot, EnqueueJob(s)
      PROVE  HumanInv'
  <2>1. /\ UNCHANGED <<run, events>> /\ ByHuman(request[s].id)
        /\ jobs' = jobs \cup
             {[type |-> request[s].type, from |-> request[s].id]}
        /\ request'[s] = None
        /\ \A t \in Slot : t # s => request'[t] = request[t]
    BY <1>0, <1>7 DEF EnqueueJob, Answer, HumanInv
  <2> QED BY <2>1 DEF HumanInv, ByHuman, run, None
<1>8. ASSUME NEW j \in jobs, TakeUp(j)
      PROVE  HumanInv'
  BY <1>2, <1>8 DEF TakeUp, HumanInv, intake
<1>9. ASSUME NEW j \in jobs, FixInPlace(j)
      PROVE  HumanInv'
  <2>1. \E kind \in Comment : Emit(Event(kind, "bot"))
    BY <1>9 DEF FixInPlace, Comment
  <2> QED BY <1>1, <1>9, <2>1 DEF FixInPlace, Kind, HumanInv
<1>10. ASSUME NEW gate \in Gates, Ask(gate)
       PROVE  HumanInv'
  <2>1. \E kind \in Comment : Emit(Event(kind, "bot"))
    BY <1>10 DEF Ask, Comment
  <2> QED BY <1>1, <1>10, <2>1 DEF Ask, Kind, HumanInv
<1>11. CASE Park
  BY <1>2, <1>11 DEF Park, intake
<1>12. CASE UNCHANGED vars
  BY <1>2, <1>12 DEF vars, run, intake, HumanInv
<1> QED
  BY <1>3, <1>4, <1>5, <1>6, <1>7, <1>8, <1>9, <1>10, <1>11, <1>12
  DEF Next, GitHub, App, Step, Work

LEMMA StepMovesOn ==
  TypeOK /\ HumanInv /\ [Next]_vars =>
    (state' # state /\ state \in Gates =>
       \E j \in jobs : j \notin jobs' /\ events[j.from].by = "human")
<1> SUFFICES ASSUME TypeOK, HumanInv, [Next]_vars, state' # state,
                    state \in Gates
             PROVE  \E j \in jobs : j \notin jobs' /\ events[j.from].by = "human"
  OBVIOUS
<1>1. CASE \E j \in jobs : TakeUp(j)
  BY <1>1 DEF TakeUp, HumanInv, ByHuman
<1>2. ~Park
  BY DEF Park, HumanInv, Gates
<1>3. CASE \/ GitHub \/ App \/ \E s \in Slot : Fails(s)
           \/ \E j \in jobs : FixInPlace(j)
           \/ \E gate \in Gates : Ask(gate)
           \/ UNCHANGED vars
  BY <1>3 DEF GitHub, App, Step, Fails, FixInPlace, Ask, vars, IssueOpened,
     Uninstall, Say, Redeliver, Receive, Mark, Read, EnqueueJob, Purge, run
<1> QED BY <1>1, <1>2, <1>3 DEF Next, Work

(* A parked run moves on only through the job of something a human did,    *)
(* never through the bot's own words.                                      *)
THEOREM OnlyHumansMoveOnAlways == Spec => OnlyHumansMoveOn
<1>1. Init => HumanInv
  BY DEF Init, HumanInv, None
<1> QED
  BY <1>1, InitTyped, StepTyped, StepHuman, StepMovesOn, PTL
  DEF Spec, OnlyHumansMoveOn
=============================================================================
