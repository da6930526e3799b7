-------------------------- MODULE WorkerTasksProofs --------------------------
(***************************************************************************)
(* What every step of the worker's task loop preserves.  The theorems of   *)
(* WorkerEstopProofs and TaskLifecycleProofs, which put the worker into    *)
(* two different environments, rest on the lemmas of this module.          *)
(*                                                                         *)
(* The invariant says where a task's result, its answers and its e-stop    *)
(* receiver stand at each step of execute_task: the result is unset up to  *)
(* the end of the turn and fixed after it, nothing is sent before it is    *)
(* known, and the receiver has seen nothing before the turn ends.  The     *)
(* tasks that hold a permit start as none and change one at a time, so     *)
(* they are finitely many without an assumption on Tasks.                  *)
(***************************************************************************)
EXTENDS WorkerTasks, FiniteSetTheorems, TLAPS

Held == {t \in Tasks : pc[t] \in Holding}
Before == {"new", "admitted", "starting", "launched", "turn", "ignored"}
Reported == {"reported", "signalled", "done", "rejected"}

Queued ==
    \A i \in DOMAIN inbox :
        /\ pc[inbox[i]] = "new"
        /\ \A j \in DOMAIN inbox : inbox[i] = inbox[j] => i = j

Phases ==
    \A t \in Tasks :
        /\ pc[t] \in Before => result[t] = NoResult /\ seen[t] = 0
        /\ pc[t] \notin Before => result[t] # NoResult
        /\ signal[t] # NoResult => pc[t] \in Reported
        /\ signal[t] \in {NoResult, "lost", result[t]}
        /\ pc[t] \in {"signalled", "done"} => signal[t] # NoResult

EventsTrue ==
    \A i \in DOMAIN events :
        events[i].status # "running" =>
            /\ events[i].status = result[events[i].task]
            /\ pc[events[i].task] \in Reported

Permits ==
    /\ IsFiniteSet(Held)
    /\ slots + Cardinality(Held) = MaxConcurrent

WorkerInv ==
    /\ WorkerTypeOK
    /\ rejecting # NoTask => pc[rejecting] = "rejected"
    /\ Queued
    /\ Phases
    /\ EventsTrue
    /\ Permits
    /\ CopperHasOwner

\* Everything the worker and its e-stop listener do
WorkerStep == MainLoop \/ (\E t \in Tasks : ExecuteTask(t)) \/ EstopMessage

\* The head of the queue is a new task, and the rest are other new tasks
LEMMA HeadIsNew ==
    ASSUME WorkerInv, inbox # <<>>
    PROVE  /\ Head(inbox) \in Tasks /\ pc[Head(inbox)] = "new"
           /\ Tail(inbox) \in Seq(Tasks)
           /\ \A i \in DOMAIN Tail(inbox) :
                /\ Tail(inbox)[i] # Head(inbox)
                /\ pc[Tail(inbox)[i]] = "new"
                /\ \A j \in DOMAIN Tail(inbox) :
                     Tail(inbox)[i] = Tail(inbox)[j] => i = j
<1>1. inbox \in Seq(Tasks) /\ Len(inbox) \in Nat /\ Len(inbox) > 0
  BY DEF WorkerInv, WorkerTypeOK
<1>2. Head(inbox) = inbox[1] /\ 1 \in DOMAIN inbox
  BY <1>1
<1>3. \A i \in DOMAIN Tail(inbox) :
        Tail(inbox)[i] = inbox[i + 1] /\ i + 1 \in DOMAIN inbox /\ i \in Nat /\ i # 0
  BY <1>1
<1>4. QED
  BY <1>1, <1>2, <1>3 DEF WorkerInv, Queued

\* An event of the queue with one more is the new one or an old one
LEMMA OldOrNew ==
    ASSUME NEW S, NEW q \in Seq(S), NEW e \in S
    PROVE  \A i \in DOMAIN Append(q, e) :
              Append(q, e)[i] = e \/ \E j \in DOMAIN q : Append(q, e)[i] = q[j]
  OBVIOUS

\* Receiving the head leaves new tasks in the queue
LEMMA TailQueued ==
    ASSUME WorkerInv, inbox # <<>>, NEW s, inbox' = Tail(inbox),
           pc' = [pc EXCEPT ![Head(inbox)] = s]
    PROVE  Queued'
<1> DEFINE q == Tail(inbox)
           h == Head(inbox)
<1>1. /\ q \in Seq(Tasks)
      /\ \A i \in DOMAIN q :
            /\ q[i] # h
            /\ pc[q[i]] = "new"
            /\ \A j \in DOMAIN q : q[i] = q[j] => i = j
  BY HeadIsNew
<1>2. \A i \in DOMAIN q : q[i] \in Tasks
  BY <1>1
<1>3. pc \in [Tasks -> Steps] /\ inbox' = q /\ pc' = [pc EXCEPT ![h] = s]
  BY DEF WorkerInv, WorkerTypeOK
<1> HIDE DEF q, h
<1>4. \A i \in DOMAIN q : pc'[q[i]] = pc[q[i]]
  BY <1>1, <1>2, <1>3
<1>5. QED
  BY <1>1, <1>3, <1>4 DEF Queued

\* An event is about a task
LEMMA EventOfTask ==
    ASSUME NEW S, events \in Seq([task : Tasks, status : S]), NEW j \in DOMAIN events
    PROVE  events[j].task \in Tasks /\ events[j].status \in S
<1>1. events[j] \in [task : Tasks, status : S]
  <2> DEFINE E == [task : Tasks, status : S]
  <2>1. events \in Seq(E)
    OBVIOUS
  <2> HIDE DEF E
  <2>2. events[j] \in E
    BY <2>1
  <2>3. QED
    BY <2>2 DEF E
<1>2. QED
  BY <1>1

\* The event of a rejection says what the task's result is
LEMMA RejectionTrue ==
    ASSUME WorkerInv, NEW h \in Tasks, pc[h] = "new",
           pc' = [pc EXCEPT ![h] = "rejected"],
           result' = [result EXCEPT ![h] = "failed"],
           events' = Append(events, Event(h, "failed"))
    PROVE  EventsTrue'
<1> DEFINE e == Event(h, "failed")
           E == [task : Tasks, status : Results \union {"running"}]
<1>1. e \in E /\ e.task = h /\ e.status = "failed"
  BY DEF Event, Results, Terminal
<1>2. events \in Seq(E)
  BY DEF WorkerInv, WorkerTypeOK
<1>3. \A i \in DOMAIN events' :
         events'[i] = e \/ \E j \in DOMAIN events : events'[i] = events[j]
  BY <1>1, <1>2, OldOrNew
<1>4. /\ pc'[h] = "rejected" /\ result'[h] = "failed"
      /\ \A t \in Tasks : t # h => pc'[t] = pc[t] /\ result'[t] = result[t]
  BY DEF WorkerInv, WorkerTypeOK
<1>5. ASSUME NEW j \in DOMAIN events, events[j].status # "running"
      PROVE  /\ events[j].status = result'[events[j].task]
             /\ pc'[events[j].task] \in Reported
  <2>1. events[j].task \in Tasks
    BY <1>2, EventOfTask, Zenon DEF WorkerInv, WorkerTypeOK
  <2>2. /\ events[j].status = result[events[j].task]
        /\ pc[events[j].task] \in Reported
    BY <1>5 DEF WorkerInv, EventsTrue
  <2>3. QED
    BY <1>4, <2>1, <2>2 DEF Reported
<1> HIDE DEF e, E
<1>6. QED
  BY <1>1, <1>3, <1>4, <1>5 DEF EventsTrue, Reported

\* Every step of the worker keeps the types
LEMMA WorkerTypeStep == WorkerInv /\ WorkerStep => WorkerTypeOK'
<1> SUFFICES ASSUME WorkerInv, WorkerStep
             PROVE  WorkerTypeOK'
  OBVIOUS
<1> DEFINE Goal == WorkerTypeOK'
<1> USE SlotsAssumption, EstopsAssumption, TasksAssumption DEF WorkerInv, WorkerTypeOK
<1>1. CASE ReceiveEstopped
  BY <1>1 DEF ReceiveEstopped, Steps, Results, Terminal
<1>2. CASE ReceiveSaturated
  BY <1>2 DEF ReceiveSaturated, Event, Steps, Results, Terminal
<1>3. CASE ReceiveAdmitted
  BY <1>3 DEF ReceiveAdmitted, Steps, Results, Terminal
<1>4. CASE SignalRejected
  BY <1>4, Zenon DEF SignalRejected, Deliver, Steps, Results, Terminal
<1>5. ASSUME NEW t \in Tasks, Refuse(t)
       PROVE  Goal
  BY <1>5 DEF Refuse, Event, Steps, Results, Terminal
<1>6. ASSUME NEW t \in Tasks, Prepare(t)
       PROVE  Goal
  BY <1>6 DEF Prepare, Steps, Results, Terminal
<1>7. ASSUME NEW t \in Tasks, Launch(t)
       PROVE  Goal
  BY <1>7 DEF Launch, Event, Steps, Results, Terminal
<1>8. ASSUME NEW t \in Tasks, FirstPoll(t)
       PROVE  Goal
  BY <1>8 DEF FirstPoll, Steps, Results, Terminal
<1>9. ASSUME NEW t \in Tasks, EstopTurn(t)
       PROVE  Goal
  BY <1>9 DEF EstopTurn, Changed, Steps, Results, Terminal
<1>10. ASSUME NEW t \in Tasks, TimeOut(t)
       PROVE  Goal
  BY <1>10 DEF TimeOut, Steps, Results, Terminal
<1>11. ASSUME NEW t \in Tasks, NEW r \in Results, AgentEnds(t, r)
       PROVE  Goal
  BY <1>11 DEF AgentEnds, Steps, Results, Terminal
<1>12. ASSUME NEW t \in Tasks, Report(t)
       PROVE  Goal
  <2>1. result[t] \in Results
    BY <1>12, Zenon DEF Report, Phases, Before
  <2>2. QED
    BY <1>12, <2>1 DEF Report, Event, Steps
<1>13. ASSUME NEW t \in Tasks, SignalResult(t)
       PROVE  Goal
  BY <1>13, Zenon DEF SignalResult, Deliver, Steps, Results, Terminal
<1>14. ASSUME NEW t \in Tasks, CleanUp(t)
       PROVE  Goal
  <2>1. slots + 1 \in 0 .. MaxConcurrent
    <3>1. t \in Held
      BY <1>14 DEF CleanUp, Held, Holding
    <3>2. Cardinality(Held) \in Nat \ {0}
      BY <3>1, FS_CardinalityType, FS_EmptySet DEF Permits
    <3>3. QED
      BY <3>2 DEF Permits
  <2>2. QED
    BY <1>14, <2>1 DEF CleanUp, Steps
<1>15. CASE EstopMessage
  BY <1>15, SMTT(30) DEF EstopMessage, Steps, Results, Terminal
<1>16. QED
  BY <1>1, <1>2, <1>3, <1>4, <1>5, <1>6, <1>7, <1>8, <1>9, <1>10, <1>11, <1>12, <1>13, <1>14, <1>15, Zenon
  DEF WorkerStep, MainLoop, ExecuteTask

\* What the invariant says beside the types and the permits
Rest ==
    /\ rejecting # NoTask => pc[rejecting] = "rejected"
    /\ Queued
    /\ Phases
    /\ EventsTrue
    /\ CopperHasOwner

\* Every step of the worker keeps results, answers and Copper loops in order
LEMMA WorkerRestStep == WorkerInv /\ WorkerTypeOK' /\ WorkerStep => Rest'
<1> SUFFICES ASSUME WorkerInv, WorkerTypeOK', WorkerStep
             PROVE  Rest'
  OBVIOUS
<1> DEFINE Goal == Rest'
<1> USE TasksAssumption
    DEF WorkerInv, WorkerTypeOK, Rest, Queued, Phases, EventsTrue, CopperHasOwner,
        Before, Reported, Holding, NoResult, Results, Terminal
<1>1. CASE ReceiveEstopped
  <2> DEFINE h == Head(inbox)
  <2>1. /\ UNCHANGED <<rejecting, copper, seen, result, events, signal>>
        /\ inbox' = Tail(inbox)
        /\ pc' = [pc EXCEPT ![h] = "ignored"]
    BY <1>1 DEF ReceiveEstopped
  <2>2. h \in Tasks /\ pc[h] = "new"
    BY <1>1, HeadIsNew DEF ReceiveEstopped
  <2>3. Queued'
    BY <1>1, <2>1, TailQueued, Zenon DEF ReceiveEstopped
  <2> HIDE DEF h
  <2>4. QED
    BY <2>1, <2>2, <2>3, SMTT(30)
<1>2. CASE ReceiveSaturated
  <2> DEFINE h == Head(inbox)
  <2>1. /\ UNCHANGED <<copper, seen, signal>>
        /\ inbox' = Tail(inbox)
        /\ rejecting' = h
        /\ pc' = [pc EXCEPT ![h] = "rejected"]
        /\ result' = [result EXCEPT ![h] = "failed"]
        /\ events' = Append(events, Event(h, "failed"))
    BY <1>2 DEF ReceiveSaturated
  <2>2. h \in Tasks /\ pc[h] = "new"
    BY <1>2, HeadIsNew DEF ReceiveSaturated
  <2>3. Queued'
    BY <1>2, <2>1, TailQueued, Zenon DEF ReceiveSaturated
  <2> HIDE DEF h
  <2>4. EventsTrue'
    BY <2>1, <2>2, RejectionTrue, Zenon
  <2>5. Phases' /\ CopperHasOwner'
    BY <2>1, <2>2, SMTT(30)
  <2>6. QED
    BY <2>1, <2>2, <2>3, <2>4, <2>5, SMTT(30)
<1>3. CASE ReceiveAdmitted
  <2> DEFINE h == Head(inbox)
  <2>1. /\ UNCHANGED <<rejecting, copper, seen, result, events, signal>>
        /\ inbox' = Tail(inbox)
        /\ pc' = [pc EXCEPT ![h] = "admitted"]
    BY <1>3 DEF ReceiveAdmitted
  <2>2. h \in Tasks /\ pc[h] = "new"
    BY <1>3, HeadIsNew DEF ReceiveAdmitted
  <2>3. Queued'
    BY <1>3, <2>1, TailQueued, Zenon DEF ReceiveAdmitted
  <2> HIDE DEF h
  <2>4. QED
    BY <2>1, <2>2, <2>3, SMTT(30)
<1>4. CASE SignalRejected
  BY <1>4 DEF SignalRejected, Deliver
<1>5. ASSUME NEW t \in Tasks, Refuse(t)
       PROVE  Goal
  BY <1>5, SMTT(30) DEF Refuse, Event
<1>6. ASSUME NEW t \in Tasks, Prepare(t)
       PROVE  Goal
  BY <1>6 DEF Prepare
<1>7. ASSUME NEW t \in Tasks, Launch(t)
       PROVE  Goal
  BY <1>7 DEF Launch, Event
<1>8. ASSUME NEW t \in Tasks, FirstPoll(t)
       PROVE  Goal
  BY <1>8 DEF FirstPoll
<1>9. ASSUME NEW t \in Tasks, EstopTurn(t)
       PROVE  Goal
  BY <1>9 DEF EstopTurn, Changed
<1>10. ASSUME NEW t \in Tasks, TimeOut(t)
       PROVE  Goal
  BY <1>10 DEF TimeOut
<1>11. ASSUME NEW t \in Tasks, NEW r \in Results, AgentEnds(t, r)
       PROVE  Goal
  BY <1>11 DEF AgentEnds
<1>12. ASSUME NEW t \in Tasks, Report(t)
       PROVE  Goal
  BY <1>12, SMTT(30) DEF Report, Event
<1>13. ASSUME NEW t \in Tasks, SignalResult(t)
       PROVE  Goal
  BY <1>13 DEF SignalResult, Deliver
<1>14. ASSUME NEW t \in Tasks, CleanUp(t)
       PROVE  Goal
  BY <1>14 DEF CleanUp
<1>15. CASE EstopMessage
  BY <1>15 DEF EstopMessage
<1>16. QED
  BY <1>1, <1>2, <1>3, <1>4, <1>5, <1>6, <1>7, <1>8, <1>9, <1>10, <1>11, <1>12, <1>13, <1>14, <1>15, Zenon
  DEF WorkerStep, MainLoop, ExecuteTask

\* The permits when one task changes its step
LEMMA PermitsSame ==
    ASSUME WorkerInv, NEW t \in Tasks, NEW s, pc' = [pc EXCEPT ![t] = s],
           pc[t] \in Holding <=> s \in Holding, slots' = slots
    PROVE  Permits'
<1>1. Held' = Held
  BY DEF Held, WorkerInv, WorkerTypeOK
<1>2. QED
  BY <1>1 DEF WorkerInv, Permits

\* execute_task starts: one permit less, one holder more
LEMMA PermitTaken ==
    ASSUME WorkerInv, NEW t \in Tasks, NEW s, pc' = [pc EXCEPT ![t] = s],
           pc[t] \notin Holding, s \in Holding, slots' = slots - 1
    PROVE  Permits'
<1>1. Held' = Held \union {t} /\ t \notin Held
  BY DEF Held, WorkerInv, WorkerTypeOK
<1>2. IsFiniteSet(Held') /\ Cardinality(Held') = Cardinality(Held) + 1
  BY <1>1, FS_AddElement DEF WorkerInv, Permits
<1>3. Cardinality(Held) \in Nat
  BY FS_CardinalityType DEF WorkerInv, Permits
<1>4. QED
  BY <1>2, <1>3, SlotsAssumption DEF WorkerInv, WorkerTypeOK, Permits

\* execute_task returns: one permit more, one holder less
LEMMA PermitReturned ==
    ASSUME WorkerInv, NEW t \in Tasks, NEW s, pc' = [pc EXCEPT ![t] = s],
           pc[t] \in Holding, s \notin Holding, slots' = slots + 1
    PROVE  Permits'
<1>1. Held' = Held \ {t} /\ t \in Held
  BY DEF Held, WorkerInv, WorkerTypeOK
<1>2. IsFiniteSet(Held') /\ Cardinality(Held') = Cardinality(Held) - 1
  BY <1>1, FS_RemoveElement DEF WorkerInv, Permits
<1>3. Cardinality(Held) \in Nat
  BY FS_CardinalityType DEF WorkerInv, Permits
<1>4. QED
  BY <1>2, <1>3, SlotsAssumption DEF WorkerInv, WorkerTypeOK, Permits

\* Every step of the worker conserves the permits
LEMMA PermitsStep == WorkerInv /\ WorkerStep => Permits'
<1> SUFFICES ASSUME WorkerInv, WorkerStep
             PROVE  Permits'
  OBVIOUS
<1> DEFINE Goal == Permits'
<1> USE DEF Holding
<1>1. CASE ReceiveEstopped
  BY <1>1, HeadIsNew, PermitsSame, Zenon DEF ReceiveEstopped
<1>2. CASE ReceiveSaturated
  BY <1>2, HeadIsNew, PermitsSame, Zenon DEF ReceiveSaturated
<1>3. CASE ReceiveAdmitted
  BY <1>3, HeadIsNew, PermitTaken, Zenon DEF ReceiveAdmitted
<1>4. CASE SignalRejected
  BY <1>4 DEF SignalRejected, WorkerInv, Permits, Held
<1>5. ASSUME NEW t \in Tasks, Refuse(t)
       PROVE  Goal
  BY <1>5, PermitsSame, Zenon DEF Refuse
<1>6. ASSUME NEW t \in Tasks, Prepare(t)
       PROVE  Goal
  BY <1>6, PermitsSame, Zenon DEF Prepare
<1>7. ASSUME NEW t \in Tasks, Launch(t)
       PROVE  Goal
  BY <1>7, PermitsSame, Zenon DEF Launch
<1>8. ASSUME NEW t \in Tasks, FirstPoll(t)
       PROVE  Goal
  BY <1>8, PermitsSame, Zenon DEF FirstPoll
<1>9. ASSUME NEW t \in Tasks, EstopTurn(t)
       PROVE  Goal
  BY <1>9, PermitsSame, Zenon DEF EstopTurn
<1>10. ASSUME NEW t \in Tasks, TimeOut(t)
       PROVE  Goal
  BY <1>10, PermitsSame, Zenon DEF TimeOut
<1>11. ASSUME NEW t \in Tasks, NEW r \in Results, AgentEnds(t, r)
       PROVE  Goal
  BY <1>11, PermitsSame, Zenon DEF AgentEnds
<1>12. ASSUME NEW t \in Tasks, Report(t)
       PROVE  Goal
  BY <1>12, PermitsSame, Zenon DEF Report
<1>13. ASSUME NEW t \in Tasks, SignalResult(t)
       PROVE  Goal
  BY <1>13, PermitsSame, Zenon DEF SignalResult
<1>14. ASSUME NEW t \in Tasks, CleanUp(t)
       PROVE  Goal
  BY <1>14, PermitReturned, Zenon DEF CleanUp
<1>15. CASE EstopMessage
  BY <1>15 DEF EstopMessage, WorkerInv, Permits, Held
<1>16. QED
  BY <1>1, <1>2, <1>3, <1>4, <1>5, <1>6, <1>7, <1>8, <1>9, <1>10, <1>11, <1>12, <1>13, <1>14, <1>15
  DEF WorkerStep, MainLoop, ExecuteTask

\* The invariant of the worker is inductive
LEMMA WorkerInvStep == WorkerInv /\ WorkerStep => WorkerInv'
  BY WorkerTypeStep, WorkerRestStep, PermitsStep DEF WorkerInv, Rest

\* It holds when the worker starts
LEMMA WorkerInvInit == WorkerInit => WorkerInv
<1> SUFFICES ASSUME WorkerInit
             PROVE  WorkerInv
  OBVIOUS
<1>1. WorkerTypeOK
  BY SlotsAssumption, EstopsAssumption DEF WorkerInit, WorkerTypeOK, Steps
<1>2. Held = {}
  BY DEF WorkerInit, Held, Holding
<1>3. Permits
  BY <1>2, FS_EmptySet, SlotsAssumption, SMTT(30) DEF WorkerInit, Permits
<1>4. QED
  BY <1>1, <1>3
  DEF WorkerInit, WorkerInv, Queued, Phases, EventsTrue, CopperHasOwner, Before,
      Reported

\* A step that leaves the worker's variables alone keeps its invariant
LEMMA WorkerInvStutter == WorkerInv /\ UNCHANGED workerVars => WorkerInv'
  BY DEF workerVars, WorkerInv, WorkerTypeOK, Queued, Phases, EventsTrue, Permits,
         Held, CopperHasOwner

\* So does a new invocation of a task the worker has not seen
LEMMA WorkerInvInvoke ==
    ASSUME WorkerInv, NEW t \in Tasks, pc[t] = "new",
           \A i \in DOMAIN inbox : inbox[i] # t,
           inbox' = Append(inbox, t),
           UNCHANGED <<rejecting, pc, slots, copper, version, seen, result, events, signal>>
    PROVE  WorkerInv'
<1>1. WorkerTypeOK'
  BY DEF WorkerInv, WorkerTypeOK
<1>2. Queued'
  BY SMTT(30) DEF WorkerInv, WorkerTypeOK, Queued
<1>3. Phases' /\ EventsTrue' /\ CopperHasOwner'
  BY DEF WorkerInv, Phases, EventsTrue, CopperHasOwner
<1>4. Permits'
  BY DEF WorkerInv, Permits, Held
<1>5. QED
  BY <1>1, <1>2, <1>3, <1>4 DEF WorkerInv

\* The invariant says what PermitsConserved, CopperHasOwner and AnswersAgree
\* say of the permits, the Copper loops and the answers of a task
LEMMA WorkerInvGives == WorkerInv => PermitsConserved /\ CopperHasOwner /\ AnswersAgree
<1> SUFFICES ASSUME WorkerInv
             PROVE  PermitsConserved /\ CopperHasOwner /\ AnswersAgree
  OBVIOUS
<1>1. PermitsConserved
  BY DEF WorkerInv, Permits, Held, PermitsConserved
<1>2. AnswersAgree
  BY DEF WorkerInv, WorkerTypeOK, Phases, EventsTrue, AnswersAgree
<1>3. QED
  BY <1>1, <1>2 DEF WorkerInv
=============================================================================
