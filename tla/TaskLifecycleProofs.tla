------------------------- MODULE TaskLifecycleProofs -------------------------
(***************************************************************************)
(* The outcomes of a task agree on every path, whatever is lost, late or   *)
(* cancelled.                                                              *)
(*                                                                         *)
(* The invariant of the worker (WorkerTasksProofs) is joined by what the   *)
(* server knows: a task is published once, so the worker knows no task     *)
(* that was not sent; the terminal event of a task is its last event, so   *)
(* once it is consumed nothing of the task is on the wire; and until then  *)
(* the run and the status of a reported task are owed by that event.       *)
(***************************************************************************)
EXTENDS TaskLifecycle, WorkerTasksProofs

Sent(t) == dispatch[t] \in {"published", "returned", "done"}

\* No event of the task is on the wire
Quiet(t) == \A i \in DOMAIN events : events[i].task # t

\* The terminal event of the task is on the wire
Owed(t) == \E i \in DOMAIN events : events[i] = Event(t, result[t])

SentFirst ==
    /\ \A t \in Tasks : pc[t] # "new" => Sent(t)
    /\ \A i \in DOMAIN inbox : Sent(inbox[i])

PathsKept ==
    \A t \in Tasks :
        /\ dispatch[t] = "returned" => via[t] = "rest"
        /\ dispatch[t] = "published" => via[t] # "spawn"
        /\ via[t] # "rest" /\ dispatch[t] # "idle" => row[t] # Absent

\* The terminal event of a task is its last one
LastEvent ==
    \A i, j \in DOMAIN events :
        i < j /\ events[i].task = events[j].task => events[i].status = "running"

Applied ==
    applying # NoEvent /\ applying.status # "running" =>
        /\ pc[applying.task] \in Reported
        /\ applying.status = result[applying.task]
        /\ Quiet(applying.task)

RunsTrue ==
    \A t \in Tasks :
        run[t] \in Terminal => pc[t] \in Reported /\ run[t] = result[t] /\ Quiet(t)

FlowsTrue ==
    \A t \in Tasks :
        flow[t] \in Terminal => pc[t] \in Reported /\ flow[t] = result[t]

RunsOwed ==
    \A t \in Tasks :
        (via[t] # "rest" /\ pc[t] \in Reported /\ t \notin missed)
            => run[t] = result[t] \/ Owed(t)

RowsOwed ==
    \A t \in Tasks :
        (via[t] = "spawn" /\ pc[t] \in Reported /\ t \notin missed \union cancels)
            => \/ Owed(t)
               \/ applying = Event(t, result[t])
               \/ applying.task # t /\ row[t] = result[t] /\ Quiet(t)

ServerInv ==
    /\ ServerTypeOK
    /\ SentFirst
    /\ PathsKept
    /\ LastEvent
    /\ Applied
    /\ RunsTrue
    /\ FlowsTrue
    /\ RunsOwed
    /\ RowsOwed

IInv == WorkerInv /\ ServerInv

-----------------------------------------------------------------------------
\* The events on the wire

Events == [task : Tasks, status : Results \union {"running"}]

\* A new event joins the old ones at the end
LEMMA EventAppended ==
    ASSUME NEW q \in Seq(Events), NEW e \in Events, NEW p, p = Append(q, e)
    PROVE  /\ \A i \in DOMAIN q : i \in DOMAIN p /\ p[i] = q[i]
           /\ \E j \in DOMAIN p : p[j] = e
           /\ \A i \in DOMAIN p : p[i] = e \/ \E j \in DOMAIN q : p[i] = q[j]
           /\ \A i, j \in DOMAIN p : i < j =>
                 /\ i \in DOMAIN q /\ p[i] = q[i]
                 /\ p[j] = e \/ (j \in DOMAIN q /\ p[j] = q[j])
<1>1. /\ DOMAIN q = 1 .. Len(q) /\ DOMAIN p = 1 .. Len(q) + 1 /\ Len(q) \in Nat
      /\ \A i \in 1 .. Len(q) : p[i] = q[i]
      /\ p[Len(q) + 1] = e
  OBVIOUS
<1>2. QED
  BY <1>1

\* The head leaves the others as they are
LEMMA EventTaken ==
    ASSUME NEW q \in Seq(Events), q # <<>>, NEW p, p = Tail(q)
    PROVE  /\ Head(q) \in Events /\ p \in Seq(Events)
           /\ 1 \in DOMAIN q /\ q[1] = Head(q)
           /\ \A i \in DOMAIN q : i = 1 \/ (i - 1 \in DOMAIN p /\ p[i - 1] = q[i])
           /\ \A i \in DOMAIN p : i + 1 \in DOMAIN q /\ p[i] = q[i + 1] /\ 1 < i + 1
           /\ \A i, j \in DOMAIN p : i < j => i + 1 < j + 1
<1>1. /\ DOMAIN q = 1 .. Len(q) /\ Len(q) \in Nat /\ Len(q) > 0
      /\ DOMAIN p = 1 .. Len(q) - 1
      /\ \A i \in 1 .. Len(q) - 1 : p[i] = q[i + 1]
      /\ Head(q) = q[1] /\ p \in Seq(Events)
  OBVIOUS
<1>2. q[1] \in Events
  BY <1>1
<1>3. \A i \in DOMAIN q : i = 1 \/ (i - 1 \in DOMAIN p /\ p[i - 1] = q[i])
  BY <1>1
<1>4. 1 \in DOMAIN q /\ \A i \in DOMAIN p : i + 1 \in DOMAIN q /\ 1 < i + 1
  BY <1>1
<1>5. \A i \in DOMAIN p : p[i] = q[i + 1]
  BY <1>1
<1>6. \A i, j \in DOMAIN p : i < j => i + 1 < j + 1
  BY <1>1
<1>7. QED
  BY <1>1, <1>2, <1>3, <1>4, <1>5, <1>6

\* The head and the rest of the queue of invocations come from the queue
LEMMA QueueParts ==
    ASSUME WorkerInv, inbox # <<>>
    PROVE  /\ \E i \in DOMAIN inbox : inbox[i] = Head(inbox)
           /\ \A i \in DOMAIN Tail(inbox) :
                 \E j \in DOMAIN inbox : Tail(inbox)[i] = inbox[j]
<1>1. /\ DOMAIN inbox = 1 .. Len(inbox) /\ Len(inbox) \in Nat /\ Len(inbox) > 0
      /\ DOMAIN Tail(inbox) = 1 .. Len(inbox) - 1
      /\ \A i \in 1 .. Len(inbox) - 1 : Tail(inbox)[i] = inbox[i + 1]
      /\ Head(inbox) = inbox[1]
  BY DEF WorkerInv, WorkerTypeOK
<1>2. \A i \in DOMAIN Tail(inbox) : i + 1 \in DOMAIN inbox
  BY <1>1
<1>3. 1 \in DOMAIN inbox
  BY <1>1
<1>4. QED
  BY <1>1, <1>2, <1>3

\* The events are typed, and a terminal one says what its task ended with
LEMMA EventFacts ==
    ASSUME WorkerInv
    PROVE  /\ events \in Seq(Events)
           /\ \A i \in DOMAIN events :
                 /\ events[i].task \in Tasks
                 /\ events[i].status \in Results \union {"running"}
                 /\ events[i].status # "running" =>
                       /\ events[i].status = result[events[i].task]
                       /\ pc[events[i].task] \in Reported
<1>1. events \in Seq(Events)
  BY DEF WorkerInv, WorkerTypeOK, Events
<1>2. QED
  BY <1>1, EventOfTask, Zenon DEF WorkerInv, EventsTrue, Events

\* The result of a reported task is one of the results
LEMMA ReportedResult ==
    ASSUME WorkerInv, NEW t \in Tasks, pc[t] \in Reported
    PROVE  result[t] \in Results /\ result[t] \in Terminal /\ result[t] # "running"
  BY Zenon DEF WorkerInv, WorkerTypeOK, Phases, Before, Reported, Results, Terminal, NoResult

\* Consuming an event keeps the worker's invariant
LEMMA WorkerInvTail ==
    ASSUME WorkerInv, events # <<>>, events' = Tail(events),
           UNCHANGED <<inbox, rejecting, pc, slots, copper, version, seen, result, signal>>
    PROVE  WorkerInv'
<1>1. /\ events' \in Seq(Events)
      /\ \A i \in DOMAIN events' : i + 1 \in DOMAIN events /\ events'[i] = events[i + 1]
  BY EventFacts, EventTaken
<1>2. WorkerTypeOK'
  BY <1>1 DEF WorkerInv, WorkerTypeOK, Events
<1>3. EventsTrue'
  BY <1>1 DEF WorkerInv, EventsTrue
<1>4. Queued' /\ Phases' /\ CopperHasOwner' /\ (rejecting # NoTask => pc[rejecting] = "rejected")'
  BY DEF WorkerInv, Queued, Phases, CopperHasOwner
<1>5. Permits'
  BY DEF WorkerInv, Permits, Held
<1>6. QED
  BY <1>2, <1>3, <1>4, <1>5 DEF WorkerInv

-----------------------------------------------------------------------------
\* The worker as the server sees it

\* One more event, of a task that was not reported: its result if it is now
Tells(u, e) ==
    /\ events' = Append(events, Event(u, e))
    /\ pc[u] \notin Reported
    /\ pc'[u] \in Reported => e = result'[u]
    /\ \A v \in Tasks \ {u} : pc'[v] \in Reported => pc[v] \in Reported

Silent ==
    /\ events' = events
    /\ \A v \in Tasks : pc'[v] \in Reported => pc[v] \in Reported

\* What is reported stays, and only what was sent is taken on
Steadfast ==
    /\ \A u \in Tasks :
          pc[u] \in Reported => pc'[u] \in Reported /\ result'[u] = result[u]
    /\ \A u \in Tasks :
          pc'[u] # "new" => pc[u] # "new" \/ \E i \in DOMAIN inbox : inbox[i] = u
    /\ \A i \in DOMAIN inbox' : \E j \in DOMAIN inbox : inbox'[i] = inbox[j]

WorkerEffect ==
    /\ Steadfast
    /\ Silent \/ \E u \in Tasks, e \in Results \union {"running"} : Tells(u, e)

\* Every step of the worker is one of these
LEMMA WorkerEffects == WorkerInv /\ WorkerStep => WorkerEffect
<1> SUFFICES ASSUME WorkerInv, WorkerStep
             PROVE  WorkerEffect
  OBVIOUS
<1> USE DEF WorkerInv, WorkerTypeOK, Steadfast, Reported
<1>1. CASE ReceiveEstopped \/ ReceiveAdmitted
  <2>1. /\ Head(inbox) \in Tasks /\ pc[Head(inbox)] = "new"
        /\ \E i \in DOMAIN inbox : inbox[i] = Head(inbox)
        /\ \A i \in DOMAIN Tail(inbox) : \E j \in DOMAIN inbox : Tail(inbox)[i] = inbox[j]
    BY <1>1, HeadIsNew, QueueParts, Zenon DEF ReceiveEstopped, ReceiveAdmitted
  <2>2. Steadfast
    <3>1. inbox' = Tail(inbox) /\ result' = result
      BY <1>1, Zenon DEF ReceiveEstopped, ReceiveAdmitted
    <3>2. \A u \in Tasks \ {Head(inbox)} : pc'[u] = pc[u]
      BY <1>1 DEF ReceiveEstopped, ReceiveAdmitted
    <3>3. QED
      BY <2>1, <3>1, <3>2
  <2>3. Silent
    BY <1>1, <2>1 DEF ReceiveEstopped, ReceiveAdmitted, Silent
  <2>4. QED
    BY <2>2, <2>3 DEF WorkerEffect
<1>2. CASE ReceiveSaturated
  <2>1. /\ Head(inbox) \in Tasks /\ pc[Head(inbox)] = "new"
        /\ \E i \in DOMAIN inbox : inbox[i] = Head(inbox)
        /\ \A i \in DOMAIN Tail(inbox) : \E j \in DOMAIN inbox : Tail(inbox)[i] = inbox[j]
    BY <1>2, HeadIsNew, QueueParts, Zenon DEF ReceiveSaturated
  <2>2. Steadfast
    BY <1>2, <2>1 DEF ReceiveSaturated
  <2>3. Tells(Head(inbox), "failed")
    BY <1>2, <2>1 DEF ReceiveSaturated, Tells
  <2>4. QED
    BY <2>1, <2>2, <2>3 DEF WorkerEffect, Results, Terminal
<1>3. CASE SignalRejected \/ EstopMessage
  BY <1>3 DEF SignalRejected, EstopMessage, WorkerEffect, Silent
<1>4. ASSUME NEW t \in Tasks, ExecuteTask(t)
      PROVE  WorkerEffect
  <2>1. inbox' = inbox /\ pc[t] # "new"
    BY <1>4 DEF ExecuteTask, Refuse, Prepare, Launch, FirstPoll, EstopTurn, TimeOut,
                AgentEnds, Report, SignalResult, CleanUp
  <2>2. CASE Refuse(t)
    BY <2>1, <2>2, Zenon DEF Refuse, WorkerEffect, Tells, Results, Terminal
  <2>3. CASE Launch(t)
    BY <2>1, <2>3, Zenon DEF Launch, WorkerEffect, Tells
  <2>4. CASE Report(t)
    <3>1. result[t] \in Results
      BY <2>4 DEF Report, Phases, Before
    <3>2. Tells(t, result[t])
      BY <2>4 DEF Report, Tells
    <3>3. Steadfast
      BY <2>1, <2>4 DEF Report
    <3>4. QED
      BY <3>1, <3>2, <3>3 DEF WorkerEffect
  <2>5. CASE Prepare(t) \/ FirstPoll(t)
    BY <2>1, <2>5 DEF Prepare, FirstPoll, WorkerEffect, Silent
  <2>6. CASE EstopTurn(t) \/ TimeOut(t)
    BY <2>1, <2>6 DEF EstopTurn, TimeOut, WorkerEffect, Silent
  <2>7. ASSUME NEW r \in Results, AgentEnds(t, r)
        PROVE  WorkerEffect
    BY <2>1, <2>7 DEF AgentEnds, WorkerEffect, Silent
  <2>8. CASE SignalResult(t) \/ CleanUp(t)
    BY <2>1, <2>8 DEF SignalResult, CleanUp, WorkerEffect, Silent
  <2>9. QED
    BY <1>4, <2>2, <2>3, <2>4, <2>5, <2>6, <2>7, <2>8, ZenonT(30) DEF ExecuteTask
<1>5. QED
  BY <1>1, <1>2, <1>3, <1>4 DEF WorkerStep, MainLoop

\* A step of the worker leaves the server's invariant true
LEMMA ServerInvWorker ==
    ASSUME WorkerInv, ServerInv, WorkerStep, UNCHANGED serverVars
    PROVE  ServerInv'
<1>1. WorkerEffect /\ UNCHANGED serverVars
  BY WorkerEffects
<1>2. \A u \in Tasks : pc[u] \in Reported => pc'[u] \in Reported /\ result'[u] = result[u]
  BY <1>1 DEF WorkerEffect, Steadfast
<1>3. ServerTypeOK' /\ PathsKept'
  BY <1>1 DEF ServerInv, ServerTypeOK, PathsKept, serverVars
<1>4. SentFirst'
  BY <1>1 DEF WorkerEffect, Steadfast, ServerInv, SentFirst, Sent, serverVars
<1>5. \A t \in Tasks : pc[t] \in Reported /\ Quiet(t) => Quiet(t)'
  <2>1. CASE Silent
    BY <2>1 DEF Silent, Quiet
  <2>2. ASSUME NEW u \in Tasks, NEW e \in Results \union {"running"}, Tells(u, e)
        PROVE  \A t \in Tasks : pc[t] \in Reported /\ Quiet(t) => Quiet(t)'
    <3>1. Event(u, e) \in Events /\ Event(u, e).task = u
      BY DEF Event, Events
    <3>2. \A i \in DOMAIN events' :
             events'[i] = Event(u, e) \/ \E j \in DOMAIN events : events'[i] = events[j]
      BY <2>2, <3>1, EventAppended, EventFacts DEF Tells
    <3>3. QED
      BY <2>2, <3>1, <3>2 DEF Tells, Quiet
  <2>3. QED
    BY <1>1, <2>1, <2>2 DEF WorkerEffect
<1>6. \A t \in Tasks : pc[t] \in Reported /\ Owed(t) => Owed(t)'
  <2>1. CASE Silent
    BY <1>2, <2>1 DEF Silent, Owed
  <2>2. ASSUME NEW u \in Tasks, NEW e \in Results \union {"running"}, Tells(u, e)
        PROVE  \A t \in Tasks : pc[t] \in Reported /\ Owed(t) => Owed(t)'
    <3>1. Event(u, e) \in Events
      BY DEF Event, Events
    <3>2. \A i \in DOMAIN events : i \in DOMAIN events' /\ events'[i] = events[i]
      <4>1. events \in Seq(Events) /\ events' = Append(events, Event(u, e))
        BY <2>2, EventFacts DEF Tells
      <4>2. QED
        BY <3>1, <4>1, EventAppended
    <3>3. QED
      BY <1>2, <3>2 DEF Owed
  <2>3. QED
    BY <1>1, <2>1, <2>2 DEF WorkerEffect
<1>7. \A t \in Tasks : pc[t] \notin Reported /\ pc'[t] \in Reported => Owed(t)'
  <2>1. CASE Silent
    BY <2>1 DEF Silent
  <2>2. ASSUME NEW u \in Tasks, NEW e \in Results \union {"running"}, Tells(u, e)
        PROVE  \A t \in Tasks : pc[t] \notin Reported /\ pc'[t] \in Reported => Owed(t)'
    <3>1. Event(u, e) \in Events
      BY DEF Event, Events
    <3>2. \E j \in DOMAIN events' : events'[j] = Event(u, e)
      <4>1. events \in Seq(Events) /\ events' = Append(events, Event(u, e))
        BY <2>2, EventFacts DEF Tells
      <4>2. QED
        BY <3>1, <4>1, EventAppended
    <3>3. QED
      BY <2>2, <3>2 DEF Tells, Owed
  <2>3. QED
    BY <1>1, <2>1, <2>2 DEF WorkerEffect
<1>8. LastEvent'
  <2>1. CASE Silent
    BY <2>1 DEF Silent, ServerInv, LastEvent
  <2>2. ASSUME NEW u \in Tasks, NEW e \in Results \union {"running"}, Tells(u, e)
        PROVE  LastEvent'
    <3>1. Event(u, e) \in Events /\ Event(u, e).task = u
      BY DEF Event, Events
    <3>2. \A i, j \in DOMAIN events' : i < j =>
             /\ i \in DOMAIN events /\ events'[i] = events[i]
             /\ events'[j] = Event(u, e) \/ (j \in DOMAIN events /\ events'[j] = events[j])
      BY <2>2, <3>1, EventAppended, EventFacts DEF Tells
    <3>3. \A i \in DOMAIN events : events[i].task = u => events[i].status = "running"
      BY <2>2, EventFacts DEF Tells
    <3>4. QED
      BY <3>1, <3>2, <3>3 DEF ServerInv, LastEvent
  <2>3. QED
    BY <1>1, <2>1, <2>2 DEF WorkerEffect
<1>9. Applied'
  <2>1. applying # NoEvent => applying.task \in Tasks
    BY DEF ServerInv, ServerTypeOK
  <2>2. QED
    BY <1>1, <1>2, <1>5, <2>1 DEF ServerInv, Applied, serverVars
<1>10. RunsTrue' /\ FlowsTrue'
  BY <1>1, <1>2, <1>5 DEF ServerInv, RunsTrue, FlowsTrue, serverVars
<1>11. RunsOwed'
  BY <1>1, <1>2, <1>6, <1>7 DEF ServerInv, RunsOwed, serverVars
<1>12. RowsOwed'
  BY <1>1, <1>2, <1>5, <1>6, <1>7 DEF ServerInv, RowsOwed, serverVars
<1>13. QED
  BY <1>3, <1>4, <1>8, <1>9, <1>10, <1>11, <1>12 DEF ServerInv
-----------------------------------------------------------------------------
\* The dispatch of a task

SentSteps == {"published", "returned", "done"}

\* What a step of the dispatch may write without harm: the step d it goes to,
\* the row r and the workflow f
Writes(t, d, r, f) ==
    /\ d \in DispatchSteps
    /\ r \in Statuses \union {Absent}
    /\ f \in {"none", "awaiting"} \union Terminal
    /\ UNCHANGED <<pc, result, events, via, run, applying, cancels, missed>>
    /\ dispatch' = [dispatch EXCEPT ![t] = d]
    /\ row' = [row EXCEPT ![t] = r]
    /\ flow' = [flow EXCEPT ![t] = f]
    /\ draft' \in [Tasks -> Statuses \union {Absent}]
    /\ f \notin Terminal \/ f = flow[t]
    /\ \A i \in DOMAIN inbox' :
          \/ inbox'[i] = t /\ d \in SentSteps
          \/ \E j \in DOMAIN inbox : inbox'[i] = inbox[j]
    /\ Sent(t) => d \in SentSteps
    /\ d = "returned" => via[t] = "rest"
    /\ d = "published" => via[t] # "spawn"
    /\ via[t] # "rest" => r # Absent
    /\ via[t] = "spawn" /\ pc[t] \in Reported => r = row[t]

\* Such a write leaves the invariant of the server true
LEMMA DispatchKeeps ==
    ASSUME WorkerInv, ServerInv, NEW t \in Tasks, NEW d, NEW r, NEW f, Writes(t, d, r, f)
    PROVE  ServerInv'
<1> USE DEF Writes
<1> USE DEF ServerInv
<1>1. ServerTypeOK'
  BY DEF ServerTypeOK
<1>2. SentFirst'
  BY DEF ServerTypeOK, SentFirst, Sent, SentSteps
<1>3. PathsKept'
  BY SMTT(30) DEF ServerTypeOK, PathsKept
<1>4. LastEvent' /\ Applied' /\ RunsTrue'
  BY SMTT(30) DEF LastEvent, Applied, RunsTrue, Quiet
<1>5. FlowsTrue'
  BY DEF ServerTypeOK, FlowsTrue
<1>6. RunsOwed'
  BY SMTT(30) DEF RunsOwed, Owed
<1>7. RowsOwed'
  BY DEF ServerTypeOK, RowsOwed, Owed, Quiet
<1>8. QED
  BY <1>1, <1>2, <1>3, <1>4, <1>5, <1>6, <1>7, SMTT(30)

\* A task that is not sent is new to the worker
LEMMA UnsentIsNew ==
    ASSUME WorkerInv, ServerInv, NEW t \in Tasks, ~Sent(t)
    PROVE  /\ pc[t] = "new" /\ pc[t] \notin Reported
           /\ \A i \in DOMAIN inbox : inbox[i] # t
  BY DEF ServerInv, SentFirst, Reported

\* A step that leaves a place of a table alone writes what is there
LEMMA SameValue ==
    ASSUME NEW S, NEW g \in [Tasks -> S], NEW t \in Tasks
    PROVE  g = [g EXCEPT ![t] = g[t]] /\ g[t] \in S
  OBVIOUS

\* Each step of dispatch_task and of the spawn handler writes no more than that
LEMMA DispatchStepKeeps ==
    ASSUME WorkerInv, ServerInv, NEW t \in Tasks, DispatchStep(t)
    PROVE  WorkerInv' /\ ServerInv'
<1> DEFINE S == Statuses \union {Absent}
           F == {"none", "awaiting"} \union Terminal
<1>1. /\ row \in [Tasks -> S] /\ draft \in [Tasks -> S]
      /\ row = [row EXCEPT ![t] = row[t]] /\ row[t] \in S
      /\ flow = [flow EXCEPT ![t] = flow[t]] /\ flow[t] \in F
      /\ "awaiting" \in F /\ "awaiting" \notin Terminal
      /\ "pending" \in S /\ "queued" \in S /\ "failed" \in S /\ Absent \in S
      /\ Absent # "pending" /\ Absent # "queued" /\ Absent # "failed"
  BY SameValue DEF ServerInv, ServerTypeOK, Statuses, Terminal, Absent
<1>2. /\ dispatch[t] = "published" => via[t] # "spawn"
      /\ dispatch[t] = "returned" => via[t] = "rest"
      /\ via[t] # "rest" /\ dispatch[t] # "idle" => row[t] # Absent
  BY DEF ServerInv, PathsKept
<1>3. \A s \in S : [draft EXCEPT ![t] = s] \in [Tasks -> S]
  BY <1>1
<1> HIDE DEF S, F
<1>4. ASSUME Only("none")
      PROVE  /\ WorkerInv' /\ UNCHANGED <<pc, result, events>>
             /\ \A i \in DOMAIN inbox' : \E j \in DOMAIN inbox : inbox'[i] = inbox[j]
  BY <1>4, WorkerInvStutter DEF Only, workerVars
<1>5. ASSUME NEW d, NEW r, NEW f, Writes(t, d, r, f), WorkerInv'
      PROVE  WorkerInv' /\ ServerInv'
  BY <1>5, DispatchKeeps
<1> DEFINE Calm == /\ UNCHANGED <<pc, result, events, via, run, applying, cancels, missed>>
                   /\ \A i \in DOMAIN inbox' : \E j \in DOMAIN inbox : inbox'[i] = inbox[j]
                   /\ WorkerInv'
<1>6. ASSUME Calm, Fail(t), ~Sent(t), dispatch[t] # "idle",
             NEW f \in F, f \notin Terminal \/ f = flow[t], flow' = [flow EXCEPT ![t] = f]
      PROVE  WorkerInv' /\ ServerInv'
  <2>1. pc[t] \notin Reported
    BY <1>6, UnsentIsNew
  <2>2. CASE via[t] = "rest"
    <3>1. Writes(t, "failed", row[t], f)
      BY <1>1, <1>2, <1>3, <1>6, <2>1, <2>2, Zenon DEF Fail, Writes, S, F, DispatchSteps
    <3>2. QED
      BY <1>5, <1>6, <3>1
  <2>3. CASE via[t] # "rest"
    <3>1. Writes(t, "failed", "failed", f)
      BY <1>1, <1>2, <1>3, <1>6, <2>1, <2>3 DEF Fail, Writes, S, F, DispatchSteps
    <3>2. QED
      BY <1>5, <1>6, <3>1, Zenon
  <2>4. QED
    BY <2>2, <2>3
<1>7. CASE Only("none") /\ CreateTask(t)
  <2>1. ~Sent(t) /\ pc[t] \notin Reported /\ Calm
    BY <1>4, <1>7, UnsentIsNew, ZenonT(30) DEF CreateTask, Sent
  <2>2. CASE via[t] = "rest"
    <3>1. Writes(t, "created", row[t], flow[t])
      BY <1>1, <1>3, <1>7, <2>1, <2>2 DEF CreateTask, Write, Writes, S, F, DispatchSteps
    <3>2. QED
      BY <1>5, <2>1, <3>1
  <2>3. CASE via[t] # "rest"
    <3>1. Writes(t, "created", "pending", flow[t])
      BY <1>1, <1>3, <1>7, <2>1, <2>3, SMTT(30) DEF CreateTask, Write, Writes, S, F, DispatchSteps
    <3>2. QED
      BY <1>5, <2>1, <3>1
  <2>4. QED
    BY <2>2, <2>3, Zenon
<1>8. CASE Only("none") /\ StartWorkflow(t)
  <2>1. ~Sent(t) /\ pc[t] \notin Reported /\ Calm
    BY <1>4, <1>8, UnsentIsNew DEF StartWorkflow, Sent
  <2>2. Writes(t, "started", row[t], "awaiting")
    BY <1>1, <1>2, <1>8, <2>1 DEF StartWorkflow, Writes, S, F, DispatchSteps
  <2>3. QED
    BY <1>5, <2>1, <2>2
<1>9. CASE Only("none") /\ StartWorkflowFails(t)
  <2>1. ~Sent(t) /\ pc[t] \notin Reported /\ Calm /\ dispatch[t] # "idle"
    BY <1>4, <1>9, UnsentIsNew DEF StartWorkflowFails, Sent
  <2>2. PICK f \in F : (f \notin Terminal \/ f = flow[t]) /\ flow' = [flow EXCEPT ![t] = f]
    BY <1>1, <1>9 DEF StartWorkflowFails
  <2>3. CASE via[t] = "spawn"
    <3>1. Writes(t, "started", row[t], f)
      BY <1>1, <1>2, <1>9, <2>1, <2>2, <2>3 DEF StartWorkflowFails, Writes, S, F, DispatchSteps
    <3>2. QED
      BY <1>5, <2>1, <3>1, SMTT(30)
  <2>4. CASE via[t] # "spawn"
    BY <1>6, <1>9, <2>1, <2>2, <2>4, Zenon DEF StartWorkflowFails
  <2>5. QED
    BY <2>3, <2>4, ZenonT(30)
<1>10. CASE Only("none") /\ SpawnHostMissing(t)
  <2>1. ~Sent(t) /\ pc[t] \notin Reported /\ Calm
    BY <1>4, <1>10, UnsentIsNew DEF SpawnHostMissing, Sent
  <2>2. Writes(t, "failed", row[t], flow[t])
    BY <1>1, <1>2, <1>10, <2>1 DEF SpawnHostMissing, Writes, S, F, DispatchSteps
  <2>3. QED
    BY <1>5, <2>1, <2>2, Zenon
<1>11. CASE Only("none") /\ PublishFails(t)
  <2>1. ~Sent(t) /\ pc[t] \notin Reported /\ Calm /\ dispatch[t] # "idle"
    BY <1>4, <1>11, UnsentIsNew, ZenonT(30) DEF PublishFails, Sent
  <2>2. CASE via[t] = "spawn"
    <3>1. Writes(t, "done", row[t], flow[t])
      BY <1>1, <1>2, <1>11, <2>1, <2>2, SMTT(30)
      DEF PublishFails, Writes, S, F, DispatchSteps, SentSteps
    <3>2. QED
      BY <1>5, <2>1, <3>1, SMTT(30)
  <2>3. CASE via[t] # "spawn"
    BY <1>1, <1>6, <1>11, <2>1, <2>3, SMTT(30) DEF PublishFails
  <2>4. QED
    BY <2>2, <2>3, SMTT(30)
<1>12. CASE Only("none") /\ MarkQueued(t)
  <2>1. Calm
    BY <1>4, <1>12 DEF MarkQueued
  <2>2. CASE via[t] = "rest"
    <3>1. Writes(t, "returned", row[t], flow[t])
      BY <1>1, <1>3, <1>12, <2>1, <2>2, ZenonT(30)
      DEF MarkQueued, Write, Writes, S, F, DispatchSteps, SentSteps
    <3>2. QED
      BY <1>5, <2>1, <3>1, SMTT(30)
  <2>3. CASE via[t] # "rest"
    <3>1. Writes(t, "done", "queued", flow[t])
      BY <1>1, <1>2, <1>3, <1>12, <2>1, <2>3, SMTT(30)
      DEF MarkQueued, Write, Writes, S, F, DispatchSteps, SentSteps
    <3>2. QED
      BY <1>5, <2>1, <3>1, SMTT(30)
  <2>4. QED
    BY <2>2, <2>3
<1>13. CASE Only("none") /\ Commit(t)
  <2>1. Calm /\ draft[t] \in S
    BY <1>1, <1>4, <1>13 DEF Commit
  <2>2. PICK r \in S : row' = [row EXCEPT ![t] = r]
    BY <1>1, <1>13, <2>1, SMTT(30) DEF Commit
  <2>3. Writes(t, "done", r, flow[t])
    BY <1>1, <1>2, <1>3, <1>13, <2>1, <2>2, ZenonT(30)
    DEF Commit, Writes, S, F, DispatchSteps, SentSteps
  <2>4. QED
    BY <1>5, <2>1, <2>3
<1>14. CASE Only("inbox") /\ Publish(t)
  <2>1. /\ ~Sent(t) /\ pc[t] \notin Reported /\ pc[t] = "new"
        /\ \A i \in DOMAIN inbox : inbox[i] # t
    BY <1>14, UnsentIsNew DEF Publish, Sent
  <2>2. UNCHANGED <<rejecting, pc, slots, copper, version, seen, result, events, signal>>
    BY <1>14 DEF Only
  <2>3. WorkerInv'
    <3>1. CASE inbox' = Append(inbox, t)
      BY <2>1, <2>2, <3>1, WorkerInvInvoke
    <3>2. CASE UNCHANGED inbox
      BY <2>2, <3>2, WorkerInvStutter DEF workerVars
    <3>3. QED
      BY <1>14, <3>1, <3>2 DEF Publish
  <2>4. \A i \in DOMAIN inbox' :
           inbox'[i] = t \/ \E j \in DOMAIN inbox : inbox'[i] = inbox[j]
    <3>1. inbox \in Seq(Tasks)
      BY DEF WorkerInv, WorkerTypeOK
    <3>2. CASE inbox' = Append(inbox, t)
      BY <3>1, <3>2, OldOrNew
    <3>3. CASE inbox' = inbox
      BY <3>3
    <3>4. QED
      BY <1>14, <3>2, <3>3 DEF Publish
  <2>5. CASE via[t] = "spawn"
    <3>1. Writes(t, "done", row[t], flow[t])
      BY <1>1, <1>2, <1>14, <2>1, <2>2, <2>4, <2>5, SMTT(30)
      DEF Publish, Writes, S, F, DispatchSteps, SentSteps
    <3>2. QED
      BY <1>5, <2>3, <3>1, SMTT(30)
  <2>6. CASE via[t] # "spawn"
    <3>1. Writes(t, "published", row[t], flow[t])
      BY <1>1, <1>2, <1>14, <2>1, <2>2, <2>4, <2>6
      DEF Publish, Writes, S, F, DispatchSteps, SentSteps
    <3>2. QED
      BY <1>5, <2>3, <3>1, SMTT(30)
  <2>7. QED
    BY <2>5, <2>6
<1>15. QED
  BY <1>7, <1>8, <1>9, <1>10, <1>11, <1>12, <1>13, <1>14, ZenonT(30) DEF DispatchStep
-----------------------------------------------------------------------------
\* The status handler, the loss of an event, cancellation and the workflow

\* What is left on the wire when the head is taken
LEMMA WireTail ==
    ASSUME WorkerInv, ServerInv, events # <<>>, events' = Tail(events),
           UNCHANGED <<pc, result>>
    PROVE  /\ Head(events) \in Events
           /\ ~Quiet(Head(events).task)
           /\ Head(events).status # "running" =>
                 /\ Head(events).status = result[Head(events).task]
                 /\ pc[Head(events).task] \in Reported
                 /\ \A i \in DOMAIN events' : events'[i].task # Head(events).task
           /\ \A t \in Tasks : Quiet(t) => Quiet(t)'
           /\ \A t \in Tasks : Owed(t) => Owed(t)' \/ Head(events) = Event(t, result[t])
           /\ LastEvent'
<1>1. /\ Head(events) \in Events /\ events' \in Seq(Events)
      /\ 1 \in DOMAIN events /\ events[1] = Head(events)
      /\ \A i \in DOMAIN events :
            i = 1 \/ (i - 1 \in DOMAIN events' /\ events'[i - 1] = events[i])
      /\ \A i \in DOMAIN events' :
            i + 1 \in DOMAIN events /\ events'[i] = events[i + 1] /\ 1 < i + 1
      /\ \A i, j \in DOMAIN events' : i < j => i + 1 < j + 1
  <2>1. events \in Seq(Events)
    BY EventFacts
  <2>2. QED
    BY <2>1, EventTaken
<1> DEFINE h == Head(events)
<1>2. ~Quiet(h.task)
  BY <1>1, SMTT(30) DEF Quiet
<1>3. h.status # "running" => h.status = result[h.task] /\ pc[h.task] \in Reported
  BY <1>1, EventFacts, SMTT(30)
<1>4. h.status # "running" => \A i \in DOMAIN events' : events'[i].task # h.task
  BY <1>1 DEF ServerInv, LastEvent
<1>5. \A t \in Tasks : Quiet(t) => Quiet(t)'
  BY <1>1 DEF Quiet
<1>6. \A t \in Tasks : Owed(t) => Owed(t)' \/ h = Event(t, result[t])
  BY <1>1, Zenon DEF Owed
<1>7. LastEvent'
  BY <1>1, SMTT(30) DEF ServerInv, LastEvent
<1>8. QED
  BY <1>1, <1>2, <1>3, <1>4, <1>5, <1>6, <1>7, Zenon

\* apply_task_status_event records the run of the next event
LEMMA ApplyRunKeeps ==
    ASSUME WorkerInv, ServerInv, Only("events"), ApplyRun
    PROVE  WorkerInv' /\ ServerInv'
<1> DEFINE h == Head(events)
<1>1. /\ applying = NoEvent /\ events # <<>> /\ applying' = h /\ events' = Tail(events)
      /\ run' = [run EXCEPT ![h.task] = RecordRun(h.task, h.status)]
      /\ UNCHANGED <<via, row, draft, dispatch, flow, cancels, missed>>
      /\ UNCHANGED <<inbox, rejecting, pc, slots, copper, version, seen, result, signal>>
  BY ZenonT(30) DEF Only, ApplyRun
<1>2. /\ h \in Events /\ ~Quiet(h.task)
      /\ h.status # "running" =>
            /\ h.status = result[h.task] /\ pc[h.task] \in Reported
            /\ \A i \in DOMAIN events' : events'[i].task # h.task
      /\ \A t \in Tasks : Quiet(t) => Quiet(t)'
      /\ \A t \in Tasks : Owed(t) => Owed(t)' \/ h = Event(t, result[t])
      /\ LastEvent'
  BY <1>1, WireTail, ZenonT(30)
<1> HIDE DEF h
<1>3. h.task \in Tasks /\ h.status \in Results \union {"running"} /\ h # NoEvent
  BY <1>2, TasksAssumption, SMTT(30) DEF Events, NoEvent
<1>4. run[h.task] \notin Terminal
  BY <1>2, <1>3 DEF ServerInv, RunsTrue
<1>5. /\ row[h.task] = Absent => run'[h.task] = run[h.task]
      /\ row[h.task] # Absent /\ h.status = "running" => run'[h.task] = "open"
      /\ row[h.task] # Absent /\ h.status # "running" => run'[h.task] = h.status
      /\ \A t \in Tasks \ {h.task} : run'[t] = run[t]
      /\ run' \in [Tasks -> {"none", "open"} \union Terminal]
  BY <1>1, <1>3 DEF RecordRun, ServerInv, ServerTypeOK, Results
<1>6. ServerTypeOK'
  BY <1>1, <1>2, <1>5, Zenon DEF ServerInv, ServerTypeOK, Events
<1>7. SentFirst' /\ PathsKept'
  BY <1>1 DEF ServerInv, SentFirst, PathsKept, Sent
<1>8. Applied'
  BY <1>1, <1>2 DEF Applied, Quiet
<1>9. RunsTrue'
  <2>1. "open" \notin Terminal
    BY Zenon DEF Terminal
  <2>2. ASSUME NEW t \in Tasks, t = h.task, run'[t] \in Terminal
        PROVE  pc'[t] \in Reported /\ run'[t] = result'[t] /\ Quiet(t)'
    <3>1. row[t] # Absent /\ h.status # "running"
      BY <1>4, <1>5, <2>1, <2>2, Zenon
    <3>2. QED
      BY <1>1, <1>2, <1>5, <2>2, <3>1, Zenon DEF Quiet
  <2>3. ASSUME NEW t \in Tasks, t # h.task, run'[t] \in Terminal
        PROVE  pc'[t] \in Reported /\ run'[t] = result'[t] /\ Quiet(t)'
    BY <1>1, <1>2, <1>5, <2>3, Zenon DEF ServerInv, RunsTrue
  <2>4. QED
    BY <2>2, <2>3 DEF RunsTrue
<1>10. FlowsTrue'
  BY <1>1 DEF ServerInv, FlowsTrue
<1>11. RunsOwed'
  <2> SUFFICES ASSUME NEW t \in Tasks, via[t] # "rest", pc[t] \in Reported, t \notin missed
               PROVE  run'[t] = result[t] \/ Owed(t)'
    BY <1>1 DEF RunsOwed
  <2>1. result[t] \in Terminal /\ result[t] # "running"
    BY ReportedResult
  <2>2. CASE run[t] = result[t]
    BY <1>3, <1>4, <1>5, <2>1, <2>2, Zenon
  <2>3. CASE Owed(t) /\ h = Event(t, result[t])
    <3>1. h.task = t /\ h.status = result[t]
      BY <2>3, SMTT(30) DEF Event
    <3>2. row[t] # Absent
      <4>1. pc[t] # "new"
        BY Zenon DEF Reported
      <4>2. QED
        BY <4>1 DEF ServerInv, SentFirst, Sent, PathsKept
    <3>3. QED
      BY <1>5, <2>1, <3>1, <3>2, Zenon
  <2>4. CASE Owed(t) /\ h # Event(t, result[t])
    BY <1>2, <2>4, Zenon
  <2>5. QED
    BY <2>2, <2>3, <2>4 DEF ServerInv, RunsOwed
<1>12. RowsOwed'
  <2> SUFFICES ASSUME NEW t \in Tasks, via[t] = "spawn", pc[t] \in Reported,
                      t \notin missed \union cancels
               PROVE  \/ Owed(t)'
                      \/ applying' = Event(t, result[t])
                      \/ applying'.task # t /\ row[t] = result[t] /\ Quiet(t)'
    BY <1>1, SMTT(30) DEF RowsOwed
  <2>1. CASE Owed(t)
    BY <1>1, <1>2, <2>1, Zenon
  <2>2. CASE applying = Event(t, result[t])
    <3>1. applying = NoEvent
      BY <1>1
    <3>2. t = NoTask
      BY <2>2, <3>1 DEF Event, NoEvent
    <3>3. QED
      BY <3>2, TasksAssumption, Zenon
  <2>3. CASE row[t] = result[t] /\ Quiet(t)
    <3>1. Quiet(t)' /\ h.task # t
      BY <1>2, <2>3, Zenon
    <3>2. QED
      BY <1>1, <2>3, <3>1, Zenon
  <2>4. QED
    BY <2>1, <2>2, <2>3, Zenon DEF ServerInv, RowsOwed
<1>13. WorkerInv'
  BY <1>1, WorkerInvTail
<1>14. QED
  BY <1>2, <1>6, <1>7, <1>8, <1>9, <1>10, <1>11, <1>12, <1>13, SMTT(30) DEF ServerInv

\* and then overwrites the status of the task
LEMMA ApplyStatusKeeps ==
    ASSUME WorkerInv, ServerInv, Only("none"), ApplyStatus
    PROVE  WorkerInv' /\ ServerInv'
<1> DEFINE a == applying.task
<1>1. /\ applying # NoEvent /\ applying' = NoEvent
      /\ row' = [row EXCEPT ![a] = IF row[a] = Absent THEN Absent ELSE applying.status]
      /\ UNCHANGED <<via, draft, dispatch, run, flow, cancels, missed>>
      /\ UNCHANGED workerVars
  BY DEF Only, ApplyStatus, workerVars
<1>2. UNCHANGED <<inbox, pc, result, events>> /\ WorkerInv'
  BY <1>1, WorkerInvStutter DEF workerVars
<1>3. a \in Tasks /\ applying.status \in Results \union {"running"}
  BY <1>1 DEF ServerInv, ServerTypeOK
<1> HIDE DEF a
<1>4. /\ row' \in [Tasks -> Statuses \union {Absent}]
      /\ \A t \in Tasks \ {a} : row'[t] = row[t]
      /\ row[a] # Absent => row'[a] = applying.status /\ row'[a] # Absent
  BY <1>1, <1>3, SMTT(30) DEF ServerInv, ServerTypeOK, Statuses, Results, Terminal, Absent
<1>5. ServerTypeOK'
  BY <1>1, <1>4, SMTT(30) DEF ServerInv, ServerTypeOK
<1>6. SentFirst' /\ LastEvent' /\ RunsTrue' /\ FlowsTrue' /\ RunsOwed'
  BY <1>1, <1>2, ZenonT(30) DEF ServerInv, SentFirst, Sent, LastEvent, RunsTrue, FlowsTrue, RunsOwed,
                    Quiet, Owed
<1>7. PathsKept'
  BY <1>1, <1>4, Zenon DEF ServerInv, PathsKept
<1>8. Applied'
  BY <1>1, SMTT(30) DEF Applied
<1>9. RowsOwed'
  <2> SUFFICES ASSUME NEW t \in Tasks, via[t] = "spawn", pc[t] \in Reported,
                      t \notin missed \union cancels
               PROVE  Owed(t) \/ (row'[t] = result[t] /\ Quiet(t))
    <3>1. NoEvent.task \notin Tasks
      BY TasksAssumption DEF NoEvent
    <3>2. QED
      BY <1>1, <1>2, <3>1, SMTT(30) DEF RowsOwed, Owed, Quiet
  <2>1. result[t] # "running"
    BY ReportedResult, Zenon
  <2>2. CASE applying = Event(t, result[t])
    <3>1. a = t /\ applying.status = result[t]
      BY <2>2, SMTT(30) DEF Event, a
    <3>2. row[t] # Absent
      <4>1. pc[t] # "new"
        BY SMTT(30) DEF Reported
      <4>2. QED
        BY <4>1 DEF ServerInv, SentFirst, Sent, PathsKept
    <3>3. Quiet(t)
      BY <1>1, <2>1, <3>1, Zenon DEF ServerInv, Applied, a
    <3>4. QED
      BY <1>4, <3>1, <3>2, <3>3, Zenon
  <2>3. CASE a # t /\ row[t] = result[t] /\ Quiet(t)
    BY <1>4, <2>3
  <2>4. QED
    BY <2>2, <2>3, SMTT(30) DEF ServerInv, RowsOwed, a
<1>10. QED
  BY <1>2, <1>5, <1>6, <1>7, <1>8, <1>9, Zenon DEF ServerInv

\* An event that is lost is owed no more
LEMMA LoseEventKeeps ==
    ASSUME WorkerInv, ServerInv, Only("events"), LoseEvent
    PROVE  WorkerInv' /\ ServerInv'
<1> DEFINE h == Head(events)
<1>1. /\ events # <<>> /\ events' = Tail(events) /\ missed' = missed \union {h.task}
      /\ UNCHANGED <<via, row, draft, dispatch, run, flow, applying, cancels>>
      /\ UNCHANGED <<inbox, rejecting, pc, slots, copper, version, seen, result, signal>>
  BY ZenonT(30) DEF Only, LoseEvent
<1>2. /\ h \in Events
      /\ \A t \in Tasks : Quiet(t) => Quiet(t)'
      /\ \A t \in Tasks : Owed(t) => Owed(t)' \/ h = Event(t, result[t])
      /\ LastEvent'
  BY <1>1, WireTail, SMTT(30)
<1> HIDE DEF h
<1>3. h.task \in Tasks /\ \A t \in Tasks : h = Event(t, result[t]) => h.task = t
  BY <1>2 DEF Events, Event
<1>4. ServerTypeOK' /\ SentFirst' /\ PathsKept'
  BY <1>1, <1>3, ZenonT(30) DEF ServerInv, ServerTypeOK, SentFirst, Sent, PathsKept
<1>5. Applied'
  <2>1. applying # NoEvent => applying.task \in Tasks
    BY DEF ServerInv, ServerTypeOK
  <2>2. QED
    BY <1>1, <1>2, <2>1, Zenon DEF ServerInv, Applied
<1>6. RunsTrue' /\ FlowsTrue'
  BY <1>1, <1>2, ZenonT(30) DEF ServerInv, RunsTrue, FlowsTrue
<1>7. RunsOwed'
  BY <1>1, <1>2, <1>3, ZenonT(30) DEF ServerInv, RunsOwed
<1>8. RowsOwed'
  BY <1>1, <1>2, <1>3, Zenon DEF ServerInv, RowsOwed
<1>9. WorkerInv'
  BY <1>1, WorkerInvTail
<1>10. QED
  BY <1>2, <1>4, <1>5, <1>6, <1>7, <1>8, <1>9, Zenon DEF ServerInv

\* A cancellation touches a row whose status is then no longer claimed
LEMMA CancelKeeps ==
    ASSUME WorkerInv, ServerInv, NEW t \in Tasks, Only("none"), CancelTask(t)
    PROVE  WorkerInv' /\ ServerInv'
<1>1. /\ row' = [row EXCEPT ![t] = "cancelled"] /\ cancels' = cancels \union {t}
      /\ UNCHANGED <<via, draft, dispatch, run, flow, applying, missed>>
      /\ UNCHANGED workerVars
  BY DEF Only, CancelTask, workerVars
<1>2. UNCHANGED <<inbox, pc, result, events>> /\ WorkerInv'
  BY <1>1, WorkerInvStutter, ZenonT(30) DEF workerVars
<1>3. ServerTypeOK' /\ PathsKept'
  BY <1>1 DEF ServerInv, ServerTypeOK, PathsKept, Statuses, Terminal, Absent
<1>4. SentFirst' /\ LastEvent' /\ Applied' /\ RunsTrue' /\ FlowsTrue' /\ RunsOwed'
  BY <1>1, <1>2, Zenon DEF ServerInv, SentFirst, Sent, LastEvent, Applied, RunsTrue, FlowsTrue,
                    RunsOwed, Quiet, Owed
<1>5. RowsOwed'
  <2>1. /\ cancels \subseteq cancels'
        /\ \A u \in Tasks : u \notin cancels' => row'[u] = row[u]
    BY <1>1 DEF ServerInv, ServerTypeOK
  <2>2. \A u \in Tasks : (Owed(u) => Owed(u)') /\ (Quiet(u) => Quiet(u)')
    BY <1>2 DEF Owed, Quiet
  <2>3. QED
    BY <1>1, <1>2, <2>1, <2>2, Zenon DEF ServerInv, RowsOwed
<1>6. QED
  BY <1>2, <1>3, <1>4, <1>5 DEF ServerInv

\* A workflow ends with the result its worker reported
LEMMA ResolveKeeps ==
    ASSUME WorkerInv, ServerInv, NEW t \in Tasks, Only("none"), ResolveResult(t)
    PROVE  WorkerInv' /\ ServerInv'
<1>1. /\ flow' = [flow EXCEPT ![t] = signal[t]] /\ signal[t] \in Results
      /\ UNCHANGED <<via, row, draft, dispatch, run, applying, cancels, missed>>
      /\ UNCHANGED workerVars
  BY DEF Only, ResolveResult, workerVars
<1>2. UNCHANGED <<inbox, pc, result, events>> /\ WorkerInv'
  BY <1>1, WorkerInvStutter, Zenon DEF workerVars
<1>3. signal[t] = result[t] /\ pc[t] \in Reported
  BY <1>1, Zenon DEF WorkerInv, Phases, Results, Terminal, NoResult
<1>4. ServerTypeOK' /\ PathsKept'
  BY <1>1 DEF ServerInv, ServerTypeOK, PathsKept, Results
<1>5. SentFirst' /\ LastEvent' /\ Applied' /\ RunsTrue' /\ RunsOwed' /\ RowsOwed'
  <2>1. SentFirst' /\ LastEvent' /\ Applied' /\ RunsTrue'
    BY <1>1, <1>2 DEF ServerInv, SentFirst, Sent, LastEvent, Applied, RunsTrue, Quiet
  <2>2. \A u \in Tasks : (Owed(u) => Owed(u)') /\ (Quiet(u) => Quiet(u)')
    BY <1>2 DEF Owed, Quiet
  <2>3. RunsOwed' /\ RowsOwed'
    BY <1>1, <1>2, <2>2, ZenonT(30) DEF ServerInv, RunsOwed, RowsOwed
  <2>4. QED
    BY <2>1, <2>3, ZenonT(30)
<1>6. FlowsTrue'
  BY <1>1, <1>2, <1>3, Zenon DEF ServerInv, ServerTypeOK, FlowsTrue
<1>7. QED
  BY <1>2, <1>4, <1>5, <1>6 DEF ServerInv
-----------------------------------------------------------------------------
\* Every step keeps the invariant, one lemma above for each kind of step
LEMMA InvStep == IInv /\ [Next]_vars => IInv'
<1> SUFFICES ASSUME WorkerInv, ServerInv, [Next]_vars
             PROVE  WorkerInv' /\ ServerInv'
  BY DEF IInv
<1>1. ASSUME NEW t \in Tasks, DispatchStep(t)
      PROVE  WorkerInv' /\ ServerInv'
  BY <1>1, DispatchStepKeeps
<1>2. CASE StatusHandler
  BY <1>2, ApplyRunKeeps, ApplyStatusKeeps DEF StatusHandler
<1>3. CASE Worker \/ (EstopMessage /\ UNCHANGED serverVars)
  <2>1. WorkerStep /\ UNCHANGED serverVars
    BY <1>3 DEF Worker, WorkerStep
  <2>2. QED
    BY <2>1, WorkerInvStep, ServerInvWorker
<1>4. ASSUME NEW t \in Tasks, Only("none"), ResolveResult(t) \/ CancelTask(t)
      PROVE  WorkerInv' /\ ServerInv'
  BY <1>4, ResolveKeeps, CancelKeeps
<1>5. CASE Only("events") /\ LoseEvent
  BY <1>5, LoseEventKeeps
<1>6. CASE UNCHANGED vars
  <2>1. UNCHANGED workerVars /\ UNCHANGED serverVars
    BY <1>6 DEF vars
  <2>2. WorkerInv'
    BY <2>1, WorkerInvStutter
  <2>3. ServerInv'
    <3>1. /\ UNCHANGED <<via, row, draft, dispatch, run, flow, applying, cancels, missed>>
          /\ UNCHANGED <<inbox, pc, result, events>>
      BY <2>1, Zenon DEF workerVars, serverVars
    <3>2. ServerTypeOK' /\ PathsKept'
      BY <3>1, ZenonT(30) DEF ServerInv, ServerTypeOK, PathsKept
    <3>3. SentFirst' /\ LastEvent' /\ Applied' /\ RunsTrue' /\ FlowsTrue'
      BY <3>1, SMTT(30) DEF ServerInv, SentFirst, Sent, LastEvent, Applied, RunsTrue, FlowsTrue, Quiet
    <3>4. \A u \in Tasks : (Owed(u) => Owed(u)') /\ (Quiet(u) => Quiet(u)')
      BY <3>1 DEF Owed, Quiet
    <3>5. RunsOwed' /\ RowsOwed'
      BY <3>1, <3>4, Zenon DEF ServerInv, RunsOwed, RowsOwed
    <3>6. QED
      BY <3>2, <3>3, <3>5, SMTT(30) DEF ServerInv
  <2>4. QED
    BY <2>2, <2>3
<1>7. QED
  BY <1>1, <1>2, <1>3, <1>4, <1>5, <1>6, SMTT(30) DEF Next

\* The invariant holds on every path a task can take.
THEOREM LifecycleSafe == Spec => []IInv
<1>1. Init => IInv
  <2> SUFFICES ASSUME WorkerInit, ServerInit
               PROVE  WorkerInv /\ ServerInv
    BY DEF Init, IInv
  <2>1. WorkerInv
    BY WorkerInvInit
  <2>2. ServerTypeOK
    BY DEF ServerInit, ServerTypeOK, DispatchSteps
  <2>3. /\ events = <<>> /\ inbox = <<>> /\ DOMAIN events = {} /\ DOMAIN inbox = {}
        /\ \A t \in Tasks : pc[t] = "new" /\ pc[t] \notin Reported
        /\ \A t \in Tasks : run[t] \notin Terminal /\ flow[t] \notin Terminal
        /\ \A t \in Tasks : dispatch[t] = "idle"
        /\ applying = NoEvent
    BY DEF WorkerInit, ServerInit, Reported, Terminal
  <2>4. QED
    BY <2>1, <2>2, <2>3, Zenon
    DEF ServerInv, SentFirst, Sent, PathsKept, LastEvent, Applied, RunsTrue, FlowsTrue,
        RunsOwed, RowsOwed
<1>2. QED
  BY <1>1, InvStep, PTL DEF Spec

\* Every variable of the server and of the worker keeps its type.
THEOREM TypesCorrect == Spec => []TypeOK
  BY LifecycleSafe, PTL DEF IInv, WorkerInv, ServerInv, TypeOK

\* A closed run and an ended workflow say what the execution ended with,
\* whatever was lost, late or cancelled.
THEOREM OutcomesDoAgree == Spec => []OutcomesAgree
<1>1. IInv => OutcomesAgree
  BY Zenon DEF IInv, ServerInv, RunsTrue, FlowsTrue, OutcomesAgree
<1>2. QED
  BY <1>1, LifecycleSafe, PTL

\* No run stays open behind an execution that has ended, when the row was
\* there and no event was lost.
THEOREM RunsAreClosed == Spec => []NoOrphanRun
<1>1. IInv => NoOrphanRun
  BY SMTT(30) DEF IInv, ServerInv, RunsOwed, Owed, Event, NoOrphanRun, Settled, Reported
<1>2. QED
  BY <1>1, LifecycleSafe, PTL

\* The status of a child task ends as its result, unless it was cancelled or
\* an event was lost: spawn_task_handler has no late write to overwrite it.
THEOREM SpawnedStatusIsFinal == Spec => []SpawnedStatusFinal
<1>1. IInv => SpawnedStatusFinal
  BY DEF IInv, ServerInv, RowsOwed, Owed, Event, SpawnedStatusFinal, Settled, Reported
<1>2. QED
  BY <1>1, LifecycleSafe, PTL

-----------------------------------------------------------------------------
\* The records of a task

\* A transaction that is about to commit has the row in it
Drafted == \A t \in Tasks : dispatch[t] = "returned" => draft[t] # Absent

LEMMA DraftedStep ==
    ASSUME ServerTypeOK, Drafted, [Next]_vars
    PROVE  Drafted'
<1> USE DEF Drafted, ServerTypeOK
<1>1. ASSUME NEW t \in Tasks, DispatchStep(t)
      PROVE  Drafted'
  <2>1. CASE MarkQueued(t)
    <3>1. via[t] = "rest" => draft' = [draft EXCEPT ![t] = "queued"]
      BY <2>1 DEF MarkQueued, Write
    <3>2. via[t] # "rest" => draft' = draft
      BY <2>1 DEF MarkQueued, Write
    <3>3. dispatch' = [dispatch EXCEPT ![t] = IF via[t] = "rest" THEN "returned" ELSE "done"]
      BY <2>1, SMTT(30) DEF MarkQueued
    <3>4. QED
      BY <3>1, <3>2, <3>3 DEF Absent
  <2>2. CASE ~MarkQueued(t)
    <3>1. /\ dispatch'[t] # "returned"
          /\ \A u \in Tasks \ {t} : dispatch'[u] = dispatch[u] /\ draft'[u] = draft[u]
      BY <1>1, <2>2, Zenon DEF DispatchStep, CreateTask, StartWorkflow, StartWorkflowFails,
         SpawnHostMissing, PublishFails, Commit, Publish, Write, Fail
    <3>2. QED
      BY <3>1
  <2>3. QED
    BY <2>1, <2>2, Zenon
<1>2. CASE UNCHANGED <<dispatch, draft>>
  BY <1>2, Zenon
<1>3. QED
  BY <1>1, <1>2, ZenonT(30) DEF Next, StatusHandler, ApplyRun, ApplyStatus, Worker, ResolveResult,
     CancelTask, LoseEvent, vars, serverVars

\* The worker decides a result once
LEMMA WorkerDecides ==
    ASSUME WorkerInv, WorkerStep
    PROVE  \/ UNCHANGED result
           \/ \E t \in Tasks : /\ result[t] = NoResult
                               /\ \E o \in Results : result' = [result EXCEPT ![t] = o]
<1> USE DEF WorkerInv, WorkerTypeOK, Phases, Before
<1>1. CASE ReceiveEstopped \/ ReceiveAdmitted \/ SignalRejected \/ EstopMessage
  BY <1>1 DEF ReceiveEstopped, ReceiveAdmitted, SignalRejected, EstopMessage
<1>2. CASE ReceiveSaturated
  <2>1. Head(inbox) \in Tasks /\ pc[Head(inbox)] = "new"
    BY <1>2, HeadIsNew, Zenon DEF ReceiveSaturated
  <2>2. QED
    BY <1>2, <2>1, Zenon DEF ReceiveSaturated, Results, Terminal
<1>3. ASSUME NEW t \in Tasks, ExecuteTask(t)
      PROVE  \/ UNCHANGED result
             \/ /\ result[t] = NoResult
                /\ \E o \in Results : result' = [result EXCEPT ![t] = o]
  <2>1. CASE Refuse(t) \/ EstopTurn(t) \/ TimeOut(t)
    BY <2>1, SMTT(30) DEF Refuse, EstopTurn, TimeOut, Results, Terminal
  <2>2. ASSUME NEW r \in Results, AgentEnds(t, r)
        PROVE  result[t] = NoResult /\ result' = [result EXCEPT ![t] = r]
    BY <2>2, Zenon DEF AgentEnds
  <2>3. CASE Prepare(t) \/ Launch(t) \/ FirstPoll(t) \/ Report(t) \/ SignalResult(t)
             \/ CleanUp(t)
    BY <2>3, SMTT(30) DEF Prepare, Launch, FirstPoll, Report, SignalResult, CleanUp
  <2>4. QED
    BY <1>3, <2>1, <2>2, <2>3, Zenon DEF ExecuteTask
<1>4. QED
  BY <1>1, <1>2, <1>3, Zenon DEF WorkerStep, MainLoop

\* A dispatch files its task or starts its workflow, one at a time
LEMMA DispatchRecords ==
    ASSUME WorkerInv, ServerInv, Drafted, NEW t \in Tasks, DispatchStep(t)
    PROVE  /\ UNCHANGED <<result, run>>
           /\ \/ UNCHANGED <<OnFile, flow>>
              \/ UNCHANGED flow /\ t \notin OnFile /\ OnFile' = OnFile \union {t}
              \/ /\ UNCHANGED OnFile /\ flow[t] = "none"
                 /\ flow' = [flow EXCEPT ![t] = "awaiting"]
<1>1. UNCHANGED <<result, run>>
  BY Zenon DEF DispatchStep, Only, CreateTask, StartWorkflow, StartWorkflowFails,
     SpawnHostMissing, PublishFails, MarkQueued, Commit, Publish
<1>2. /\ row \in [Tasks -> Statuses \union {Absent}]
      /\ draft \in [Tasks -> Statuses \union {Absent}]
      /\ flow \in [Tasks -> {"none", "awaiting"} \union Terminal]
      /\ via[t] # "rest" /\ dispatch[t] # "idle" => row[t] # Absent
      /\ dispatch[t] = "returned" => draft[t] # Absent
  BY DEF ServerInv, ServerTypeOK, PathsKept, Drafted
<1>3. ASSUME NEW s, row' = [row EXCEPT ![t] = s], s # Absent
      PROVE  UNCHANGED OnFile \/ (t \notin OnFile /\ OnFile' = OnFile \union {t})
  BY <1>2, <1>3 DEF OnFile
<1>4. ASSUME UNCHANGED row PROVE UNCHANGED OnFile
  BY <1>4 DEF OnFile
<1>5. CASE CreateTask(t) \/ MarkQueued(t) \/ Commit(t)
  <2>1. UNCHANGED flow
    BY <1>5, SMTT(30) DEF CreateTask, MarkQueued, Commit
  <2>2. UNCHANGED row \/ \E s : row' = [row EXCEPT ![t] = s] /\ s # Absent
    BY <1>2, <1>5 DEF CreateTask, MarkQueued, Commit, Write, Absent
  <2>3. QED
    BY <1>1, <1>3, <1>4, <2>1, <2>2, SMTT(30)
<1>6. CASE StartWorkflow(t) \/ StartWorkflowFails(t)
  <2>1. dispatch[t] = "created" /\ (flow' = flow \/ flow' = [flow EXCEPT ![t] = "awaiting"])
    BY <1>6 DEF StartWorkflow, StartWorkflowFails
  <2>2. flow[t] \in {"none", "awaiting"}
    <3>1. pc[t] = "new"
      BY <2>1 DEF ServerInv, SentFirst, Sent
    <3>2. QED
      BY <1>2, <3>1, Zenon DEF ServerInv, FlowsTrue, Reported
  <2>3. UNCHANGED OnFile
    <3>1. UNCHANGED row \/ (row[t] # Absent /\ row' = [row EXCEPT ![t] = "failed"])
      BY <1>2, <1>6, <2>1, Zenon DEF StartWorkflow, StartWorkflowFails, Fail
    <3>2. QED
      BY <1>2, <3>1 DEF OnFile, Absent
  <2>4. flow[t] = "awaiting" => [flow EXCEPT ![t] = "awaiting"] = flow
    BY <1>2
  <2>5. QED
    BY <1>1, <2>1, <2>2, <2>3, <2>4, SMTT(30)
<1>7. CASE SpawnHostMissing(t) \/ Publish(t) \/ PublishFails(t)
  <2>1. UNCHANGED flow /\ dispatch[t] = "started"
    BY <1>7, SMTT(30) DEF SpawnHostMissing, Publish, PublishFails
  <2>2. UNCHANGED row \/ (row[t] # Absent /\ row' = [row EXCEPT ![t] = "failed"])
    <3>1. CASE SpawnHostMissing(t) \/ Publish(t)
      BY <3>1, Zenon DEF SpawnHostMissing, Publish
    <3>2. CASE PublishFails(t)
      <4>1. UNCHANGED row \/ Fail(t)
        BY <3>2, Zenon DEF PublishFails
      <4>2. Fail(t) /\ via[t] = "rest" => UNCHANGED row
        BY Zenon DEF Fail
      <4>3. Fail(t) /\ via[t] # "rest" => row' = [row EXCEPT ![t] = "failed"]
        BY Zenon DEF Fail
      <4>4. via[t] # "rest" => row[t] # Absent
        BY <1>2, <2>1, Zenon
      <4>5. QED
        BY <4>1, <4>2, <4>3, <4>4, Zenon
    <3>3. QED
      BY <1>7, <3>1, <3>2, Zenon
  <2>3. UNCHANGED OnFile
    BY <1>2, <2>2 DEF OnFile, Absent
  <2>4. QED
    BY <1>1, <2>1, <2>3, SMTT(30)
<1>8. QED
  BY <1>5, <1>6, <1>7 DEF DispatchStep

\* Every step of dispatch, worker, status handler and workflow is a step of the
\* records or a stutter
LEMMA RecordsStep ==
    ASSUME WorkerInv, ServerInv, Drafted, [Next]_vars
    PROVE  [Records!Next]_(Records!vars)
<1> USE DEF Records!Next, Records!vars
<1>1. ASSUME NEW t \in Tasks, DispatchStep(t)
      PROVE  [Records!Next]_(Records!vars)
  BY <1>1, DispatchRecords, Zenon DEF Records!File, Records!Await
<1>2. CASE Only("events") /\ ApplyRun
  <2> DEFINE h == Head(events)
  <2>1. /\ events # <<>> /\ events' = Tail(events)
        /\ UNCHANGED <<pc, result, row, flow>>
        /\ run' = [run EXCEPT ![h.task] = RecordRun(h.task, h.status)]
    BY <1>2, ZenonT(30) DEF Only, ApplyRun
  <2>2. /\ h \in Events /\ ~Quiet(h.task)
        /\ h.status # "running" =>
              h.status = result[h.task] /\ pc[h.task] \in Reported
    BY <2>1, WireTail
  <2>3. h.task \in Tasks /\ h.status \in Results \union {"running"}
    BY <2>2 DEF Events
  <2>4. /\ run \in [Tasks -> {"none", "open"} \union Terminal]
        /\ run[h.task] \in {"none", "open"}
    BY <2>2, <2>3, Zenon DEF ServerInv, ServerTypeOK, RunsTrue
  <2>5. UNCHANGED OnFile
    BY <2>1 DEF OnFile
  <2>6. CASE row[h.task] = Absent
    <3>1. run' = run
      BY <2>1, <2>3, <2>4, <2>6 DEF RecordRun
    <3>2. QED
      BY <2>1, <2>5, <3>1
  <2>7. CASE row[h.task] # Absent /\ h.status = "running"
    <3>1. run' = [run EXCEPT ![h.task] = "open"] /\ h.task \in OnFile
      BY <2>1, <2>3, <2>7 DEF RecordRun, OnFile
    <3>2. run[h.task] = "open" => run' = run
      BY <2>3, <2>4, <3>1
    <3>3. QED
      BY <2>1, <2>3, <2>4, <2>5, <3>1, <3>2, Zenon DEF Records!Open
  <2>8. CASE row[h.task] # Absent /\ h.status # "running"
    <3>1. /\ run' = [run EXCEPT ![h.task] = result[h.task]] /\ h.task \in OnFile
          /\ result[h.task] \in Results
      BY <2>1, <2>2, <2>3, <2>8, ZenonT(30) DEF RecordRun, OnFile
    <3>2. QED
      BY <2>1, <2>3, <2>4, <2>5, <3>1, Zenon DEF Records!Close
  <2>9. QED
    BY <2>6, <2>7, <2>8, Zenon
<1>3. CASE Only("none") /\ ApplyStatus
  <2>1. /\ UNCHANGED <<result, run, flow>> /\ applying # NoEvent
        /\ row' = [row EXCEPT ![applying.task] =
                      IF row[applying.task] = Absent THEN Absent ELSE applying.status]
    BY <1>3, Zenon DEF Only, ApplyStatus
  <2>2. applying.task \in Tasks /\ applying.status # Absent
    BY <2>1 DEF ServerInv, ServerTypeOK, Results, Terminal, Absent
  <2>3. UNCHANGED OnFile
    BY <2>1, <2>2 DEF OnFile, ServerInv, ServerTypeOK
  <2>4. QED
    BY <2>1, <2>3
<1>4. CASE Worker \/ (EstopMessage /\ UNCHANGED serverVars)
  <2>1. WorkerStep /\ UNCHANGED <<row, run, flow>>
    BY <1>4 DEF Worker, WorkerStep, serverVars
  <2>2. UNCHANGED OnFile
    BY <2>1 DEF OnFile
  <2>3. QED
    BY <2>1, <2>2, WorkerDecides DEF Records!Decide, NoResult
<1>5. ASSUME NEW t \in Tasks, Only("none"), ResolveResult(t)
      PROVE  [Records!Next]_(Records!vars)
  <2>1. /\ UNCHANGED <<result, row, run>> /\ flow[t] = "awaiting"
        /\ signal[t] \in Results /\ flow' = [flow EXCEPT ![t] = signal[t]]
    BY <1>5, ZenonT(30) DEF Only, ResolveResult
  <2>2. signal[t] = result[t]
    BY <2>1 DEF WorkerInv, Phases, NoResult, Results, Terminal
  <2>3. UNCHANGED OnFile
    BY <2>1 DEF OnFile
  <2>4. QED
    BY <2>1, <2>2, <2>3, Zenon DEF Records!Resolve
<1>6. ASSUME NEW t \in Tasks, Only("none"), CancelTask(t)
      PROVE  UNCHANGED <<OnFile, result, run, flow>>
  <2>1. /\ UNCHANGED <<result, run, flow>> /\ row[t] # Absent
        /\ row' = [row EXCEPT ![t] = "cancelled"]
    BY <1>6 DEF Only, CancelTask
  <2>2. UNCHANGED OnFile
    BY <2>1 DEF OnFile, Absent, ServerInv, ServerTypeOK
  <2>3. QED
    BY <2>1, <2>2
<1>7. CASE Only("events") /\ LoseEvent
  BY <1>7 DEF Only, LoseEvent, OnFile
<1>8. CASE UNCHANGED vars
  BY <1>8 DEF vars, workerVars, serverVars, OnFile
<1>9. QED
  BY <1>1, <1>2, <1>3, <1>4, <1>5, <1>6, <1>7, <1>8, Zenon DEF Next, StatusHandler

\* The task lifecycle implements the task's records: no lost, late or repeated
\* message, failed call, cancellation or late commit settles a run or a promise
\* twice, or otherwise than with what the execution ended with
THEOREM LifecycleKeepsRecords == Spec => ImplementsTaskRecords
<1>1. Init => Records!Init /\ Drafted
  <2> SUFFICES ASSUME WorkerInit, ServerInit
               PROVE  Records!Init /\ Drafted
    BY DEF Init
  <2>1. OnFile = {}
    BY DEF ServerInit, OnFile
  <2>2. QED
    BY <2>1 DEF WorkerInit, ServerInit, Records!Init, Drafted, NoResult
<1>2. IInv /\ Drafted /\ [Next]_vars => Drafted' /\ [Records!Next]_(Records!vars)
  BY DraftedStep, RecordsStep DEF IInv, ServerInv
<1>3. QED
  BY <1>1, <1>2, LifecycleSafe, PTL DEF Spec, ImplementsTaskRecords, Records!Spec
=============================================================================
