----------------------------- MODULE WorkerTasks -----------------------------
(***************************************************************************)
(* The task loop of a worker (roz-worker main.rs): the invocations it      *)
(* receives, the slots that admit them, execute_task from validation to    *)
(* clean-up, the Copper loop a task may own, and the e-stop latch.         *)
(*                                                                         *)
(* The e-stop is a tokio watch channel: `version` counts the values sent   *)
(* (every one of them true), `seen` is the version the receiver of each    *)
(* task has taken note of.  main only borrows the value, which marks       *)
(* nothing as seen, so the receivers it clones still report the change.    *)
(*                                                                         *)
(* What a turn computes is left out; how it ends is a choice.  The         *)
(* invocations are the ones the server builds, so they deserialize.        *)
(***************************************************************************)
EXTENDS Integers, Sequences, FiniteSets

CONSTANTS
    Tasks,          \* task ids
    Ooda,           \* the tasks of mode OodaReAct, which own a Copper loop
    MaxConcurrent,  \* max_concurrent_tasks
    MaxEstops,      \* bound: e-stop messages that arrive
    NoTask          \* not a task

ASSUME TasksAssumption == NoTask \notin Tasks /\ Ooda \subseteq Tasks
ASSUME SlotsAssumption == MaxConcurrent \in Nat
ASSUME EstopsAssumption == MaxEstops \in Nat

VARIABLES
    inbox,      \* the invocations on invoke.{worker}.> not yet received
    rejecting,  \* the task whose rejection the main loop signals, or NoTask
    pc,         \* where each task stands
    slots,      \* the free permits of task_slots
    copper,     \* the tasks whose CopperHandle is live
    version,    \* the version of the e-stop watch channel
    seen,       \* the version each task's receiver has seen
    result,     \* the terminal status of each task
    events,     \* the task status events on the wire, in order
    signal      \* what deliver_result brought to the workflow

workerVars ==
    <<inbox, rejecting, pc, slots, copper, version, seen, result, events, signal>>

Terminal == {"succeeded", "failed", "timed_out", "cancelled", "safety_stop"}
NoResult == "none"
\* What the worker reports: nothing cancels the token of a task but its own
\* time-out and e-stop branches, whose results say so
Results == Terminal \ {"cancelled"}

Steps ==
    {"new", "admitted", "starting", "launched", "turn", "ended",
     "reported", "signalled", "done", "ignored", "rejected"}

\* The steps of a spawned execute_task, which holds a permit until it returns
Holding ==
    {"admitted", "starting", "launched", "turn", "ended", "reported", "signalled"}

Event(t, s) == [task |-> t, status |-> s]

Estopped == version > 0

\* estop_rx.changed() is ready
Changed(t) == version # seen[t]

WorkerTypeOK ==
    /\ inbox \in Seq(Tasks)
    /\ rejecting \in Tasks \union {NoTask}
    /\ pc \in [Tasks -> Steps]
    /\ slots \in 0 .. MaxConcurrent
    /\ copper \subseteq Ooda
    /\ version \in 0 .. MaxEstops
    /\ seen \in [Tasks -> 0 .. MaxEstops]
    /\ result \in [Tasks -> Results \union {NoResult}]
    /\ events \in Seq([task : Tasks, status : Results \union {"running"}])
    /\ signal \in [Tasks -> Results \union {NoResult, "lost"}]

WorkerInit ==
    /\ inbox = <<>>
    /\ rejecting = NoTask
    /\ pc = [t \in Tasks |-> "new"]
    /\ slots = MaxConcurrent
    /\ copper = {}
    /\ version = 0
    /\ seen = [t \in Tasks |-> 0]
    /\ result = [t \in Tasks |-> NoResult]
    /\ events = <<>>
    /\ signal = [t \in Tasks |-> NoResult]
-----------------------------------------------------------------------------
\* The main loop

\* An invocation under a latched e-stop is dropped without an answer
ReceiveEstopped ==
    /\ rejecting = NoTask
    /\ inbox # <<>>
    /\ Estopped
    /\ pc' = [pc EXCEPT ![Head(inbox)] = "ignored"]
    /\ inbox' = Tail(inbox)
    /\ UNCHANGED <<rejecting, slots, copper, version, seen, result, events, signal>>

\* No free slot: "failed" is published, and the loop goes on to signal it
ReceiveSaturated ==
    /\ rejecting = NoTask
    /\ inbox # <<>>
    /\ ~Estopped
    /\ slots = 0
    /\ LET t == Head(inbox) IN
       /\ pc' = [pc EXCEPT ![t] = "rejected"]
       /\ result' = [result EXCEPT ![t] = "failed"]
       /\ events' = Append(events, Event(t, "failed"))
       /\ rejecting' = t
    /\ inbox' = Tail(inbox)
    /\ UNCHANGED <<slots, copper, version, seen, signal>>

\* Mutant: the task goes on without taking a permit
AdmitWithoutPermit ==
    /\ rejecting = NoTask
    /\ inbox # <<>>
    /\ ~Estopped
    /\ slots > 0
    /\ pc' = [pc EXCEPT ![Head(inbox)] = "admitted"]
    /\ inbox' = Tail(inbox)
    /\ UNCHANGED <<rejecting, slots, copper, version, seen, result, events, signal>>

\* A permit is taken and execute_task spawned with a clone of the receiver
ReceiveAdmitted ==
    /\ rejecting = NoTask
    /\ inbox # <<>>
    /\ ~Estopped
    /\ slots > 0
    /\ slots' = slots - 1
    /\ pc' = [pc EXCEPT ![Head(inbox)] = "admitted"]
    /\ inbox' = Tail(inbox)
    /\ UNCHANGED <<rejecting, copper, version, seen, result, events, signal>>

\* signal_result: the HTTP call fails or brings the result to the workflow
Deliver(t) ==
    \/ signal' = [signal EXCEPT ![t] = result[t]]
    \/ signal' = [signal EXCEPT ![t] = "lost"]

SignalRejected ==
    /\ rejecting # NoTask
    /\ Deliver(rejecting)
    /\ rejecting' = NoTask
    /\ UNCHANGED <<inbox, pc, slots, copper, version, seen, result, events>>
-----------------------------------------------------------------------------
\* execute_task

\* A child without delegation scope, a bad manifest or a model that cannot be
\* built: "failed" is published
Refuse(t) ==
    /\ pc[t] = "admitted"
    /\ pc' = [pc EXCEPT ![t] = "reported"]
    /\ result' = [result EXCEPT ![t] = "failed"]
    /\ events' = Append(events, Event(t, "failed"))
    /\ UNCHANGED <<inbox, rejecting, slots, copper, version, seen, signal>>

\* The Copper loop of an OODA task is spawned, the tools and the session set up
Prepare(t) ==
    /\ pc[t] = "admitted"
    /\ pc' = [pc EXCEPT ![t] = "starting"]
    /\ copper' = copper \union ({t} \intersect Ooda)
    /\ UNCHANGED <<inbox, rejecting, slots, version, seen, result, events, signal>>

\* Mutant: the clone of the receiver counts the current value as seen
LaunchMarkingSeen(t) ==
    /\ pc[t] = "starting"
    /\ pc' = [pc EXCEPT ![t] = "launched"]
    /\ seen' = [seen EXCEPT ![t] = version]
    /\ events' = Append(events, Event(t, "running"))
    /\ UNCHANGED <<inbox, rejecting, slots, copper, version, result, signal>>

\* "running" is published; the turn is created with another clone of the receiver
Launch(t) ==
    /\ pc[t] = "starting"
    /\ pc' = [pc EXCEPT ![t] = "launched"]
    /\ events' = Append(events, Event(t, "running"))
    /\ UNCHANGED <<inbox, rejecting, slots, copper, version, seen, result, signal>>

\* Mutant: only a turn that was polled before looks at the e-stop
EstopTurnPolled(t) ==
    /\ pc[t] = "turn"
    /\ Changed(t)
    /\ seen' = [seen EXCEPT ![t] = version]
    /\ pc' = [pc EXCEPT ![t] = "ended"]
    /\ result' = [result EXCEPT ![t] = "safety_stop"]
    /\ copper' = copper \ {t}
    /\ UNCHANGED <<inbox, rejecting, slots, version, events, signal>>

\* The e-stop branch of the turn's select: the turn fails with SafetyBlocked and
\* the Copper handle is dropped at once
EstopTurn(t) ==
    /\ pc[t] \in {"launched", "turn"}
    /\ Changed(t)
    /\ seen' = [seen EXCEPT ![t] = version]
    /\ pc' = [pc EXCEPT ![t] = "ended"]
    /\ result' = [result EXCEPT ![t] = "safety_stop"]
    /\ copper' = copper \ {t}
    /\ UNCHANGED <<inbox, rejecting, slots, version, events, signal>>

\* The first poll of the select, in which the model call is never finished
FirstPoll(t) ==
    /\ pc[t] = "launched"
    /\ ~Changed(t)
    /\ pc' = [pc EXCEPT ![t] = "turn"]
    /\ UNCHANGED <<inbox, rejecting, slots, copper, version, seen, result, events, signal>>

\* The agent ends by itself.  An error under a latched e-stop drops the Copper
\* handle, and a SafetyBlocked error is then reported as a safety stop
AgentEnds(t, r) ==
    /\ pc[t] = "turn"
    /\ r \in {"succeeded", "failed"} \union (IF Estopped THEN {"safety_stop"} ELSE {})
    /\ pc' = [pc EXCEPT ![t] = "ended"]
    /\ result' = [result EXCEPT ![t] = r]
    /\ copper' = IF Estopped /\ r # "succeeded" THEN copper \ {t} ELSE copper
    /\ UNCHANGED <<inbox, rejecting, slots, version, seen, events, signal>>

\* tokio::time::timeout polls the turn first: it fires when no branch is ready
TimeOut(t) ==
    /\ pc[t] = "turn"
    /\ ~Changed(t)
    /\ pc' = [pc EXCEPT ![t] = "ended"]
    /\ result' = [result EXCEPT ![t] = "timed_out"]
    /\ UNCHANGED <<inbox, rejecting, slots, copper, version, seen, events, signal>>

\* Mutant: a safety stop is published as a failure
ReportFailure(t) ==
    /\ pc[t] = "ended"
    /\ pc' = [pc EXCEPT ![t] = "reported"]
    /\ events' = Append(events,
          Event(t, IF result[t] = "safety_stop" THEN "failed" ELSE result[t]))
    /\ UNCHANGED <<inbox, rejecting, slots, copper, version, seen, result, signal>>

\* The terminal status is published
Report(t) ==
    /\ pc[t] = "ended"
    /\ pc' = [pc EXCEPT ![t] = "reported"]
    /\ events' = Append(events, Event(t, result[t]))
    /\ UNCHANGED <<inbox, rejecting, slots, copper, version, seen, result, signal>>

SignalResult(t) ==
    /\ pc[t] = "reported"
    /\ Deliver(t)
    /\ pc' = [pc EXCEPT ![t] = "signalled"]
    /\ UNCHANGED <<inbox, rejecting, slots, copper, version, seen, result, events>>

\* Mutant: the task returns without shutting its Copper loop down
CleanUpLeaking(t) ==
    /\ pc[t] = "signalled"
    /\ pc' = [pc EXCEPT ![t] = "done"]
    /\ slots' = slots + 1
    /\ UNCHANGED <<inbox, rejecting, copper, version, seen, result, events, signal>>

\* Mutant: the shutdown waits for a Copper loop the e-stop has already dropped
CleanUpWaiting(t) ==
    /\ pc[t] = "signalled"
    /\ t \in Ooda => t \in copper
    /\ pc' = [pc EXCEPT ![t] = "done"]
    /\ copper' = copper \ {t}
    /\ slots' = slots + 1
    /\ UNCHANGED <<inbox, rejecting, version, seen, result, events, signal>>

\* The Copper loop is shut down, the turns are flushed and the permit returned
CleanUp(t) ==
    /\ pc[t] = "signalled"
    /\ pc' = [pc EXCEPT ![t] = "done"]
    /\ copper' = copper \ {t}
    /\ slots' = slots + 1
    /\ UNCHANGED <<inbox, rejecting, version, seen, result, events, signal>>

ExecuteTask(t) ==
    \/ Refuse(t) \/ Prepare(t) \/ Launch(t)
    \/ FirstPoll(t) \/ EstopTurn(t) \/ TimeOut(t)
    \/ \E r \in Results : AgentEnds(t, r)
    \/ Report(t) \/ SignalResult(t) \/ CleanUp(t)

MainLoop ==
    ReceiveEstopped \/ ReceiveSaturated \/ ReceiveAdmitted \/ SignalRejected

\* spawn_estop_listener: every message, and the end of the subscription, sends true
EstopMessage ==
    /\ version < MaxEstops
    /\ version' = version + 1
    /\ UNCHANGED <<inbox, rejecting, pc, slots, copper, seen, result, events, signal>>
-----------------------------------------------------------------------------
\* The permits are conserved: a slot is free exactly when no spawned
\* execute_task holds it, so no more than max_concurrent_tasks tasks run and
\* none of the ways out of execute_task loses a slot.
PermitsConserved ==
    slots + Cardinality({t \in Tasks : pc[t] \in Holding}) = MaxConcurrent

\* A Copper loop never outlives its task: a live CopperHandle belongs to a task
\* that was set up and still holds its permit, on every way out of execute_task.
CopperHasOwner ==
    \A t \in copper : pc[t] \in Holding \ {"admitted"}

\* What the workflow learns agrees with the status event on NATS: both carry
\* the task's one result, and neither is sent before the result is known.
AnswersAgree ==
    \A t \in Tasks :
       /\ signal[t] \in {NoResult, "lost", result[t]}
       /\ \A i \in DOMAIN events :
             events[i].task = t => events[i].status \in {"running", result[t]}
       /\ pc[t] \in {"signalled", "done"} => signal[t] # NoResult
=============================================================================
