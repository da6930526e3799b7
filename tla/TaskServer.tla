----------------------------- MODULE TaskServer -----------------------------
(***************************************************************************)
(* The server's side of a task: the three ways a task is dispatched        *)
(* (roz-server routes/task_dispatch.rs and nats_handlers.rs), the handler  *)
(* of the status events of the workers, cancellation, and the durable      *)
(* workflow that awaits the result (restate/task_workflow.rs).             *)
(*                                                                         *)
(*   rest   POST /v1/tasks, and the scheduler: dispatch_task inside a      *)
(*          transaction, which the others see when it commits              *)
(*   grpc   CreateTask: dispatch_task on a connection that commits every   *)
(*          statement                                                      *)
(*   spawn  a child task an agent asks for over NATS                       *)
(*                                                                         *)
(* A row is the status of a task as other connections see it, `draft` the  *)
(* status inside the open transaction.  The invocation goes to `inbox`,    *)
(* the status events arrive in `events`, the results in `signal`: the      *)
(* three channels are the worker's variables.                              *)
(***************************************************************************)
EXTENDS WorkerTasks

CONSTANT Faulty     \* bound: the tasks that faults and cancellations happen to;
                    \* the others are child tasks that compete for the slots

ASSUME FaultyAssumption == Faulty \subseteq Tasks

VARIABLES
    via,        \* the way each task is dispatched
    row,        \* roz_tasks.status as committed
    draft,      \* roz_tasks.status in the transaction of a rest task
    dispatch,   \* where the dispatch of each task stands
    run,        \* roz_task_runs: the task's run, open or with its status
    flow,       \* TaskWorkflow: awaiting the result, or its outcome
    applying,   \* the status event whose run is recorded, its status not yet
    cancels,    \* the tasks an operator has cancelled
    missed      \* the tasks a status event of which was lost

serverVars == <<via, row, draft, dispatch, run, flow, applying, cancels, missed>>

Paths == {"rest", "grpc", "spawn"}
Absent == "absent"
Statuses == {"pending", "queued", "running"} \union Terminal
DispatchSteps == {"idle", "created", "started", "published", "returned", "done", "failed"}
NoEvent == [task |-> NoTask, status |-> "none"]

ServerTypeOK ==
    /\ via \in [Tasks -> Paths]
    /\ row \in [Tasks -> Statuses \union {Absent}]
    /\ draft \in [Tasks -> Statuses \union {Absent}]
    /\ dispatch \in [Tasks -> DispatchSteps]
    /\ run \in [Tasks -> {"none", "open"} \union Terminal]
    /\ flow \in [Tasks -> {"none", "awaiting"} \union Terminal]
    /\ applying \in [task : Tasks, status : Results \union {"running"}] \union {NoEvent}
    /\ cancels \subseteq Tasks
    /\ missed \subseteq Tasks

ServerInit ==
    /\ via \in [Tasks -> Paths]
    /\ \A t \in Tasks \ Faulty : via[t] = "spawn"
    /\ row = [t \in Tasks |-> Absent]
    /\ draft = [t \in Tasks |-> Absent]
    /\ dispatch = [t \in Tasks |-> "idle"]
    /\ run = [t \in Tasks |-> "none"]
    /\ flow = [t \in Tasks |-> "none"]
    /\ applying = NoEvent
    /\ cancels = {}
    /\ missed = {}
-----------------------------------------------------------------------------
\* Dispatch

\* A write of the dispatching connection: into the transaction of a rest task
Write(t, s) ==
    IF via[t] = "rest"
    THEN draft' = [draft EXCEPT ![t] = s] /\ UNCHANGED row
    ELSE row' = [row EXCEPT ![t] = s] /\ UNCHANGED draft

\* An error return of dispatch_task: "failed" is written; the error response
\* makes the middleware roll the transaction of a rest task back
Fail(t) ==
    /\ dispatch' = [dispatch EXCEPT ![t] = "failed"]
    /\ IF via[t] = "rest"
       THEN draft' = [draft EXCEPT ![t] = Absent] /\ UNCHANGED row
       ELSE row' = [row EXCEPT ![t] = "failed"] /\ UNCHANGED draft

\* The request is valid: the row is inserted and the host assigned
CreateTask(t) ==
    /\ dispatch[t] = "idle"
    /\ dispatch' = [dispatch EXCEPT ![t] = "created"]
    /\ Write(t, "pending")
    /\ UNCHANGED <<via, run, flow, applying, cancels, missed>>

StartWorkflow(t) ==
    /\ dispatch[t] = "created"
    /\ flow' = [flow EXCEPT ![t] = "awaiting"]
    /\ dispatch' = [dispatch EXCEPT ![t] = "started"]
    /\ UNCHANGED <<via, row, draft, run, applying, cancels, missed>>

\* The call fails; Restate may have accepted it all the same.  The spawn
\* handler only logs that and goes on
StartWorkflowFails(t) ==
    /\ t \in Faulty
    /\ dispatch[t] = "created"
    /\ \/ flow' = [flow EXCEPT ![t] = "awaiting"]
       \/ UNCHANGED flow
    /\ IF via[t] = "spawn"
       THEN /\ dispatch' = [dispatch EXCEPT ![t] = "started"]
            /\ UNCHANGED <<row, draft>>
       ELSE Fail(t)
    /\ UNCHANGED <<via, run, applying, cancels, missed>>

\* Spawn: the host is not known; the caller gets an error, the row stays
SpawnHostMissing(t) ==
    /\ t \in Faulty
    /\ dispatch[t] = "started"
    /\ via[t] = "spawn"
    /\ dispatch' = [dispatch EXCEPT ![t] = "failed"]
    /\ UNCHANGED <<via, row, draft, run, flow, applying, cancels, missed>>

\* Mutant: the spawn handler goes on to mark its task queued, as dispatch_task does
PublishThenQueue(t) ==
    /\ dispatch[t] = "started"
    /\ \/ inbox' = Append(inbox, t)
       \/ t \in Faulty /\ UNCHANGED inbox
    /\ dispatch' = [dispatch EXCEPT ![t] = "published"]
    /\ UNCHANGED <<via, row, draft, run, flow, applying, cancels, missed>>

\* The invocation is published; without a subscriber it is lost
Publish(t) ==
    /\ dispatch[t] = "started"
    /\ \/ inbox' = Append(inbox, t)
       \/ t \in Faulty /\ UNCHANGED inbox
    /\ dispatch' = [dispatch EXCEPT
                       ![t] = IF via[t] = "spawn" THEN "done" ELSE "published"]
    /\ UNCHANGED <<via, row, draft, run, flow, applying, cancels, missed>>

PublishFails(t) ==
    /\ t \in Faulty
    /\ dispatch[t] = "started"
    /\ IF via[t] = "spawn"
       THEN /\ dispatch' = [dispatch EXCEPT ![t] = "done"]
            /\ UNCHANGED <<row, draft>>
       ELSE Fail(t)
    /\ UNCHANGED <<via, run, flow, applying, cancels, missed>>

\* The last write of dispatch_task, after the worker may have reported
MarkQueued(t) ==
    /\ dispatch[t] = "published"
    /\ Write(t, "queued")
    /\ dispatch' = [dispatch EXCEPT
                       ![t] = IF via[t] = "rest" THEN "returned" ELSE "done"]
    /\ UNCHANGED <<via, run, flow, applying, cancels, missed>>

\* tx_layer: the response is a success, so the transaction commits, or fails to
Commit(t) ==
    /\ dispatch[t] = "returned"
    /\ dispatch' = [dispatch EXCEPT ![t] = "done"]
    /\ \/ row' = [row EXCEPT ![t] = draft[t]]
       \/ t \in Faulty /\ UNCHANGED row
    /\ draft' = [draft EXCEPT ![t] = Absent]
    /\ UNCHANGED <<via, run, flow, applying, cancels, missed>>
-----------------------------------------------------------------------------
\* The status handler, one event at a time

\* Mutant: a terminal event leaves the run of the task open
EnsureRunOnly(t, s) ==
    IF row[t] = Absent THEN run[t]
    ELSE IF run[t] \in {"none", "open"} THEN "open" ELSE run[t]

\* ensure_active_run for "running"; for a terminal status the active run, made
\* when there is none, is completed.  Neither finds a row that is not committed
RecordRun(t, s) ==
    CASE row[t] = Absent -> run[t]
      [] row[t] # Absent /\ s = "running" -> "open"
      [] OTHER -> s

\* Mutant: the newest event is handled first
ApplyRunNewest ==
    LET n == Len(events) IN
    /\ applying = NoEvent
    /\ n > 0
    /\ applying' = events[n]
    /\ events' = SubSeq(events, 1, n - 1)
    /\ run' = [run EXCEPT ![events[n].task] =
                  RecordRun(events[n].task, events[n].status)]
    /\ UNCHANGED <<via, row, draft, dispatch, flow, cancels, missed>>

\* The next event: its run is recorded
ApplyRun ==
    /\ applying = NoEvent
    /\ events # <<>>
    /\ applying' = Head(events)
    /\ events' = Tail(events)
    /\ run' = [run EXCEPT ![Head(events).task] =
                  RecordRun(Head(events).task, Head(events).status)]
    /\ UNCHANGED <<via, row, draft, dispatch, flow, cancels, missed>>

\* update_status, whatever the row says
ApplyStatus ==
    /\ applying # NoEvent
    /\ row' = [row EXCEPT ![applying.task] =
                  IF row[applying.task] = Absent THEN Absent ELSE applying.status]
    /\ applying' = NoEvent
    /\ UNCHANGED <<via, draft, dispatch, run, flow, cancels, missed>>

\* An event is lost: NATS delivers at most once
LoseEvent ==
    /\ events # <<>>
    /\ Head(events).task \in Faulty
    /\ events' = Tail(events)
    /\ missed' = missed \union {Head(events).task}
    /\ UNCHANGED <<via, row, draft, dispatch, run, flow, applying, cancels>>
-----------------------------------------------------------------------------
\* CancelTask and DELETE /v1/tasks/{id}: the row, and nothing else (bound: once)
CancelTask(t) ==
    /\ t \in Faulty \ cancels
    /\ row[t] # Absent
    /\ row' = [row EXCEPT ![t] = "cancelled"]
    /\ cancels' = cancels \union {t}
    /\ UNCHANGED <<via, draft, dispatch, run, flow, applying, missed>>

\* The workflow's promise is resolved, once
ResolveResult(t) ==
    /\ flow[t] = "awaiting"
    /\ signal[t] \in Results
    /\ flow' = [flow EXCEPT ![t] = signal[t]]
    /\ UNCHANGED <<via, row, draft, dispatch, run, applying, cancels, missed>>
=============================================================================
