---------------------------- MODULE TaskLifecycle ----------------------------
(***************************************************************************)
(* A task from its request to its outcome: TaskServer and the worker's     *)
(* loop joined by the three channels between them (invocations, status     *)
(* events, results), with the faults the code meets: calls that fail,      *)
(* messages that are lost, transactions that commit late or not at all.    *)
(***************************************************************************)
EXTENDS TaskServer

vars == <<workerVars, serverVars>>

Init == WorkerInit /\ ServerInit

\* A server step leaves alone everything of the worker but the channel named
Only(channel) ==
    /\ (channel # "inbox" => UNCHANGED inbox)
    /\ (channel # "events" => UNCHANGED events)
    /\ UNCHANGED <<rejecting, pc, slots, copper, version, seen, result, signal>>

DispatchStep(t) ==
    \/ Only("none") /\ (\/ CreateTask(t) \/ StartWorkflow(t) \/ StartWorkflowFails(t)
                        \/ SpawnHostMissing(t) \/ PublishFails(t)
                        \/ MarkQueued(t) \/ Commit(t))
    \/ Only("inbox") /\ Publish(t)

StatusHandler ==
    \/ Only("events") /\ ApplyRun
    \/ Only("none") /\ ApplyStatus

Worker == (MainLoop \/ \E t \in Tasks : ExecuteTask(t)) /\ UNCHANGED serverVars

Next ==
    \/ \E t \in Tasks : DispatchStep(t)
    \/ StatusHandler
    \/ Worker
    \/ \E t \in Tasks : Only("none") /\ (ResolveResult(t) \/ CancelTask(t))
    \/ Only("events") /\ LoseEvent
    \/ EstopMessage /\ UNCHANGED serverVars

Spec == Init /\ [][Next]_vars
-----------------------------------------------------------------------------
TypeOK == WorkerTypeOK /\ ServerTypeOK

\* The worker and the status handler are through with the task
Settled(t) ==
    /\ result[t] # NoResult
    /\ pc[t] \in {"done", "rejected"}
    /\ applying.task # t
    /\ \A i \in DOMAIN events : events[i].task # t

\* Outcomes never contradict one another: a run that is closed and a workflow
\* that has ended both say what the execution ended with, whatever was lost,
\* late or cancelled on the way.
OutcomesAgree ==
    \A t \in Tasks :
       /\ run[t] \in Terminal => run[t] = result[t]
       /\ flow[t] \in Terminal => flow[t] = result[t]

\* No run stays open behind a finished execution: when the worker is through
\* with a task whose row was committed before the invocation left (every path
\* but the transactional one) and no event was lost, the run is closed.
NoOrphanRun ==
    \A t \in Tasks :
       (via[t] # "rest" /\ Settled(t) /\ t \notin missed) => run[t] = result[t]

\* The status of a child task is its result in the end: no late write of the
\* dispatch overwrites it, unless it was cancelled or an event was lost.
SpawnedStatusFinal ==
    \A t \in Tasks :
       (via[t] = "spawn" /\ Settled(t) /\ t \notin missed \union cancels)
          => row[t] = result[t]

\* Dispatch, status events and cancellations, faults included, keep the task's
\* records: a row that was committed stays, the run and the workflow's promise
\* are settled once and for all with what the execution ended with
OnFile == {t \in Tasks : row[t] # Absent}

Records == INSTANCE TaskRecords
    WITH Outcomes <- Results, filed <- OnFile, outcome <- result, promise <- flow

ImplementsTaskRecords == Records!Spec
=============================================================================
