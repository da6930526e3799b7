----------------------------- MODULE WorkerEstop -----------------------------
(***************************************************************************)
(* The e-stop path from end to end: the safety daemon watches the          *)
(* heartbeats of all workers; one of them, Self, is modelled with its task *)
(* loop.  An e-stop travels on NATS from the daemon, or from an operator's *)
(* request to the server, to the worker's listener.                        *)
(***************************************************************************)
EXTENDS SafetyDaemon, WorkerTasks

CONSTANT Self   \* the worker whose task loop is modelled

ASSUME SelfAssumption == Self \in Workers

vars == <<daemonVars, workerVars>>

Init == DaemonInit /\ WorkerInit

\* The server publishes an invocation, once for each task
Invoke(t) ==
    /\ pc[t] = "new"
    /\ \A i \in DOMAIN inbox : inbox[i] # t
    /\ inbox' = Append(inbox, t)
    /\ UNCHANGED <<rejecting, pc, slots, copper, version, seen, result, events, signal>>
    /\ UNCHANGED daemonVars

\* POST /v1/hosts/{id}/estop publishes an e-stop for the worker
OperatorEstop ==
    /\ Self \notin stops
    /\ stops' = stops \union {Self}
    /\ UNCHANGED <<beating, tracker, stale, unsent>>
    /\ UNCHANGED workerVars

\* The listener of the worker takes the message
DeliverEstop ==
    /\ Self \in stops
    /\ stops' = stops \ {Self}
    /\ EstopMessage
    /\ UNCHANGED <<beating, tracker, stale, unsent>>

Daemon == DaemonNext /\ UNCHANGED workerVars

Worker == (MainLoop \/ \E t \in Tasks : ExecuteTask(t)) /\ UNCHANGED daemonVars

Next ==
    \/ Daemon
    \/ Worker
    \/ DeliverEstop
    \/ OperatorEstop
    \/ \E t \in Tasks : Invoke(t)

Spec == Init /\ [][Next]_vars

\* Beats are sent every five seconds and time passes; the two branches of the
\* daemon's select are both polled; NATS delivers what was published; the
\* executor of the worker runs every task that is ready.  Nothing makes an
\* operator press the button, a worker fall silent or recover, or the server
\* send a task.
Fairness ==
    /\ \A w \in Workers :
          WF_vars((Heartbeat(w) \/ Age(w)) /\ UNCHANGED workerVars)
    /\ WF_vars((\E failed \in SUBSET Workers : StopStale(failed)) /\ UNCHANGED workerVars)
    /\ WF_vars(DeliverEstop)
    /\ WF_vars(MainLoop /\ UNCHANGED daemonVars)
    /\ \A t \in Tasks : WF_vars(ExecuteTask(t) /\ UNCHANGED daemonVars)

FairSpec == Spec /\ Fairness
-----------------------------------------------------------------------------
TypeOK == DaemonTypeOK /\ WorkerTypeOK

\* The e-stop is never missed between the check in the main loop and the turn:
\* once the latch is set no turn gets past its first poll, and no turn that was
\* already running ends as a time-out.
NoTurnUnderEstop ==
    [][Estopped => \A t \in Tasks :
          /\ pc'[t] = "turn" => pc[t] = "turn"
          /\ result'[t] = "timed_out" => result[t] = "timed_out"]_vars

\* "when true, the worker must halt": after an e-stop every Copper loop is
\* eventually stopped for good and no turn runs any more.
EstopHalts ==
    Estopped ~> [](copper = {} /\ \A t \in Tasks : pc[t] # "turn")

\* A task the worker has taken on comes to its end: execute_task returns, its
\* slot is free again and the result was sent to the workflow.
AdmittedAnswered ==
    \A t \in Tasks :
       pc[t] = "admitted" ~> pc[t] = "done" /\ signal[t] # NoResult

\* A silent worker is stopped: when the entry of Self has gone stale, the e-stop
\* arrives, its publication failed and was logged, or Self has beaten again.
\* It takes another worker that keeps beating (Steady).
SilentWorkerStops ==
    tracker[Self] = "stale" ~> \/ Estopped
                               \/ Self \in unsent
                               \/ tracker[Self] = "fresh"
=============================================================================
