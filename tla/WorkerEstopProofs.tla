-------------------------- MODULE WorkerEstopProofs --------------------------
(***************************************************************************)
(* The worker among its daemon, its server and its operator: the invariant *)
(* of WorkerTasksProofs holds there, and with it no turn starts, and none  *)
(* times out, once the e-stop is latched.                                  *)
(***************************************************************************)
EXTENDS WorkerEstop, WorkerTasksProofs

IInv == DaemonTypeOK /\ WorkerInv

\* The list that try_send leaves in the channel still fits
LEMMA TrySendFits ==
    ASSUME NEW q \in Seq(SUBSET Workers), Len(q) =< StaleCapacity,
           NEW ids \in SUBSET Workers
    PROVE  /\ TrySend(q, ids) \in Seq(SUBSET Workers)
           /\ Len(TrySend(q, ids)) =< StaleCapacity
<1>1. CASE ids = {} \/ Len(q) >= StaleCapacity
  BY <1>1 DEF TrySend
<1>2. CASE ~(ids = {} \/ Len(q) >= StaleCapacity)
  <2>1. TrySend(q, ids) = Append(q, ids)
    BY <1>2 DEF TrySend
  <2>2. /\ Append(q, ids) \in Seq(SUBSET Workers)
        /\ Len(Append(q, ids)) = Len(q) + 1 /\ Len(q) \in Nat
    OBVIOUS
  <2>3. QED
    BY <1>2, <2>1, <2>2, CapacityAssumption
<1>3. QED
  BY <1>1, <1>2

\* The daemon keeps its types
LEMMA DaemonTypeStep == DaemonTypeOK /\ DaemonNext => DaemonTypeOK'
<1> SUFFICES ASSUME DaemonTypeOK, DaemonNext
             PROVE  DaemonTypeOK'
  OBVIOUS
<1> USE DEF DaemonTypeOK, Ages
<1>1. ASSUME NEW w \in Workers, Heartbeat(w)
      PROVE  DaemonTypeOK'
  <2>1. tracker' \in [Workers -> Ages]
    BY <1>1 DEF Heartbeat
  <2>2. stale' \in Seq(SUBSET Workers) /\ Len(stale') =< StaleCapacity
    BY <1>1, TrySendFits DEF Heartbeat, StaleWorkers
  <2>3. QED
    BY <1>1, <2>1, <2>2 DEF Heartbeat
<1>2. ASSUME NEW w \in Workers, Age(w)
      PROVE  DaemonTypeOK'
  BY <1>2 DEF Age
<1>3. ASSUME NEW w \in Workers, FallSilent(w)
      PROVE  DaemonTypeOK'
  BY <1>3 DEF FallSilent
<1>4. ASSUME NEW w \in Workers, Recover(w)
      PROVE  DaemonTypeOK'
  BY <1>4 DEF Recover
<1>5. ASSUME NEW failed \in SUBSET Workers, StopStale(failed)
      PROVE  DaemonTypeOK'
  <2>1. /\ Head(stale) \in SUBSET Workers
        /\ Tail(stale) \in Seq(SUBSET Workers)
        /\ Len(Tail(stale)) = Len(stale) - 1 /\ Len(stale) \in Nat
    BY <1>5 DEF StopStale
  <2>2. stale' \in Seq(SUBSET Workers) /\ Len(stale') =< StaleCapacity
    BY <1>5, <2>1, CapacityAssumption DEF StopStale
  <2>3. tracker' \in [Workers -> Ages]
    BY <1>5 DEF StopStale
  <2>4. QED
    BY <1>5, <2>1, <2>2, <2>3 DEF StopStale
<1>6. QED
  BY <1>1, <1>2, <1>3, <1>4, <1>5 DEF DaemonNext

\* The types, the permits, the owners of the Copper loops and the answers are
\* right at all times, for any number of tasks, slots, workers and e-stops.
THEOREM EstopPathSafe == Spec => []IInv
<1>1. Init => IInv
  <2> SUFFICES ASSUME Init
               PROVE  IInv
    OBVIOUS
  <2>1. DaemonTypeOK
    <3>1. stale \in Seq(SUBSET Workers) /\ Len(stale) = 0
      BY DEF Init, DaemonInit
    <3>2. QED
      BY <3>1, CapacityAssumption DEF Init, DaemonInit, DaemonTypeOK, Ages
  <2>2. QED
    BY <2>1, WorkerInvInit DEF Init, IInv
<1>2. IInv /\ [Next]_vars => IInv'
  <2> SUFFICES ASSUME IInv, [Next]_vars
               PROVE  IInv'
    OBVIOUS
  <2> USE DEF IInv
  <2>1. CASE Daemon
    BY <2>1, DaemonTypeStep, WorkerInvStutter DEF Daemon
  <2>2. CASE Worker
    <3>1. WorkerInv'
      BY <2>2, WorkerInvStep DEF Worker, WorkerStep
    <3>2. DaemonTypeOK'
      BY <2>2 DEF Worker, daemonVars, DaemonTypeOK
    <3>3. QED
      BY <3>1, <3>2
  <2>3. CASE DeliverEstop
    <3>1. WorkerInv'
      BY <2>3, WorkerInvStep DEF DeliverEstop, WorkerStep
    <3>2. DaemonTypeOK'
      BY <2>3 DEF DeliverEstop, DaemonTypeOK
    <3>3. QED
      BY <3>1, <3>2
  <2>4. CASE OperatorEstop
    <3>1. DaemonTypeOK'
      BY <2>4, SelfAssumption DEF OperatorEstop, DaemonTypeOK
    <3>2. QED
      BY <2>4, <3>1, WorkerInvStutter DEF OperatorEstop
  <2>5. ASSUME NEW t \in Tasks, Invoke(t)
        PROVE  IInv'
    <3>1. WorkerInv'
      BY <2>5, WorkerInvInvoke DEF Invoke
    <3>2. DaemonTypeOK'
      BY <2>5 DEF Invoke, daemonVars, DaemonTypeOK
    <3>3. QED
      BY <3>1, <3>2
  <2>6. CASE UNCHANGED vars
    <3>1. UNCHANGED workerVars /\ UNCHANGED daemonVars
      BY <2>6 DEF vars
    <3>2. QED
      BY <3>1, WorkerInvStutter DEF daemonVars, DaemonTypeOK
  <2>7. QED
    BY <2>1, <2>2, <2>3, <2>4, <2>5, <2>6 DEF Next
<1>3. QED
  BY <1>1, <1>2, PTL DEF Spec

\* Every variable of the daemon and of the worker keeps its type; the list of
\* stale workers never outgrows its channel, and the slots stay in range.
THEOREM TypesCorrect == Spec => []TypeOK
  BY EstopPathSafe, PTL DEF IInv, WorkerInv, TypeOK

\* No way through execute_task loses or invents a permit of task_slots.
THEOREM PermitsAreConserved == Spec => []PermitsConserved
<1>1. IInv => PermitsConserved
  BY WorkerInvGives DEF IInv
<1>2. QED
  BY <1>1, EstopPathSafe, PTL

\* A live CopperHandle belongs to a task that still holds its permit.
THEOREM CopperIsOwned == Spec => []CopperHasOwner
  BY EstopPathSafe, PTL DEF IInv, WorkerInv

\* The workflow and the status events carry the one result of the task.
THEOREM AnswersDoAgree == Spec => []AnswersAgree
<1>1. IInv => AnswersAgree
  BY WorkerInvGives DEF IInv
<1>2. QED
  BY <1>1, EstopPathSafe, PTL

\* What NoTurnUnderEstop says of one step
Halting ==
    Estopped => \A t \in Tasks :
        /\ pc'[t] = "turn" => pc[t] = "turn"
        /\ result'[t] = "timed_out" => result[t] = "timed_out"

\* A step of one task keeps the others: it halts if that task does
LEMMA HaltingStep == IInv /\ [Next]_vars => Halting
<1> SUFFICES ASSUME IInv, [Next]_vars, Estopped
             PROVE  \A t \in Tasks : /\ pc'[t] = "turn" => pc[t] = "turn"
                                     /\ result'[t] = "timed_out" => result[t] = "timed_out"
  BY DEF Halting
<1> DEFINE Goal == \A u \in Tasks : /\ pc'[u] = "turn" => pc[u] = "turn"
                                    /\ result'[u] = "timed_out" => result[u] = "timed_out"
<1> USE DEF IInv, WorkerInv, WorkerTypeOK
<1>1. ASSUME UNCHANGED <<pc, result>>
      PROVE  Goal
  BY <1>1
<1>2. CASE MainLoop
  <2>1. CASE ReceiveEstopped
    BY <2>1, HeadIsNew DEF ReceiveEstopped
  <2>2. CASE ReceiveSaturated \/ ReceiveAdmitted
    BY <2>2 DEF ReceiveSaturated, ReceiveAdmitted
  <2>3. CASE SignalRejected
    BY <1>1, <2>3 DEF SignalRejected
  <2>4. QED
    BY <1>2, <2>1, <2>2, <2>3 DEF MainLoop
<1>3. ASSUME NEW t \in Tasks, ExecuteTask(t)
      PROVE  Goal
  <2>1. pc[t] \in {"launched", "turn"} => Changed(t)
    <3>1. pc[t] \in {"launched", "turn"} => seen[t] = 0
      BY DEF Phases, Before
    <3>2. QED
      BY <3>1, EstopsAssumption DEF Changed, Estopped
  <2>2. CASE Refuse(t)
    BY <2>2 DEF Refuse
  <2>3. CASE Prepare(t)
    BY <2>3 DEF Prepare
  <2>4. CASE Launch(t)
    BY <2>4 DEF Launch
  <2>5. CASE FirstPoll(t) \/ TimeOut(t)
    BY <2>1, <2>5 DEF FirstPoll, TimeOut
  <2>6. CASE EstopTurn(t)
    BY <2>6 DEF EstopTurn
  <2>7. ASSUME NEW r \in Results, AgentEnds(t, r)
        PROVE  Goal
    BY <2>7 DEF AgentEnds
  <2>8. CASE Report(t)
    BY <2>8 DEF Report
  <2>9. CASE SignalResult(t)
    BY <2>9 DEF SignalResult
  <2>10. CASE CleanUp(t)
    BY <2>10 DEF CleanUp
  <2>11. QED
    BY <1>3, <2>2, <2>3, <2>4, <2>5, <2>6, <2>7, <2>8, <2>9, <2>10 DEF ExecuteTask
<1>4. CASE Daemon \/ OperatorEstop \/ UNCHANGED vars
  BY <1>1, <1>4 DEF Daemon, OperatorEstop, vars, workerVars
<1>5. CASE DeliverEstop
  BY <1>1, <1>5 DEF DeliverEstop, EstopMessage
<1>6. ASSUME NEW t \in Tasks, Invoke(t)
      PROVE  Goal
  BY <1>1, <1>6 DEF Invoke
<1>7. QED
  BY <1>2, <1>3, <1>4, <1>5, <1>6 DEF Next, Worker

\* Once the e-stop is latched no turn gets past its first poll and none times
\* out: the e-stop is not missed between main's check and the turn's select.
THEOREM EstopIsNeverMissed == Spec => NoTurnUnderEstop
<1>1. IInv /\ [Next]_vars => [Halting]_vars
  BY HaltingStep
<1>2. QED
  BY <1>1, EstopPathSafe, PTL DEF Spec, NoTurnUnderEstop, Halting
=============================================================================
