-------------------------- MODULE AgentSessionProofs --------------------------
(***************************************************************************)
(* The safety properties of AgentSession, for any number of turns, calls   *)
(* and messages.                                                           *)
(*                                                                         *)
(* The strengthening has two halves.  OneTurn says that the turn task that *)
(* is alive is the one active_turn names and that a completion in the      *)
(* channel means that none is; Calls are in flight only while a turn runs, *)
(* and a call that was never made, or that is still at the gate, is in     *)
(* none of the places that an approved call reaches.                       *)
(***************************************************************************)
EXTENDS AgentSession, TLAPS

OneTurn ==
    /\ \A n \in Turns : Alive(n) => active = n
    /\ active = NoTurn => done = NoTurn
    /\ done # NoTurn => \A n \in Turns : ~Alive(n)

CallsInTurn ==
    /\ (\E c \in Calls : InFlight(c)) => \E n \in Turns : turn[n] = "running"
    /\ \A c \in Calls :
        /\ call[c] = "unused" => /\ c \notin gated \union approvals
                                 /\ c \notin results \union reply
        /\ AtGate(c) => c \notin results \union reply

IInv ==
    /\ TypeOK
    /\ OneTurn
    /\ CallsInTurn
    /\ WaitersReachable
    /\ GatedCallsApproved
    /\ ApprovalsEndWithTurn
    /\ NoTurnInCompletedSession

USE DEF Turns, NoTurn

\* Every step of the session keeps the types
LEMMA TypeStep == TypeOK /\ [Next]_vars => TypeOK'
<1> SUFFICES ASSUME TypeOK, [Next]_vars
             PROVE  TypeOK'
  OBVIOUS
<1> DEFINE Goal == TypeOK'
<1> USE TurnsAssumption, MessagesAssumption, CallsAssumption DEF TypeOK, CallsTypeOK
<1>1. CASE Send
  <2>1. inbox' \in Seq(Messages)
    BY <1>1 DEF Send
  <2>2. QED
    BY <1>1, <2>1 DEF Send, callVars
<1>2. CASE HandleUser
  <2>1. inbox' \in Seq(Messages)
    BY <1>2 DEF HandleUser, Received, Consume
  <2>2. /\ started' \in 0..MaxTurns
        /\ active' \in Turns \union {NoTurn}
        /\ turn' \in [Turns -> TurnSteps]
        /\ results' \in SUBSET Calls
    BY <1>2 DEF HandleUser, TurnSteps
  <2>3. QED
    BY <1>2, <2>1, <2>2 DEF HandleUser
<1>3. CASE HandleResult
  BY <1>3 DEF HandleResult, Received, Consume, ResolvePending, callVars, LoopSteps
<1>4. CASE HandleDecision
  <2>1. Head(inbox) \in Messages /\ Tail(inbox) \in Seq(Messages)
    BY <1>4 DEF HandleDecision, Received
  <2>2. Head(inbox).call \in Calls /\ Head(inbox).decision \in Decisions
    BY <1>4, <2>1 DEF HandleDecision, Received, Messages, Message, Plain
  <2>3. QED
    BY <1>4, <2>1, <2>2, Zenon DEF HandleDecision, Consume, ResolveApproval, callVars
<1>5. CASE HandleCancel
  BY <1>5 DEF HandleCancel, Received, Consume, callVars, LoopSteps
<1>6. CASE HandleSync
  BY <1>6 DEF HandleSync, Received, Consume, callVars, LoopSteps
<1>7. CASE Synced
  BY <1>7 DEF Synced, callVars, LoopSteps
<1>8. CASE HandleDone
  BY <1>8 DEF HandleDone, callVars, LoopSteps
<1>9. CASE HandleClose
  BY <1>9 DEF HandleClose, Received, Consume, callVars, LoopSteps
<1>10. CASE CheckEnded
  BY <1>10 DEF CheckEnded, callVars, LoopSteps
<1>11. CASE CompleteSession
  BY <1>11 DEF CompleteSession, callVars, LoopSteps
<1>12. ASSUME NEW n \in Turns, BeginTurn(n)
       PROVE  Goal
  BY <1>12 DEF BeginTurn, callVars, TurnSteps
<1>13. ASSUME NEW n \in Turns, TakeSignal(n)
       PROVE  Goal
  <2>1. Head(presence) \in Signals /\ Tail(presence) \in Seq(Signals)
    BY <1>13 DEF TakeSignal
  <2>2. Head(presence).call \in Calls
    BY <2>1 DEF Signals
  <2>3. mirror' \in SUBSET Calls
    BY <1>13, <2>2 DEF TakeSignal, Apply
  <2>4. QED
    BY <1>13, <2>1, <2>2, <2>3 DEF TakeSignal
<1>14. ASSUME NEW n \in Turns, AgentEnds(n)
       PROVE  Goal
  BY <1>14 DEF AgentEnds, callVars, TurnSteps
<1>15. ASSUME NEW n \in Turns, AbortAgent(n)
       PROVE  Goal
  BY <1>15 DEF AbortAgent, callVars, CallSteps, TurnSteps
<1>16. ASSUME NEW n \in Turns, EndTurn(n)
       PROVE  Goal
  <2>1. (paused \in BOOLEAN)'
    BY <1>16, Zenon DEF EndTurn
  <2>2. Announced \subseteq Calls
    <3>1. \A i \in DOMAIN presence : presence[i] \in Signals
      OBVIOUS
    <3>2. \A x \in Signals : x.call \in Calls
      BY DEF Signals
    <3>3. QED
      BY <3>1, <3>2 DEF Announced
  <2>3. QED
    BY <1>16, <2>1, <2>2 DEF EndTurn, Draining, TurnSteps
<1>17. ASSUME NEW n \in Turns, SendDone(n)
       PROVE  Goal
  BY <1>17 DEF SendDone, callVars, TurnSteps
<1>18. ASSUME NEW n \in Turns, turn[n] = "running", DispatchPure, UNCHANGED sessionVars
       PROVE  Goal
  BY <1>18 DEF DispatchPure, sessionVars, CallSteps
<1>19. ASSUME NEW n \in Turns, turn[n] = "running", DispatchPhysical, UNCHANGED sessionVars
       PROVE  Goal
  BY <1>19 DEF DispatchPhysical, sessionVars, CallSteps
<1>20. ASSUME NEW n \in Turns, turn[n] = "running", OpenGate, UNCHANGED sessionVars
       PROVE  Goal
  BY <1>20 DEF OpenGate, sessionVars, CallSteps
<1>21. ASSUME NEW n \in Turns, turn[n] = "running", Announce, UNCHANGED sessionVars
       PROVE  Goal
  BY <1>21 DEF Announce, Signal, Signals, sessionVars, CallSteps
<1>22. ASSUME NEW n \in Turns, turn[n] = "running", Decided, UNCHANGED sessionVars
       PROVE  Goal
  <2>1. presence' \in Seq(Signals)
    BY <1>22 DEF Decided, Signal, Signals
  <2>2. call' \in [Calls -> CallSteps] /\ results' \in SUBSET Calls
    BY <1>22, Zenon DEF Decided, CallSteps
  <2>3. UNCHANGED <<gated, approvals, answer, reply>>
    BY <1>22 DEF Decided
  <2>4. QED
    BY <1>22, <2>1, <2>2, <2>3 DEF sessionVars
<1>23. ASSUME NEW n \in Turns, turn[n] = "running", AutoDeny, UNCHANGED sessionVars
       PROVE  Goal
  BY <1>23 DEF AutoDeny, Signal, Signals, sessionVars, CallSteps
<1>24. ASSUME NEW n \in Turns, turn[n] = "running", TakeResult, UNCHANGED sessionVars
       PROVE  Goal
  BY <1>24 DEF TakeResult, sessionVars, CallSteps
<1>25. ASSUME NEW n \in Turns, turn[n] = "running", GateTimesOut, UNCHANGED sessionVars
       PROVE  Goal
  BY <1>25 DEF GateTimesOut, sessionVars, CallSteps
<1>26. ASSUME NEW n \in Turns, turn[n] = "running", ToolTimesOut, UNCHANGED sessionVars
       PROVE  Goal
  BY <1>26 DEF ToolTimesOut, sessionVars, CallSteps
<1>27. CASE UNCHANGED vars
  BY <1>27 DEF vars, callVars
<1>28. QED
    BY <1>1, <1>2, <1>3, <1>4, <1>5, <1>6, <1>7, <1>8, <1>9, <1>10, <1>11, <1>12,
     <1>13, <1>14, <1>15, <1>16, <1>17, <1>18, <1>19, <1>20, <1>21, <1>22, <1>23,
     <1>24, <1>25, <1>26, <1>27, Zenon
  DEF Next, LoopStep, TurnStep, Agent, Timer, AgentStep, TimerStep

\* Every step keeps the strengthening
LEMMA InvStep == IInv /\ TypeOK' /\ [Next]_vars => IInv'
<1> SUFFICES ASSUME IInv, TypeOK', [Next]_vars
             PROVE  IInv'
  OBVIOUS
<1> DEFINE Goal == IInv'
<1> USE TurnsAssumption, CallsAssumption
    DEF IInv, OneTurn, CallsInTurn, WaitersReachable, GatedCallsApproved,
        ApprovalsEndWithTurn, NoTurnInCompletedSession, TypeOK, CallsTypeOK,
        InFlight, AtGate, Alive, HoldsRuntime, Locked, Idle
<1>1. CASE Send
  BY <1>1, Zenon
  DEF Send, callVars
<1>2. CASE HandleUser
  <2>1. UNCHANGED <<call, gated, approvals, answer, reply, presence, loop, done,
                    mirror, completed>>
    BY <1>2 DEF HandleUser
  <2>2. CASE UNCHANGED <<started, active, turn, results>>
    BY <2>1, <2>2
  <2>3. CASE /\ active = NoTurn
             /\ started + 1 \in Turns
             /\ active' = started + 1
             /\ turn' = [turn EXCEPT ![started + 1] = "spawned"]
             /\ results' = {}
    <3>1. \A n \in Turns : ~Alive(n)
      BY <2>3
    <3>2. \A c \in Calls : ~InFlight(c)
      BY <3>1, Zenon
    <3>3. ~Locked /\ ~Locked'
      BY <2>3, <3>1
    <3>4. OneTurn'
      BY <2>1, <2>3, <3>1
    <3>5. CallsInTurn' /\ WaitersReachable' /\ GatedCallsApproved'
      BY <2>1, <2>3, <3>2, SMTT(30)
    <3>6. ApprovalsEndWithTurn' /\ NoTurnInCompletedSession'
      BY <2>1, <3>3
    <3>7. QED
      BY <3>4, <3>5, <3>6, Zenon
  <2>4. CASE active = NoTurn /\ started < MaxTurns /\ started' = started + 1
               /\ active' = started' /\ results' = {}
               /\ turn' = [turn EXCEPT ![started'] = "spawned"]
    <3>1. started + 1 \in Turns
      BY <2>4
    <3>2. active' = started + 1 /\ turn' = [turn EXCEPT ![started + 1] = "spawned"]
      BY <2>4
    <3>3. QED
      BY <2>3, <2>4, <3>1, <3>2, Zenon
  <2>5. QED
    BY <1>2, <2>2, <2>4, Zenon DEF HandleUser
<1>3. CASE HandleResult
  BY <1>3, SMTT(30)
  DEF HandleResult, Received, Consume, ResolvePending, callVars
<1>4. CASE HandleDecision
  <2>1. UNCHANGED <<call, gated, results, reply, presence, loop, active, turn, done,
                    mirror, completed>>
    BY <1>4 DEF HandleDecision, ResolveApproval, callVars
  <2>2. CASE UNCHANGED <<approvals, answer>>
    BY <2>1, <2>2, Zenon
  <2>3. ASSUME NEW c \in Calls, NEW d \in Decisions, ResolveApproval(c, d)
        PROVE  IInv'
    <3>1. approvals' = approvals \ {c}
      BY <2>3 DEF ResolveApproval
    <3>2. \A x \in Calls : x # c \/ ~AtGate(x) => answer'[x] = answer[x]
      BY <2>3 DEF ResolveApproval
    <3>3. c \in approvals /\ AtGate(c) => answer'[c] = d
      BY <2>3 DEF ResolveApproval
    <3>4. c \notin approvals => answer'[c] = answer[c]
      BY <2>3 DEF ResolveApproval
    <3>5. WaitersReachable'
      BY <2>1, <3>1, <3>2, <3>3, <3>4 DEF NoAnswer, Decisions
    <3>6. GatedCallsApproved'
      BY <2>1, <3>2
    <3>7. QED
      BY <2>1, <3>1, <3>5, <3>6, Zenon
  <2>4. Head(inbox) \in Messages
    BY <1>4 DEF HandleDecision, Received
  <2>5. Head(inbox).call \in Calls /\ Head(inbox).decision \in Decisions
    BY <1>4, <2>4 DEF HandleDecision, Received, Messages, Message, Plain
  <2>6. QED
    BY <1>4, <2>2, <2>3, <2>5, Zenon DEF HandleDecision, callVars
<1>5. CASE HandleCancel
  BY <1>5, Zenon
  DEF HandleCancel, Received, Consume, callVars
<1>6. CASE HandleSync
  BY <1>6, Zenon
  DEF HandleSync, Received, Consume, callVars
<1>7. CASE Synced
  BY <1>7
  DEF Synced, callVars
<1>8. CASE HandleDone
  BY <1>8
  DEF HandleDone, callVars
<1>9. CASE HandleClose
  BY <1>9, SMTT(30)
  DEF HandleClose, Received, Consume, callVars
<1>10. CASE CheckEnded
  BY <1>10
  DEF CheckEnded, callVars
<1>11. CASE CompleteSession
  BY <1>11
  DEF CompleteSession, callVars
<1>12. ASSUME NEW n \in Turns, BeginTurn(n)
       PROVE  Goal
  BY <1>12
  DEF BeginTurn, callVars
<1>13. ASSUME NEW n \in Turns, TakeSignal(n)
       PROVE  Goal
  BY <1>13, SMTT(30)
  DEF TakeSignal, Apply, callVars
<1>14. ASSUME NEW n \in Turns, AgentEnds(n)
       PROVE  Goal
  BY <1>14, SMTT(30)
  DEF AgentEnds, callVars
<1>15. ASSUME NEW n \in Turns, AbortAgent(n)
       PROVE  Goal
  BY <1>15
  DEF AbortAgent, callVars
<1>16. ASSUME NEW n \in Turns, EndTurn(n)
       PROVE  Goal
  BY <1>16
  DEF EndTurn, Announced, Draining, callVars
<1>17. ASSUME NEW n \in Turns, SendDone(n)
       PROVE  Goal
  BY <1>17, SMTT(30)
  DEF SendDone, callVars
<1>18. ASSUME NEW n \in Turns, turn[n] = "running", DispatchPure, UNCHANGED sessionVars
       PROVE  Goal
  BY <1>18, SMTT(30)
  DEF DispatchPure, sessionVars
<1>19. ASSUME NEW n \in Turns, turn[n] = "running", DispatchPhysical, UNCHANGED sessionVars
       PROVE  Goal
  BY <1>19
  DEF DispatchPhysical, sessionVars
<1>20. ASSUME NEW n \in Turns, turn[n] = "running", OpenGate, UNCHANGED sessionVars
       PROVE  Goal
  BY <1>20, ZenonT(30)
  DEF OpenGate, sessionVars
<1>21. ASSUME NEW n \in Turns, turn[n] = "running", Announce, UNCHANGED sessionVars
       PROVE  Goal
  BY <1>21
  DEF Announce, Signal, Signals, sessionVars
<1>22. ASSUME NEW n \in Turns, turn[n] = "running", Decided, UNCHANGED sessionVars
       PROVE  Goal
  BY <1>22
  DEF Decided, Signal, Signals, sessionVars
<1>23. ASSUME NEW n \in Turns, turn[n] = "running", AutoDeny, UNCHANGED sessionVars
       PROVE  Goal
  BY <1>23, ZenonT(30)
  DEF AutoDeny, Signal, Signals, sessionVars
<1>24. ASSUME NEW n \in Turns, turn[n] = "running", TakeResult, UNCHANGED sessionVars
       PROVE  Goal
  <2>1. UNCHANGED <<gated, approvals, answer, results, reply, presence, active, turn,
                    done, mirror, completed>>
    BY <1>24 DEF TakeResult, sessionVars
  <2>2. PICK c \in Calls : call[c] = "remote" /\ call' = [call EXCEPT ![c] = "done"]
    BY <1>24, Zenon DEF TakeResult
  <2>3. CallsInTurn' /\ WaitersReachable' /\ GatedCallsApproved'
    BY <2>1, <2>2, SMTT(30)
  <2>4. QED
    BY <2>1, <2>3
<1>25. ASSUME NEW n \in Turns, turn[n] = "running", GateTimesOut, UNCHANGED sessionVars
       PROVE  Goal
  BY <1>25
  DEF GateTimesOut, sessionVars
<1>26. ASSUME NEW n \in Turns, turn[n] = "running", ToolTimesOut, UNCHANGED sessionVars
       PROVE  Goal
  BY <1>26
  DEF ToolTimesOut, sessionVars
<1>27. CASE UNCHANGED vars
  BY <1>27
  DEF vars, callVars
<1>28. QED
    BY <1>1, <1>2, <1>3, <1>4, <1>5, <1>6, <1>7, <1>8, <1>9, <1>10, <1>11, <1>12,
     <1>13, <1>14, <1>15, <1>16, <1>17, <1>18, <1>19, <1>20, <1>21, <1>22, <1>23,
     <1>24, <1>25, <1>26, <1>27, Zenon
  DEF Next, LoopStep, TurnStep, Agent, Timer, AgentStep, TimerStep

\* What the code promises about turns, approvals and tool calls holds for
\* every session: the invariant is preserved by every step of the client, the
\* session loop, the turn tasks and the timers.
THEOREM SessionSafe == Spec => []IInv
<1>1. Init => IInv
  <2> SUFFICES ASSUME Init PROVE IInv
    OBVIOUS
  <2>1. CallsTypeOK
    BY DEF Init, CallsInit, CallsTypeOK, CallSteps
  <2>2. paused \in BOOLEAN /\ completed \in BOOLEAN
    BY Zenon DEF Init
  <2>3. TypeOK
    BY <2>1, <2>2, TurnsAssumption, MessagesAssumption
    DEF Init, TypeOK, TurnSteps, LoopSteps
  <2>4. ~completed
    BY Zenon DEF Init
  <2>5. QED
    BY <2>3, <2>4
    DEF Init, CallsInit, IInv, OneTurn, CallsInTurn, WaitersReachable,
        GatedCallsApproved, ApprovalsEndWithTurn, NoTurnInCompletedSession,
        InFlight, AtGate, Alive, HoldsRuntime, Locked
<1>2. IInv /\ [Next]_vars => IInv'
  BY TypeStep, InvStep DEF IInv
<1>3. QED
  BY <1>1, <1>2, PTL DEF Spec

\* TypeOK: every variable keeps to its type
THEOREM TypesCorrect == Spec => []TypeOK
<1>1. IInv => TypeOK
  BY DEF IInv
<1>2. QED
  BY <1>1, SessionSafe, PTL

\* WaitersReachable: no call that waits for the client is stranded
THEOREM NobodyStranded == Spec => []WaitersReachable
<1>1. IInv => WaitersReachable
  BY DEF IInv
<1>2. QED
  BY <1>1, SessionSafe, PTL

\* GatedCallsApproved: a call that needs a human runs only when approved
THEOREM OnlyApprovedCallsRun == Spec => []GatedCallsApproved
<1>1. IInv => GatedCallsApproved
  BY DEF IInv
<1>2. QED
  BY <1>1, SessionSafe, PTL

\* ApprovalsEndWithTurn: no approval outlives its turn
THEOREM ApprovalsCleared == Spec => []ApprovalsEndWithTurn
<1>1. IInv => ApprovalsEndWithTurn
  BY DEF IInv
<1>2. QED
  BY <1>1, SessionSafe, PTL

\* OneTurnAtATime: turn tasks do not overlap, cancelled ones included
THEOREM TurnsDoNotOverlap == Spec => []OneTurnAtATime
<1>1. IInv => OneTurnAtATime
  BY DEF IInv, OneTurn, OneTurnAtATime
<1>2. QED
  BY <1>1, SessionSafe, PTL

\* NoTurnInCompletedSession: a completed session runs no turn
THEOREM CompletedSessionsRest == Spec => []NoTurnInCompletedSession
<1>1. IInv => NoTurnInCompletedSession
  BY SMTT(30) DEF IInv
<1>2. QED
  BY <1>1, SessionSafe, PTL

-----------------------------------------------------------------------------
(* The session implements SupervisedSession.  The mapping needs two facts   *)
(* more: turns are spawned in the order of their numbers, and an approval   *)
(* that is still registered has not been answered.                          *)

InOrder == \A n \in Turns : turn[n] = "none" <=> n > started

Unanswered ==
    \A c \in Calls : c \in approvals \/ call[c] = "unused" => answer[c] = NoAnswer

stages == [n \in Turns |-> Stage(n)]
standings == [c \in Calls |-> Standing(c)]

\* The calls of S move to a step
Move(S, to) == call' = [c \in Calls |-> IF c \in S THEN to ELSE call[c]]

\* What a step of the agent or of a timer does to the calls
CallKinds ==
    \/ \E S \in SUBSET Calls :
          /\ Idle /\ Move(S, "remote") /\ UNCHANGED <<gated, approvals>>
          /\ \A c \in S : call[c] = "unused"
          /\ S \subseteq Calls \ Physical \/ \E c \in Physical : S = {c}
    \/ \E c \in Physical :
          Idle /\ call[c] = "unused" /\ Move({c}, "done") /\ UNCHANGED <<gated, approvals>>
    \/ \E c \in Physical :
          /\ Idle /\ call[c] = "unused" /\ Move({c}, "asking")
          /\ gated' = gated \union {c} /\ approvals' = approvals \union {c}
    \/ \E c \in Calls :
          /\ AtGate(c) /\ UNCHANGED <<gated, approvals>>
          /\ Move({c}, "waiting") \/ Move({c}, "expired")
    \/ \E c \in Calls :
          call[c] = "waiting" /\ answer[c] = "allow" /\ Move({c}, "remote")
              /\ UNCHANGED <<gated, approvals>>
    \/ \E c \in Calls :
          InFlight(c) /\ Move({c}, "done") /\ UNCHANGED gated
              /\ approvals' \subseteq approvals

LEMMA AgentKinds ==
    ASSUME TypeOK, AgentStep \/ TimerStep
    PROVE  CallKinds /\ UNCHANGED answer
<1> USE CallsAssumption DEF TypeOK, CallsTypeOK, CallKinds, Move, InFlight, AtGate
<1>1. ASSUME NEW c \in Calls, NEW to, call' = [call EXCEPT ![c] = to]
      PROVE  call' = [x \in Calls |-> IF x \in {c} THEN to ELSE call[x]]
  BY <1>1, Zenon
<1>2. CASE DispatchPure
  BY <1>2, Zenon DEF DispatchPure
<1>3. CASE DispatchPhysical
  <2>1. PICK c \in Physical :
           /\ call[c] = "unused"
           /\ call' = [call EXCEPT ![c] = "remote"] \/ call' = [call EXCEPT ![c] = "done"]
    BY <1>3 DEF DispatchPhysical
  <2>2. Move({c}, "remote") \/ Move({c}, "done")
    BY <1>1, <2>1
  <2>3. {c} \in SUBSET Calls /\ \A x \in {c} : call[x] = "unused"
    BY <2>1
  <2>4. Idle /\ UNCHANGED <<gated, approvals, answer>>
    BY <1>3 DEF DispatchPhysical
  <2>5. CASE Move({c}, "done")
    BY <2>1, <2>4, <2>5
  <2>6. CASE Move({c}, "remote")
    BY <2>1, <2>3, <2>4, <2>6, Zenon
  <2>7. QED
    BY <2>2, <2>5, <2>6, Zenon
<1>4. CASE OpenGate
  BY <1>1, <1>4, Zenon DEF OpenGate
<1>5. CASE Announce
  <2>1. PICK c \in Calls : /\ call[c] = "asking"
                          /\ call' = [call EXCEPT ![c] = "waiting"]
    BY <1>5, Zenon DEF Announce
  <2>2. Move({c}, "waiting")
    BY <1>1, <2>1, Zenon
  <2>3. UNCHANGED <<gated, approvals, answer>>
    BY <1>5 DEF Announce
  <2>4. QED
    BY <2>1, <2>2, <2>3, Zenon
<1>6. CASE Decided
  BY <1>1, <1>6 DEF Decided
<1>7. CASE AutoDeny
  <2>1. PICK c \in Calls : /\ call[c] = "expired"
                          /\ call' = [call EXCEPT ![c] = "done"]
    BY <1>7, Zenon DEF AutoDeny
  <2>2. Move({c}, "done")
    BY <1>1, <2>1, Zenon
  <2>3. UNCHANGED <<gated, answer>> /\ approvals' \subseteq approvals
    BY <1>7 DEF AutoDeny
  <2>4. QED
    BY <2>1, <2>2, <2>3, Zenon
<1>8. CASE TakeResult
  <2>1. PICK c \in Calls : /\ call[c] = "remote"
                          /\ call' = [call EXCEPT ![c] = "done"]
    BY <1>8, Zenon DEF TakeResult
  <2>2. Move({c}, "done")
    BY <1>1, <2>1, Zenon
  <2>3. UNCHANGED <<gated, approvals, answer>>
    BY <1>8 DEF TakeResult
  <2>4. QED
    BY <2>1, <2>2, <2>3, Zenon
<1>9. CASE GateTimesOut
  <2>1. PICK c \in Calls : /\ call[c] = "waiting"
                          /\ call' = [call EXCEPT ![c] = "expired"]
    BY <1>9, Zenon DEF GateTimesOut
  <2>2. Move({c}, "expired")
    BY <1>1, <2>1, Zenon
  <2>3. UNCHANGED <<gated, approvals, answer>>
    BY <1>9 DEF GateTimesOut
  <2>4. QED
    BY <2>1, <2>2, <2>3, Zenon
<1>10. CASE ToolTimesOut
  <2>1. PICK c \in Calls : /\ call[c] = "remote"
                          /\ call' = [call EXCEPT ![c] = "done"]
    BY <1>10, Zenon DEF ToolTimesOut
  <2>2. Move({c}, "done")
    BY <1>1, <2>1, Zenon
  <2>3. UNCHANGED <<gated, approvals, answer>>
    BY <1>10 DEF ToolTimesOut
  <2>4. QED
    BY <2>1, <2>2, <2>3, Zenon
<1>11. QED
  BY <1>2, <1>3, <1>4, <1>5, <1>6, <1>7, <1>8, <1>9, <1>10, Zenon DEF AgentStep, TimerStep

\* The supervisor sees the turn that holds the mutex at work, and an idle
\* agent's calls quiet
LEMMA SeenFromOutside ==
    ASSUME TypeOK
    PROVE  /\ Supervised!Working <=> Locked
           /\ Supervised!Quiet <=> Idle
           /\ \A n \in Turns : stages[n] = Stage(n)
           /\ \A c \in Calls : standings[c] = Standing(c)
  BY DEF Supervised!Working, Supervised!Quiet, Locked, Idle, InFlight, AtGate,
     Stage, Standing, stages, standings, HoldsRuntime, TypeOK, CallsTypeOK, TurnSteps,
     CallSteps

\* What the supervisor calls a step of a call
Called(to) ==
    IF to \in {"asking", "waiting", "expired"} THEN "asked"
    ELSE IF to \in {"done", "dropped"} THEN "ended" ELSE to

\* A move of calls as the supervisor sees it
LEMMA MoveSeen ==
    ASSUME TypeOK, NEW S \in SUBSET Calls, NEW to \in CallSteps, Move(S, to)
    PROVE  standings' = [c \in Calls |-> IF c \in S THEN Called(to) ELSE standings[c]]
<1>1. \A c \in Calls : call'[c] = IF c \in S THEN to ELSE call[c]
  BY DEF Move
<1>2. \A c \in Calls : Standing(c)' = IF c \in S THEN Called(to) ELSE Standing(c)
  BY <1>1, SMTT(30) DEF Standing, AtGate, Called
<1>3. QED
  BY <1>2 DEF standings

\* What the agent and its timers do to the calls is a step of the supervised
\* session, or none
LEMMA CallsSupervised ==
    ASSUME IInv, CallKinds, Locked, UNCHANGED <<answer, turn, completed>>
    PROVE  Supervised!Next \/ UNCHANGED <<stages, standings, gated, answer, completed>>
<1> USE DEF Supervised!Next, Supervised!Becomes, Supervised!Segment
<1>1. TypeOK /\ Physical \subseteq Calls
  BY CallsAssumption DEF IInv
<1>2. Supervised!Working /\ (Supervised!Quiet <=> Idle)
  BY <1>1, SeenFromOutside
<1>3. UNCHANGED stages
  BY DEF stages, Stage, HoldsRuntime
<1>4. \A c \in Calls : standings[c] = Standing(c)
  BY <1>1, SeenFromOutside
<1>5. ASSUME NEW S \in SUBSET Calls, Idle, Move(S, "remote"), UNCHANGED gated,
             \A c \in S : call[c] = "unused",
             S \subseteq Calls \ Physical \/ \E c \in Physical : S = {c}
      PROVE  Supervised!Run(S)
  <2>1. standings' = [c \in Calls |-> IF c \in S THEN "remote" ELSE standings[c]]
    BY <1>1, <1>5, MoveSeen, SMTT(30) DEF CallSteps, Called
  <2>2. \A c \in S : standings[c] = "unused"
    BY <1>4, <1>5 DEF Standing, AtGate
  <2>3. QED
    BY <1>2, <1>3, <1>5, <2>1, <2>2, SMTT(30) DEF Supervised!Run, stages, standings
<1>6. ASSUME NEW c \in Physical, Idle, call[c] = "unused", Move({c}, "done"),
             UNCHANGED gated
      PROVE  Supervised!Block(c)
  <2>1. standings' = [x \in Calls |-> IF x \in {c} THEN "ended" ELSE standings[x]]
    BY <1>1, <1>6, MoveSeen DEF CallSteps, Called
  <2>2. \A x \in {c} : standings[x] = "unused"
    BY <1>1, <1>4, <1>6 DEF Standing, AtGate
  <2>3. QED
    BY <1>2, <1>3, <1>6, <2>1, <2>2 DEF Supervised!Block, stages, standings
<1>7. ASSUME NEW c \in Physical, Idle, call[c] = "unused", Move({c}, "asking"),
             gated' = gated \union {c}
      PROVE  Supervised!Ask(c)
  <2>1. standings' = [x \in Calls |-> IF x \in {c} THEN "asked" ELSE standings[x]]
    BY <1>1, <1>7, MoveSeen DEF CallSteps, Called
  <2>2. \A x \in {c} : standings[x] = "unused"
    BY <1>1, <1>4, <1>7 DEF Standing, AtGate
  <2>3. QED
    BY <1>2, <1>3, <1>7, <2>1, <2>2 DEF Supervised!Ask, stages, standings
<1>8. ASSUME NEW c \in Calls, AtGate(c), NEW to \in {"waiting", "expired"}, Move({c}, to)
      PROVE  UNCHANGED standings
  <2>1. standings' = [x \in Calls |-> IF x \in {c} THEN "asked" ELSE standings[x]]
    BY <1>1, <1>8, MoveSeen DEF CallSteps, Called
  <2>2. standings[c] = "asked"
    BY <1>4, <1>8 DEF Standing
  <2>3. QED
    BY <2>1, <2>2 DEF standings
<1>9. ASSUME NEW c \in Calls, call[c] = "waiting", answer[c] = "allow",
             Move({c}, "remote"), UNCHANGED gated
      PROVE  Supervised!Proceed(c)
  <2>1. standings' = [x \in Calls |-> IF x \in {c} THEN "remote" ELSE standings[x]]
    BY <1>1, <1>9, MoveSeen DEF CallSteps, Called
  <2>2. standings[c] = "asked"
    BY <1>4, <1>9 DEF Standing, AtGate
  <2>3. QED
    BY <1>3, <1>9, <2>1, <2>2 DEF Supervised!Proceed, stages, standings
<1>10. ASSUME NEW c \in Calls, InFlight(c), Move({c}, "done"), UNCHANGED gated
       PROVE  Supervised!Finish({c})
  <2>1. standings' = [x \in Calls |-> IF x \in {c} THEN "ended" ELSE standings[x]]
    BY <1>1, <1>10, MoveSeen DEF CallSteps, Called
  <2>2. \A x \in {c} : standings[x] \in {"asked", "remote"}
    BY <1>4, <1>10 DEF Standing, InFlight, AtGate
  <2>3. QED
    BY <1>3, <1>10, <2>1, <2>2 DEF Supervised!Finish, stages, standings
<1>11. QED
  BY <1>1, <1>3, <1>5, <1>6, <1>7, <1>8, <1>9, <1>10, Zenon DEF CallKinds

\* What a step of the loop or of a turn task does to the turns
TurnKinds ==
    \/ UNCHANGED <<turn, started>>
    \/ /\ active = NoTurn /\ started + 1 \in Turns /\ started' = started + 1
       /\ turn' = [turn EXCEPT ![started + 1] = "spawned"]
    \/ /\ UNCHANGED started
       /\ \E n \in Turns, to \in TurnSteps \ {"none"} :
             turn[n] # "none" /\ turn' = [turn EXCEPT ![n] = to]

LEMMA TurnsInOrder ==
    ASSUME TypeOK, InOrder, [Next]_vars
    PROVE  TurnKinds /\ InOrder'
<1>1. TurnKinds
  <2> USE TurnsAssumption DEF TypeOK, TurnKinds, TurnSteps
  <2>1. CASE HandleUser
    BY <2>1, SMTT(30) DEF HandleUser
  <2>2. CASE HandleResult \/ HandleDecision \/ HandleCancel \/ HandleSync \/ Synced
               \/ HandleDone \/ HandleClose \/ CheckEnded \/ CompleteSession \/ Send
    BY <2>2, Zenon DEF HandleResult, HandleDecision, HandleCancel, HandleSync, Synced,
       HandleDone, HandleClose, CheckEnded, CompleteSession, Send
  <2>3. ASSUME NEW n \in Turns, TurnStep(n) \/ Timer(n)
        PROVE  TurnKinds
    <3>1. CASE Agent(n) \/ Timer(n) \/ TakeSignal(n)
      BY <3>1 DEF Agent, Timer, TakeSignal, sessionVars
    <3>2. CASE BeginTurn(n)
      BY <3>2, Zenon DEF BeginTurn
    <3>3. CASE AgentEnds(n) \/ AbortAgent(n)
      BY <3>3, Zenon DEF AgentEnds, AbortAgent
    <3>4. CASE EndTurn(n) \/ SendDone(n)
      BY <3>4 DEF EndTurn, SendDone, Draining
    <3>5. QED
      BY <2>3, <3>1, <3>2, <3>3, <3>4 DEF TurnStep
  <2>4. CASE UNCHANGED vars
    BY <2>4 DEF vars
  <2>5. QED
    BY <2>1, <2>2, <2>3, <2>4 DEF Next, LoopStep
<1>2. InOrder'
  <2>1. started \in Nat /\ Turns \subseteq Nat /\ turn \in [Turns -> TurnSteps]
    BY TurnsAssumption DEF TypeOK
  <2>2. CASE /\ started + 1 \in Turns /\ started' = started + 1
             /\ turn' = [turn EXCEPT ![started + 1] = "spawned"]
    BY <2>1, <2>2 DEF InOrder
  <2>3. CASE UNCHANGED started
    <3>1. \A n \in Turns : turn'[n] = "none" <=> turn[n] = "none"
      <4>1. started' # started + 1
        BY <2>1, <2>3
      <4>2. QED
        BY <1>1, <2>1, <4>1, ZenonT(30) DEF TurnKinds
    <3>2. QED
      BY <2>3, <3>1 DEF InOrder
  <2>4. QED
    BY <1>1, <2>2, <2>3 DEF TurnKinds
<1>3. QED
  BY <1>1, <1>2

\* Every step but the agent's leaves the calls where they are, or drops the
\* ones in flight, and registers no approval; only a decision answers
LEMMA OthersKeepCalls ==
    ASSUME TypeOK, [Next]_vars,
           ~\E n \in Turns : Agent(n) \/ Timer(n)
    PROVE  /\ approvals' \subseteq approvals /\ UNCHANGED gated
           /\ UNCHANGED call \/ \E n \in Turns : AbortAgent(n)
           /\ UNCHANGED answer \/ HandleDecision
<1>1. CASE Send \/ HandleUser \/ HandleResult \/ HandleCancel \/ HandleSync \/ Synced
             \/ HandleDone \/ HandleClose \/ CheckEnded \/ CompleteSession
  BY <1>1, Zenon DEF Send, HandleUser, HandleResult, HandleCancel, HandleSync, Synced,
     HandleDone, HandleClose, CheckEnded, CompleteSession, callVars, ResolvePending
<1>2. CASE HandleDecision
  BY <1>2, Zenon DEF HandleDecision, ResolveApproval, callVars
<1>3. ASSUME NEW n \in Turns, TurnStep(n)
      PROVE  /\ approvals' \subseteq approvals /\ UNCHANGED <<gated, answer>>
             /\ UNCHANGED call \/ AbortAgent(n)
  BY <1>3 DEF TurnStep, BeginTurn, TakeSignal, AgentEnds, AbortAgent, EndTurn,
     SendDone, callVars
<1>4. CASE UNCHANGED vars
  BY <1>4, SMTT(30) DEF vars, callVars
<1>5. QED
  BY <1>1, <1>2, <1>3, <1>4 DEF Next, LoopStep

\* A decision that finds its sender answers a call that waits; any other
\* answers none
LEMMA DecisionAnswers ==
    ASSUME TypeOK, HandleDecision
    PROVE  \/ UNCHANGED answer
           \/ \E c \in Calls, d \in Decisions :
                 /\ c \in approvals /\ AtGate(c)
                 /\ approvals' = approvals \ {c}
                 /\ answer' = [answer EXCEPT ![c] = d]
<1>1. Head(inbox) \in Messages
  BY SMTT(30) DEF HandleDecision, Received, TypeOK
<1>2. Head(inbox).call \in Calls /\ Head(inbox).decision \in Decisions
  <2>1. Head(inbox).kind = "decision"
    BY DEF HandleDecision, Received
  <2>2. ASSUME NEW m \in Messages, m.kind = "decision"
        PROVE  m.call \in Calls /\ m.decision \in Decisions
    <3>1. m \notin {Plain(k) : k \in {"user", "cancel", "sync", "close"}}
      <4>1. \A k \in {"user", "cancel", "sync", "close"} : Plain(k).kind # "decision"
        BY DEF Plain
      <4>2. QED
        BY <2>2, <4>1
    <3>2. m \notin {Message("result", c, NoAnswer) : c \in Calls}
      <4>1. \A c \in Calls : Message("result", c, NoAnswer).kind = "result"
        BY DEF Message
      <4>2. QED
        BY <2>2, <4>1
    <3>3. PICK c \in Calls, d \in Decisions : m = Message("decision", c, d)
      BY <3>1, <3>2 DEF Messages
    <3>4. QED
      BY <3>3 DEF Message
  <2>3. QED
    BY <1>1, <2>1, <2>2, Zenon
<1>3. CASE UNCHANGED callVars
  BY <1>3 DEF callVars
<1>4. ASSUME NEW c \in Calls, NEW d \in Decisions, ResolveApproval(c, d)
      PROVE  \/ UNCHANGED answer
             \/ /\ c \in approvals /\ AtGate(c)
                /\ approvals' = approvals \ {c}
                /\ answer' = [answer EXCEPT ![c] = d]
  BY <1>4, Zenon DEF ResolveApproval, TypeOK, CallsTypeOK
<1>5. QED
  BY <1>2, <1>3, <1>4, Zenon DEF HandleDecision

\* The answer of a registered approval is open
LEMMA UnansweredStep ==
    ASSUME TypeOK, Unanswered, [Next]_vars
    PROVE  Unanswered'
<1> USE DEF Unanswered, TypeOK, CallsTypeOK
<1>1. ASSUME NEW n \in Turns, Agent(n) \/ Timer(n)
      PROVE  Unanswered'
  <2>1. CallKinds /\ UNCHANGED answer
    BY <1>1, AgentKinds DEF Agent, Timer
  <2>2. QED
    BY <2>1, CallsAssumption DEF CallKinds, Move
<1>2. CASE ~\E n \in Turns : Agent(n) \/ Timer(n)
  <2>1. approvals' \subseteq approvals
    BY <1>2, OthersKeepCalls
  <2>2. \A c \in Calls : call'[c] = "unused" => call[c] = "unused"
    BY <1>2, OthersKeepCalls DEF AbortAgent
  <2>3. CASE UNCHANGED answer
    BY <2>1, <2>2, <2>3
  <2>4. CASE HandleDecision
    <3>1. UNCHANGED call
      BY <2>4, Zenon DEF HandleDecision, ResolveApproval, callVars
    <3>2. QED
      BY <2>1, <2>3, <2>4, <3>1, DecisionAnswers, SMTT(30) DEF AtGate
  <2>5. QED
    BY <1>2, <2>3, <2>4, OthersKeepCalls
<1>3. QED
  BY <1>1, <1>2

\* Every step of the client, the session loop, the turn tasks and the timers is
\* a step of the supervised session or a stutter
LEMMA SupervisedStep ==
    ASSUME IInv, InOrder, Unanswered, [Next]_vars
    PROVE  [Supervised!Next]_(Supervised!vars)
<1> DEFINE Stutter == UNCHANGED <<stages, standings, gated, answer, completed>>
<1>1. TypeOK /\ OneTurn /\ TurnKinds
  BY TurnsInOrder DEF IInv
<1>2. Stutter => UNCHANGED Supervised!vars
  BY DEF Supervised!vars, stages, standings
<1>3. UNCHANGED turn => UNCHANGED stages
  BY DEF stages, Stage, HoldsRuntime
<1>4. UNCHANGED call => UNCHANGED standings
  BY DEF standings, Standing, AtGate
<1>5. ASSUME NEW n \in Turns, Agent(n) \/ Timer(n)
      PROVE  Supervised!Next \/ Stutter
  <2>1. CallKinds /\ UNCHANGED answer
    BY <1>1, <1>5, AgentKinds DEF Agent, Timer
  <2>2. Locked /\ UNCHANGED <<turn, completed>>
    BY <1>5 DEF Agent, Timer, Locked, HoldsRuntime, sessionVars
  <2>3. QED
    BY <2>1, <2>2, CallsSupervised
<1>6. \A n \in Turns : stages[n] = Stage(n)
  BY <1>1, SeenFromOutside
<1>7. ASSUME NEW n \in Turns, NEW to \in TurnSteps, turn' = [turn EXCEPT ![n] = to]
      PROVE  stages' = [stages EXCEPT ![n] =
                IF to \in {"running", "draining", "failing"} THEN "holds" ELSE to]
  <2>1. \A m \in Turns : turn'[m] = IF m = n THEN to ELSE turn[m]
    BY <1>1, <1>7 DEF TypeOK
  <2>2. QED
    BY <2>1, Zenon DEF stages, Stage, HoldsRuntime
<1>8. ASSUME NEW n \in Turns, NEW to, stages' = [stages EXCEPT ![n] = to],
             UNCHANGED <<call, gated, answer, completed>>
      PROVE  Supervised!Moves(n, to)
  BY <1>4, <1>8 DEF Supervised!Moves, stages, standings
<1>9. CASE Send \/ HandleResult \/ HandleCancel \/ HandleSync \/ Synced
             \/ HandleDone \/ HandleClose \/ CheckEnded \/ UNCHANGED vars
  <2>1. UNCHANGED <<call, turn, gated, answer, completed>>
    BY <1>9, Zenon DEF Send, HandleResult, HandleCancel, HandleSync, Synced, HandleDone,
       HandleClose, CheckEnded, ResolvePending, callVars, vars
  <2>2. QED
    BY <1>2, <1>3, <1>4, <2>1
<1>10. CASE HandleUser
  <2>1. UNCHANGED <<call, gated, answer, completed>>
    BY <1>10 DEF HandleUser
  <2>2. CASE UNCHANGED turn
    BY <1>2, <1>3, <1>4, <2>1, <2>2
  <2>3. CASE /\ active = NoTurn /\ started + 1 \in Turns
             /\ turn' = [turn EXCEPT ![started + 1] = "spawned"]
    <3>1. \A m \in Turns : stages[m] = IF m < started + 1 THEN "gone" ELSE "none"
      <4>1. started \in Nat /\ Turns \subseteq Nat
        BY <1>1, TurnsAssumption DEF TypeOK
      <4>2. \A m \in Turns : turn[m] = IF m > started THEN "none" ELSE "gone"
        BY <1>1, <2>3, <4>1 DEF OneTurn, Alive, HoldsRuntime, InOrder, TypeOK, TurnSteps
      <4>3. QED
        BY <1>6, <4>1, <4>2 DEF Stage, HoldsRuntime
    <3>2. stages' = [stages EXCEPT ![started + 1] = "spawned"]
      BY <1>7, <2>3, Zenon DEF TurnSteps
    <3>3. Supervised!Spawn(started + 1)
      BY <1>8, <2>1, <2>3, <3>1, <3>2 DEF Supervised!Spawn, stages
    <3>4. QED
      BY <2>3, <3>3 DEF Supervised!Next
  <2>4. UNCHANGED turn
          \/ (/\ active = NoTurn /\ started + 1 \in Turns
              /\ turn' = [turn EXCEPT ![started + 1] = "spawned"])
    BY <1>1, <1>10, TurnsAssumption DEF HandleUser, TypeOK
  <2>5. QED
    BY <2>2, <2>3, <2>4
<1>11. CASE HandleDecision
  <2>1. UNCHANGED <<call, turn, gated, completed>>
    BY <1>11 DEF HandleDecision, ResolveApproval, callVars
  <2>2. CASE UNCHANGED answer
    BY <1>2, <1>3, <1>4, <2>1, <2>2
  <2>3. ASSUME NEW c \in Calls, NEW d \in Decisions, c \in approvals, AtGate(c),
               answer' = [answer EXCEPT ![c] = d]
        PROVE  Supervised!Decide(c)
    <3>1. standings[c] = "asked" /\ answer[c] = "none"
      BY <2>3 DEF standings, Standing, Unanswered, NoAnswer
    <3>2. QED
      BY <1>3, <1>4, <2>1, <2>3, <3>1, Zenon
      DEF Supervised!Decide, Decisions, stages, standings
  <2>4. QED
    BY <1>1, <1>11, <2>2, <2>3, DecisionAnswers DEF Supervised!Next
<1>12. CASE CompleteSession
  <2>1. Supervised!Complete
    BY <1>1, <1>3, <1>4, <1>12, SeenFromOutside
    DEF CompleteSession, callVars, Supervised!Complete, stages, standings
  <2>2. QED
    BY <2>1 DEF Supervised!Next
<1>13. ASSUME NEW n \in Turns, TurnStep(n), ~Agent(n)
       PROVE  Supervised!Next \/ Stutter
  <2>0. TurnSteps = {"none", "spawned", "running", "draining", "failing", "released", "gone"}
    BY DEF TurnSteps
  <2>1. CASE BeginTurn(n)
    <3>1. turn[n] = "spawned" /\ UNCHANGED <<call, gated, answer, completed>>
      BY <2>1 DEF BeginTurn, callVars
    <3>2. stages[n] = "spawned"
      BY <1>6, <3>1 DEF Stage, HoldsRuntime
    <3>3. CASE turn' = [turn EXCEPT ![n] = "released"]
      <4>1. Supervised!TurnAway(n)
        BY <1>7, <1>8, <2>0, <3>1, <3>2, <3>3, Zenon DEF Supervised!TurnAway, stages
      <4>2. QED
        BY <4>1 DEF Supervised!Next
    <3>4. CASE ~completed /\ turn' = [turn EXCEPT ![n] = "running"]
      <4>1. Supervised!Enter(n)
        BY <1>7, <1>8, <2>0, <3>1, <3>2, <3>4, Zenon DEF Supervised!Enter, stages
      <4>2. QED
        BY <4>1, SMTT(30) DEF Supervised!Next
    <3>5. QED
      BY <2>1, <3>3, <3>4, Zenon DEF BeginTurn
  <2>2. CASE TakeSignal(n)
    BY <1>3, <1>4, <2>2 DEF TakeSignal
  <2>3. CASE AgentEnds(n)
    <3>1. UNCHANGED stages
      <4>1. stages[n] = "holds" /\ stages' = [stages EXCEPT ![n] = "holds"]
        BY <1>6, <1>7, <2>0, <2>3, Zenon DEF AgentEnds, Stage, HoldsRuntime
      <4>2. QED
        BY <4>1, Zenon DEF stages
    <3>2. QED
      BY <1>4, <2>3, <3>1 DEF AgentEnds, callVars
  <2>4. CASE AbortAgent(n)
    <3>1. UNCHANGED stages
      <4>1. stages[n] = "holds" /\ stages' = [stages EXCEPT ![n] = "holds"]
        BY <1>6, <1>7, <2>0, <2>4, Zenon DEF AbortAgent, Stage, HoldsRuntime
      <4>2. QED
        BY <4>1, Zenon DEF stages
    <3> DEFINE S == {c \in Calls : InFlight(c)}
    <3>2. standings' = [c \in Calls |-> IF c \in S THEN "ended" ELSE standings[c]]
      <4>1. Move(S, "dropped")
        BY <2>4 DEF AbortAgent, Move
      <4>2. QED
        BY <1>1, <4>1, MoveSeen DEF CallSteps, Called
    <3>3. \A c \in S : standings[c] \in {"asked", "remote"}
      BY DEF standings, Standing, InFlight, AtGate
    <3>4. Supervised!Finish(S)
      BY <2>4, <3>1, <3>2, <3>3
      DEF AbortAgent, Supervised!Finish, Supervised!Becomes, stages, standings
    <3>5. QED
      BY <3>4 DEF Supervised!Next
  <2>5. CASE EndTurn(n)
    <3>1. /\ HoldsRuntime(n) /\ turn[n] # "running"
          /\ turn' = [turn EXCEPT ![n] = "released"]
          /\ UNCHANGED <<call, gated, answer, completed>>
      BY <2>5 DEF EndTurn, Draining, HoldsRuntime
    <3>2. Idle
      BY <1>1, <3>1, SMTT(30) DEF IInv, CallsInTurn, OneTurn, Alive, HoldsRuntime, Idle
    <3>3. Supervised!Leave(n)
      BY <1>1, <1>6, <1>7, <1>8, <2>0, <3>1, <3>2, SeenFromOutside, Zenon
      DEF Supervised!Leave, stages, Stage
    <3>4. QED
      BY <3>3 DEF Supervised!Next
  <2>6. CASE SendDone(n)
    <3>1. /\ turn[n] = "released" /\ turn' = [turn EXCEPT ![n] = "gone"]
          /\ UNCHANGED <<call, gated, answer, completed>>
      BY <2>6, SMTT(30) DEF SendDone, callVars
    <3>2. Supervised!End(n)
      BY <1>6, <1>7, <1>8, <2>0, <3>1, Zenon DEF Supervised!End, stages, Stage, HoldsRuntime
    <3>3. QED
      BY <3>2 DEF Supervised!Next
  <2>7. QED
    BY <1>13, <2>1, <2>2, <2>3, <2>4, <2>5, <2>6 DEF TurnStep
<1>14. QED
  BY <1>2, <1>5, <1>9, <1>10, <1>11, <1>12, <1>13 DEF Next, LoopStep

\* The agent session implements the supervised session: turns one after the
\* other, calls inside their turn, physical calls alone, one answer per call,
\* for any number of turns, calls and messages
THEOREM SessionIsSupervised == Spec => ImplementsSupervisedSession
<1>1. Init => Supervised!Init /\ InOrder /\ Unanswered
  <2> SUFFICES ASSUME Init PROVE Supervised!Init /\ InOrder /\ Unanswered
    OBVIOUS
  <2>1. completed = FALSE
    BY Zenon DEF Init
  <2>2. stages = [n \in Turns |-> "none"] /\ standings = [c \in Calls |-> "unused"]
    BY DEF Init, CallsInit, stages, standings, Stage, Standing, HoldsRuntime, AtGate
  <2>3. Supervised!Init
    BY <2>1, <2>2 DEF Init, CallsInit, Supervised!Init, stages, standings, NoAnswer
  <2>4. QED
    BY <2>3, TurnsAssumption DEF Init, CallsInit, InOrder, Unanswered
<1>2. IInv /\ InOrder /\ Unanswered /\ [Next]_vars =>
        InOrder' /\ Unanswered' /\ [Supervised!Next]_(Supervised!vars)
  BY TurnsInOrder, UnansweredStep, SupervisedStep DEF IInv
<1>3. QED
  BY <1>1, <1>2, SessionSafe, PTL DEF Spec, ImplementsSupervisedSession, Supervised!Spec
=============================================================================
