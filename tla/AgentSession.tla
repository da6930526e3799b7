----------------------------- MODULE AgentSession -----------------------------
(***************************************************************************)
(* A cloud agent session (roz-server grpc/agent.rs, run_session_loop) over *)
(* its SessionRuntime (roz-agent session_runtime/mod.rs).  The loop takes  *)
(* the client's messages in order; a user message spawns a turn task that  *)
(* holds the runtime's mutex until run_turn_streaming returns, and the     *)
(* loop itself takes that mutex to register tools, to greet a repeated     *)
(* StartSession and to close.  What the loop does under the mutex has no   *)
(* step of a turn inside it, so only the turn is seen holding it.          *)
(*                                                                         *)
(* The messages that touch neither a turn nor the mutex (ping, feedback,   *)
(* WebRTC answers) are left out, and so are the sessions relayed to an     *)
(* edge worker.  The session has started.                                  *)
(***************************************************************************)
EXTENDS ToolCalls

CONSTANTS
    MaxTurns,       \* bound: turns the session starts
    MaxMessages,    \* bound: messages the client sends
    MaxInbox        \* bound: messages on their way at a time

ASSUME TurnsAssumption == MaxTurns \in Nat
ASSUME MessagesAssumption == MaxMessages \in Nat
ASSUME InboxAssumption == MaxInbox \in Nat

VARIABLES
    inbox,      \* the client's messages, in order
    sent,       \* how many the client has sent
    told,       \* the calls whose ApprovalRequested event has been emitted
    loop,       \* where the session loop stands
    active,     \* active_turn, or NoTurn
    started,    \* how many turns have been spawned
    turn,       \* where each turn task stands
    token,      \* the turns whose cancel token is cancelled
    done,       \* the turn whose completion is in the turn_done channel, or NoTurn
    mirror,     \* state.pending_approvals of the runtime
    paused,     \* safe_pause
    completed   \* state.completed

vars == <<callVars, inbox, sent, told, loop, active, started, turn, token,
          done, mirror, paused, completed>>

Turns == 1..MaxTurns
NoTurn == 0

TurnSteps ==
    {"none",        \* not spawned
     "spawned",     \* waits for the runtime's mutex
     "running",     \* holds it: the agent works
     "draining",    \* holds it: the agent has ended, the buffers are drained
     "failing",     \* so too, after a failure that safe-pauses the session
     "released",    \* has given it back, its completion is not sent yet
     "gone"}        \* has ended

HoldsRuntime(n) == turn[n] \in {"running", "draining", "failing"}
Alive(n) == turn[n] \in {"spawned", "released"} \/ HoldsRuntime(n)
Locked == \E n \in Turns : HoldsRuntime(n)

LoopSteps == {"ready", "syncing", "closing", "completing", "closed"}

Message(k, c, d) == [kind |-> k, call |-> c, decision |-> d]
Plain(k) == [kind |-> k]
Messages ==
    {Plain(k) : k \in {"user", "cancel", "sync", "close"}}
        \union {Message("result", c, NoAnswer) : c \in Calls}
        \union {Message("decision", c, d) : c \in Calls, d \in Decisions}

TypeOK ==
    /\ CallsTypeOK
    /\ inbox \in Seq(Messages)
    /\ sent \in 0..MaxMessages
    /\ told \in SUBSET Calls
    /\ loop \in LoopSteps
    /\ active \in Turns \union {NoTurn}
    /\ started \in 0..MaxTurns
    /\ turn \in [Turns -> TurnSteps]
    /\ token \in SUBSET Turns
    /\ done \in Turns \union {NoTurn}
    /\ mirror \in SUBSET Calls
    /\ paused \in BOOLEAN
    /\ completed \in BOOLEAN

Init ==
    /\ CallsInit
    /\ inbox = <<>>
    /\ sent = 0
    /\ told = {}
    /\ loop = "ready"
    /\ active = NoTurn
    /\ started = 0
    /\ turn = [n \in Turns |-> "none"]
    /\ token = {}
    /\ done = NoTurn
    /\ mirror = {}
    /\ paused = FALSE
    /\ completed = FALSE

sessionVars == <<inbox, sent, told, loop, active, started, turn, token, done,
                 mirror, paused, completed>>

----------------------------------------------------------------------------
(* The client.  It answers a call it was asked about, possibly more than   *)
(* once or after the call has ended, and sends the rest at any time.       *)

Send ==
    /\ sent < MaxMessages
    /\ Len(inbox) < MaxInbox
    /\ loop # "closed"
    /\ \E m \in Messages :
        /\ m.kind = "result" => call[m.call] \in {"remote", "done", "dropped"}
        /\ m.kind = "decision" => m.call \in told
        /\ inbox' = Append(inbox, m)
    /\ sent' = sent + 1
    /\ UNCHANGED <<callVars, told, loop, active, started, turn, token, done,
                   mirror, paused, completed>>

----------------------------------------------------------------------------
(* The turn task                                                           *)

\* Mutant: only a safe pause keeps a turn from starting
BeginUnlessPaused(n) ==
    /\ turn[n] = "spawned"
    /\ ~Locked
    /\ turn' = [turn EXCEPT ![n] = IF paused THEN "released" ELSE "running"]
    /\ UNCHANGED <<callVars, inbox, sent, told, loop, active, started, token,
                   done, mirror, paused, completed>>

\* run_turn_streaming begins: ensure_turn_can_start decides
BeginTurn(n) ==
    /\ turn[n] = "spawned"
    /\ ~Locked
    /\ turn' = [turn EXCEPT ![n] = IF completed \/ paused THEN "released" ELSE "running"]
    /\ UNCHANGED <<callVars, inbox, sent, told, loop, active, started, token,
                   done, mirror, paused, completed>>

Agent(n) == turn[n] = "running" /\ AgentStep /\ UNCHANGED sessionVars
Timer(n) == turn[n] = "running" /\ TimerStep /\ UNCHANGED sessionVars

\* emit_presence_signal: state.pending_approvals follows the signals, and the
\* client hears of them
Apply(S, s) == IF s.kind = "requested" THEN S \union {s.call} ELSE S \ {s.call}

TakeSignal(n) ==
    /\ HoldsRuntime(n)
    /\ presence # <<>>
    /\ presence' = Tail(presence)
    /\ mirror' = Apply(mirror, Head(presence))
    /\ told' = told \union {Head(presence).call}
    /\ UNCHANGED <<call, gated, approvals, answer, results, reply, inbox, sent,
                   loop, active, started, turn, token, done, paused, completed>>

\* The agent loop ends by itself: it has answered, or has failed with a kind
\* (SafetyBlocked, CircuitBreakerTripped) that the recovery policy answers
\* with a safe pause, or with one (ModelError, ToolError) that it does not
AgentEnds(n) ==
    /\ turn[n] = "running"
    /\ Idle
    /\ \E s \in {"draining", "failing"} : turn' = [turn EXCEPT ![n] = s]
    /\ UNCHANGED <<callVars, inbox, sent, told, loop, active, started, token,
                   done, mirror, paused, completed>>

\* Mutant: the token is looked at between two calls only
AbortIdleAgent(n) ==
    /\ turn[n] = "running"
    /\ n \in token
    /\ Idle
    /\ turn' = [turn EXCEPT ![n] = "draining"]
    /\ UNCHANGED <<callVars, inbox, sent, told, loop, active, started, token,
                   done, mirror, paused, completed>>

\* The cancelled token wins the select: the agent's future is dropped, with
\* the gate and the executors it waits in
AbortAgent(n) ==
    /\ turn[n] = "running"
    /\ n \in token
    /\ turn' = [turn EXCEPT ![n] = "draining"]
    /\ call' = [c \in Calls |-> IF InFlight(c) THEN "dropped" ELSE call[c]]
    /\ UNCHANGED <<gated, approvals, answer, results, reply, presence, inbox,
                   sent, told, loop, active, started, token, done, mirror,
                   paused, completed>>

Draining(n) == turn[n] \in {"draining", "failing"}
Announced == {presence[i].call : i \in DOMAIN presence}

\* Mutant: the approvals are cleared before the last signals are applied
EndTurnEarly(n) ==
    /\ Draining(n)
    /\ approvals' = {}
    /\ mirror' = Announced
    /\ presence' = <<>>
    /\ told' = told \union Announced
    /\ paused' = (paused \/ turn[n] = "failing")
    /\ turn' = [turn EXCEPT ![n] = "released"]
    /\ UNCHANGED <<call, gated, answer, results, reply, inbox, sent, loop,
                   active, started, token, done, completed>>

\* The buffers are drained, then finish_active_turn or handle_turn_failure
\* clears the approvals of the state and of the handle
EndTurn(n) ==
    /\ Draining(n)
    /\ approvals' = {}
    /\ mirror' = {}
    /\ presence' = <<>>
    /\ told' = told \union Announced
    /\ paused' = (paused \/ turn[n] = "failing")
    /\ turn' = [turn EXCEPT ![n] = "released"]
    /\ UNCHANGED <<call, gated, answer, results, reply, inbox, sent, loop,
                   active, started, token, done, completed>>

\* The mutex is free: the token is cancelled and the completion sent
SendDone(n) ==
    /\ turn[n] = "released"
    /\ done = NoTurn \/ loop = "closed"
    /\ token' = token \union {n}
    /\ done' = IF loop = "closed" THEN done ELSE n
    /\ turn' = [turn EXCEPT ![n] = "gone"]
    /\ UNCHANGED <<callVars, inbox, sent, told, loop, active, started, mirror,
                   paused, completed>>

TurnStep(n) ==
    BeginTurn(n) \/ Agent(n) \/ TakeSignal(n) \/ AgentEnds(n)
        \/ AbortAgent(n) \/ EndTurn(n) \/ SendDone(n)

----------------------------------------------------------------------------
(* The session loop                                                        *)

Received(k) == loop = "ready" /\ inbox # <<>> /\ Head(inbox).kind = k
Consume == inbox' = Tail(inbox)

\* Mutant: the map of pending results is renewed before the turn in progress
\* is noticed
HandleUserAfresh ==
    /\ Received("user")
    /\ Consume
    /\ \/ /\ active = NoTurn
          /\ started < MaxTurns
          /\ started' = started + 1
          /\ active' = started'
          /\ turn' = [turn EXCEPT ![started'] = "spawned"]
       \/ UNCHANGED <<started, active, turn>>
    /\ results' = {}
    /\ UNCHANGED <<call, gated, approvals, answer, reply, presence, sent, told,
                   loop, token, done, mirror, paused, completed>>

\* A user message starts a turn with a cancel token and a map of pending
\* results of its own, unless one is in progress or no model can be created
HandleUser ==
    /\ Received("user")
    /\ Consume
    /\ \/ /\ active = NoTurn
          /\ started < MaxTurns
          /\ started' = started + 1
          /\ active' = started'
          /\ turn' = [turn EXCEPT ![started'] = "spawned"]
          /\ results' = {}
       \/ UNCHANGED <<started, active, turn, results>>
    /\ UNCHANGED <<call, gated, approvals, answer, reply, presence, sent, told,
                   loop, token, done, mirror, paused, completed>>

HandleResult ==
    /\ Received("result")
    /\ Consume
    /\ IF active = NoTurn THEN UNCHANGED callVars ELSE ResolvePending(Head(inbox).call)
    /\ UNCHANGED <<sent, told, loop, active, started, turn, token, done, mirror,
                   paused, completed>>

HandleDecision ==
    /\ Received("decision")
    /\ Consume
    /\ IF active = NoTurn
       THEN UNCHANGED callVars
       ELSE ResolveApproval(Head(inbox).call, Head(inbox).decision)
    /\ UNCHANGED <<sent, told, loop, active, started, turn, token, done, mirror,
                   paused, completed>>

\* Mutant: the next turn need not wait for the cancelled one to drain
CancelForgets ==
    /\ Received("cancel")
    /\ Consume
    /\ token' = token \union ({active} \ {NoTurn})
    /\ active' = NoTurn
    /\ UNCHANGED <<callVars, sent, told, loop, started, turn, done, mirror,
                   paused, completed>>

\* CancelTurn leaves active_turn alone: turn_done clears it
HandleCancel ==
    /\ Received("cancel")
    /\ Consume
    /\ token' = token \union ({active} \ {NoTurn})
    /\ UNCHANGED <<callVars, sent, told, loop, active, started, turn, done,
                   mirror, paused, completed>>

\* RegisterTools, or a StartSession for a session that has started: the loop
\* takes no other message until it has had the runtime's mutex
HandleSync ==
    /\ Received("sync")
    /\ Consume
    /\ loop' = "syncing"
    /\ UNCHANGED <<callVars, sent, told, active, started, turn, token, done,
                   mirror, paused, completed>>

Synced ==
    /\ loop = "syncing"
    /\ ~Locked
    /\ loop' = "ready"
    /\ UNCHANGED <<callVars, inbox, sent, told, active, started, turn, token,
                   done, mirror, paused, completed>>

\* The completion of a turn.  When the runtime's events are drained to the
\* client after a completed turn, the client may turn out to be gone
HandleDone ==
    /\ loop = "ready"
    /\ done # NoTurn
    /\ done' = NoTurn
    /\ \/ active' = NoTurn /\ UNCHANGED loop
       \/ loop' = "closing" /\ UNCHANGED active
    /\ UNCHANGED <<callVars, inbox, sent, told, started, turn, token, mirror,
                   paused, completed>>

\* Mutant: the turn in flight is left to its timers
CloseQuietly ==
    /\ Received("close")
    /\ Consume
    /\ loop' = "closing"
    /\ UNCHANGED <<callVars, sent, told, active, started, turn, token, done,
                   mirror, paused, completed>>

\* CancelSession, the end of the stream or an error on it: the loop is left
\* and the turn in flight cancelled
HandleClose ==
    /\ Received("close")
    /\ Consume
    /\ loop' = "closing"
    /\ token' = token \union ({active} \ {NoTurn})
    /\ UNCHANGED <<callVars, sent, told, active, started, turn, done, mirror,
                   paused, completed>>

\* Under the mutex the loop looks whether the session is over already ...
CheckEnded ==
    /\ loop = "closing"
    /\ ~Locked
    /\ loop' = IF completed THEN "closed" ELSE "completing"
    /\ UNCHANGED <<callVars, inbox, sent, told, active, started, turn, token,
                   done, mirror, paused, completed>>

\* ... and takes it again for complete_session
CompleteSession ==
    /\ loop = "completing"
    /\ ~Locked
    /\ completed' = TRUE
    /\ loop' = "closed"
    /\ UNCHANGED <<callVars, inbox, sent, told, active, started, turn, token,
                   done, mirror, paused>>

LoopStep ==
    HandleUser \/ HandleResult \/ HandleDecision \/ HandleCancel \/ HandleSync
        \/ Synced \/ HandleDone \/ HandleClose \/ CheckEnded \/ CompleteSession

Next ==
    \/ Send
    \/ LoopStep
    \/ \E n \in Turns : TurnStep(n) \/ Timer(n)

Spec == Init /\ [][Next]_vars

(* Tokio polls what is ready: the loop and the turn task go on.  Nothing   *)
(* makes the client speak, and the timers are left out but where a         *)
(* property asks for them.                                                 *)
Fairness == WF_vars(LoopStep) /\ \A n \in Turns : WF_vars(TurnStep(n))
FairSpec == Spec /\ Fairness

----------------------------------------------------------------------------
(* Whoever waits for the client can be reached: the sender of a call at    *)
(* the gate, or of one sent to the client, is where the session loop looks *)
(* for it until it has been used.  A message that starts a turn, a         *)
(* repeated answer or the end of another turn never strands a waiting call *)
(* (register_pending_approval before the request is announced, the insert  *)
(* into PendingResults before the call is sent).                           *)
WaitersReachable ==
    \A c \in Calls :
        /\ AtGate(c) => c \in approvals \/ answer[c] # NoAnswer
        /\ call[c] = "remote" => c \in results \/ c \in reply

(* A call that needed a human reaches the client's tool only after the     *)
(* session loop has delivered an approval for it: a time-out, a decision   *)
(* that comes too late, an approval whose modifier does not merge and a    *)
(* cancelled turn all leave it unexecuted (gate_tool_call_for_human_       *)
(* approval and wait_for_human_approval).                                  *)
GatedCallsApproved ==
    \A c \in gated : call[c] = "remote" \/ c \in results \union reply => answer[c] = "allow"

(* No approval outlives its turn: once the turn has given the runtime's    *)
(* mutex back, neither the handle nor the runtime's state holds one, and   *)
(* no signal is left that could bring one back, however the turn ended     *)
(* (clear_turn_approvals, after the buffers are drained).                  *)
ApprovalsEndWithTurn ==
    ~Locked => approvals = {} /\ mirror = {} /\ presence = <<>>

(* One turn at a time: a new turn task starts only when the one before has *)
(* fully drained, a cancelled one included (active_turn is cleared by      *)
(* turn_done alone).                                                       *)
OneTurnAtATime == \A m, n \in Turns : Alive(m) /\ Alive(n) => m = n

(* A completed session runs no turn: a turn task that was spawned but had  *)
(* not had the mutex when the loop closed finds the session completed      *)
(* (ensure_turn_can_start, complete_session).                              *)
NoTurnInCompletedSession == completed => ~Locked

(* The session as its supervisor sees it: what holds the runtime's mutex   *)
(* is one stage, what waits at the gate another, and a call that was       *)
(* answered, refused, timed out or dropped has ended.                      *)
Stage(n) == IF HoldsRuntime(n) THEN "holds" ELSE turn[n]
Standing(c) ==
    IF AtGate(c) THEN "asked"
    ELSE IF call[c] \in {"done", "dropped"} THEN "ended" ELSE call[c]

Supervised == INSTANCE SupervisedSession WITH
    stage <- [n \in Turns |-> Stage(n)],
    call <- [c \in Calls |-> Standing(c)],
    asked <- gated, decision <- answer, over <- completed

(* The session keeps what SupervisedSession promises: no late, repeated or *)
(* reordered message, cancellation, time-out, failure or close makes turns *)
(* overlap, lets a call outlive its turn or a physical call run beside     *)
(* another, or replaces the first answer a human gave (run_session_loop,   *)
(* dispatch_tool_calls, resolve_approval).                                 *)
ImplementsSupervisedSession == Supervised!Spec

(* A cancelled turn ends, whatever its calls wait for and without any of   *)
(* their timers.                                                           *)
CancelledTurnEnds == \A n \in Turns : (n \in token) ~> (turn[n] = "gone")

(* A session that begins to close gets closed: the loop waits for a mutex  *)
(* held by a turn that waits for the loop, and only the token it cancelled *)
(* lets the turn go.                                                       *)
SessionCloses == (loop = "closing") ~> (loop = "closed")

(* Every turn ends, and the session can take the next message, given the   *)
(* timers: also when the loop waits for the mutex of a turn that waits for *)
(* an answer queued behind it.                                             *)
TimersFire == \A n \in Turns : WF_vars(Timer(n))
TurnsEnd == TimersFire => \A n \in Turns : Alive(n) ~> ~Alive(n)
=============================================================================
