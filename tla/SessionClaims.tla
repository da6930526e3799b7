---------------------------- MODULE SessionClaims ----------------------------
(***************************************************************************)
(* What the comments of the agent session say, stated over AgentSession.   *)
(***************************************************************************)
EXTENDS AgentSession

(* The timers of a gate and of a remote call run for minutes, a message in *)
(* the inbox is taken in microseconds: a timer fires only when neither the *)
(* loop nor the turn has a step left to take.                              *)
Settled == ~ENABLED (LoopStep \/ \E n \in Turns : TurnStep(n))
SlowNext ==
    \/ Send
    \/ LoopStep
    \/ \E n \in Turns : TurnStep(n)
    \/ Settled /\ \E n \in Turns : Timer(n)
SlowSpec == Init /\ [][SlowNext]_vars

(* roz-agent dispatch/remote.rs says of a remote call that "A background   *)
(* task reads `ToolResult` messages from the gRPC inbound stream and       *)
(* resolves pending oneshot channels".  So no call times out while the     *)
(* result the client sent for it is in that stream.  The reader is the     *)
(* session loop, which waits for the runtime's mutex when tools are        *)
(* registered in the middle of a turn.                                     *)
SentResultsDelivered ==
    [][\A c \in Calls :
        (\E i \in DOMAIN inbox : inbox[i] = Message("result", c, NoAnswer))
            /\ call[c] = "remote"
            => call'[c] # "done" \/ c \in reply]_vars
=============================================================================
