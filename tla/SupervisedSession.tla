-------------------------- MODULE SupervisedSession --------------------------
(***************************************************************************)
(* What an agent session promises to the human who supervises it, with no  *)
(* messages, channels, locks, tokens, signals or timers.                   *)
(*                                                                         *)
(* Turns are taken one after the other, each after the one before is gone, *)
(* and none begins in a session that is over.  Tool calls are made by a    *)
(* turn at work and end before it leaves; a physical call runs alone.  A   *)
(* call that asked is decided once, by its first answer, and goes to the   *)
(* client only when that answer allows it.                                 *)
(***************************************************************************)
EXTENDS Integers

CONSTANTS
    Turns,      \* the turns, in the order they are taken
    Calls,      \* the tool calls
    Physical    \* the calls that move something

VARIABLES
    stage,      \* per turn: "none", "spawned", "holds", "released" or "gone"
    call,       \* per call: "unused", "asked", "remote" or "ended"
    asked,      \* the calls that needed a human
    decision,   \* per call, what the human decided, or "none"
    over        \* the session is over

vars == <<stage, call, asked, decision, over>>

Init ==
    /\ stage = [n \in Turns |-> "none"]
    /\ call = [c \in Calls |-> "unused"]
    /\ asked = {}
    /\ decision = [c \in Calls |-> "none"]
    /\ over = FALSE

Working == \E n \in Turns : stage[n] = "holds"
Quiet == \A c \in Calls : call[c] \notin {"asked", "remote"}
-----------------------------------------------------------------------------
(* Turns *)

Moves(n, to) ==
    /\ stage' = [stage EXCEPT ![n] = to]
    /\ UNCHANGED <<call, asked, decision, over>>

Spawn(n) ==
    /\ \A m \in Turns : stage[m] = IF m < n THEN "gone" ELSE "none"
    /\ Moves(n, "spawned")

Enter(n) == stage[n] = "spawned" /\ ~over /\ Moves(n, "holds")
TurnAway(n) == stage[n] = "spawned" /\ Moves(n, "released")
Leave(n) == stage[n] = "holds" /\ Quiet /\ Moves(n, "released")
End(n) == stage[n] = "released" /\ Moves(n, "gone")
-----------------------------------------------------------------------------
(* Calls *)

\* The calls of S, all unused: several pure ones, or one physical call
Segment(S) ==
    /\ Working /\ Quiet
    /\ \A c \in S : call[c] = "unused"
    /\ S \subseteq Calls \ Physical \/ \E c \in Physical : S = {c}

Becomes(S, to) == call' = [c \in Calls |-> IF c \in S THEN to ELSE call[c]]

Run(S) ==
    /\ Segment(S)
    /\ Becomes(S, "remote")
    /\ UNCHANGED <<stage, asked, decision, over>>

Block(c) ==
    /\ Segment({c})
    /\ Becomes({c}, "ended")
    /\ UNCHANGED <<stage, asked, decision, over>>

Ask(c) ==
    /\ Segment({c})
    /\ Becomes({c}, "asked")
    /\ asked' = asked \union {c}
    /\ UNCHANGED <<stage, decision, over>>

Decide(c) ==
    /\ call[c] = "asked" /\ decision[c] = "none"
    /\ \E d \in {"allow", "invalid", "deny"} :
          decision' = [decision EXCEPT ![c] = d]
    /\ UNCHANGED <<stage, call, asked, over>>

Proceed(c) ==
    /\ call[c] = "asked" /\ decision[c] = "allow"
    /\ Becomes({c}, "remote")
    /\ UNCHANGED <<stage, asked, decision, over>>

Finish(S) ==
    /\ \A c \in S : call[c] \in {"asked", "remote"}
    /\ Becomes(S, "ended")
    /\ UNCHANGED <<stage, asked, decision, over>>

Complete ==
    /\ ~Working
    /\ over' = TRUE
    /\ UNCHANGED <<stage, call, asked, decision>>

Next ==
    \/ \E n \in Turns :
          Spawn(n) \/ Enter(n) \/ TurnAway(n) \/ Leave(n) \/ End(n)
    \/ \E c \in Calls : Block(c) \/ Ask(c) \/ Decide(c) \/ Proceed(c)
    \/ \E S \in SUBSET Calls : Run(S) \/ Finish(S)
    \/ Complete

Spec == Init /\ [][Next]_vars
=============================================================================
