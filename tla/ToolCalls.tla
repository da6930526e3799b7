------------------------------ MODULE ToolCalls ------------------------------
(***************************************************************************)
(* The tool calls of an agent turn (roz-agent agent_loop/dispatch.rs,      *)
(* agent_loop/approvals.rs and dispatch/remote.rs): the order they are     *)
(* dispatched in, the gate that suspends a call until a human decides, and *)
(* the remote executor that waits for the client's result.                 *)
(*                                                                         *)
(* A gate and an executor each wait on a oneshot channel whose sender sits *)
(* in a map keyed by the call's id, for the session loop to find.  A call  *)
(* is its id, which the model provider draws afresh.  Every tool is one of *)
(* the client's: what runs on the server needs no answer and is part of    *)
(* the agent's own work.                                                   *)
(***************************************************************************)
EXTENDS Integers, Sequences

CONSTANTS
    Calls,      \* the ids of the calls the model may make
    Physical    \* those of ToolCategory::Physical; the others are Pure

ASSUME CallsAssumption == Physical \subseteq Calls

VARIABLES
    call,       \* where each call stands
    gated,      \* the calls whose safety verdict was NeedsHuman
    approvals,  \* the keys of pending_approvals
    answer,     \* what the decision channel of each call holds
    results,    \* the keys of the turn's PendingResults
    reply,      \* the calls whose result channel holds the client's result
    presence    \* the approval signals the runtime has not taken, in order

callVars == <<call, gated, approvals, answer, results, reply, presence>>

CallSteps ==
    {"unused",      \* not made yet
     "asking",      \* sender registered, the request not announced yet
     "waiting",     \* suspended at the gate
     "expired",     \* the gate's time is up, its sender still registered
     "remote",      \* sent to the client
     "done",        \* has its ToolResult
     "dropped"}     \* its future was dropped with the cancelled turn

\* The senders of a dropped or finished future stay in the maps, but nobody
\* receives what is sent on them
AtGate(c) == call[c] \in {"asking", "waiting", "expired"}
InFlight(c) == AtGate(c) \/ call[c] = "remote"

NoAnswer == "none"
\* An approval may carry a modifier that does not merge into the call's input
Decisions == {"allow", "invalid", "deny"}
Signals == [kind : {"requested", "resolved"}, call : Calls]
Signal(k, c) == [kind |-> k, call |-> c]

CallsTypeOK ==
    /\ call \in [Calls -> CallSteps]
    /\ gated \in SUBSET Physical
    /\ approvals \in SUBSET Physical
    /\ answer \in [Calls -> Decisions \union {NoAnswer}]
    /\ results \in SUBSET Calls
    /\ reply \in SUBSET Calls
    /\ presence \in Seq(Signals)

CallsInit ==
    /\ call = [c \in Calls |-> "unused"]
    /\ gated = {}
    /\ approvals = {}
    /\ answer = [c \in Calls |-> NoAnswer]
    /\ results = {}
    /\ reply = {}
    /\ presence = <<>>

----------------------------------------------------------------------------
(* dispatch_tool_calls: a physical call runs alone, a run of pure calls    *)
(* concurrently, and a segment starts when the one before has ended        *)

Idle == \A c \in Calls : ~InFlight(c)

DispatchPure ==
    /\ Idle
    /\ \E S \in SUBSET {c \in Calls \ Physical : call[c] = "unused"} :
        /\ S # {}
        /\ call' = [c \in Calls |-> IF c \in S THEN "remote" ELSE call[c]]
        /\ results' = results \union S
    /\ UNCHANGED <<gated, approvals, answer, reply, presence>>

\* SafetyResult::Approved and ::Blocked
DispatchPhysical ==
    /\ Idle
    /\ \E c \in Physical :
        /\ call[c] = "unused"
        /\ \/ /\ call' = [call EXCEPT ![c] = "remote"]
              /\ results' = results \union {c}
           \/ /\ call' = [call EXCEPT ![c] = "done"]
              /\ UNCHANGED results
    /\ UNCHANGED <<gated, approvals, answer, reply, presence>>

\* SafetyResult::NeedsHuman: the gate registers its sender ...
OpenGate ==
    /\ Idle
    /\ \E c \in Physical :
        /\ call[c] = "unused"
        /\ call' = [call EXCEPT ![c] = "asking"]
        /\ gated' = gated \union {c}
        /\ approvals' = approvals \union {c}
    /\ UNCHANGED <<answer, results, reply, presence>>

\* ... and then announces the request
Announce ==
    \E c \in Calls :
        /\ call[c] = "asking"
        /\ call' = [call EXCEPT ![c] = "waiting"]
        /\ presence' = Append(presence, Signal("requested", c))
        /\ UNCHANGED <<gated, approvals, answer, results, reply>>

\* Mutant: a modifier that does not merge is ignored
DecidedNotDenied ==
    \E c \in Calls :
        /\ call[c] = "waiting"
        /\ answer[c] # NoAnswer
        /\ presence' = Append(presence, Signal("resolved", c))
        /\ \/ /\ answer[c] # "deny"
              /\ call' = [call EXCEPT ![c] = "remote"]
              /\ results' = results \union {c}
           \/ /\ answer[c] = "deny"
              /\ call' = [call EXCEPT ![c] = "done"]
              /\ UNCHANGED results
        /\ UNCHANGED <<gated, approvals, answer, reply>>

\* The call goes on to the client only with an approval that merges
Decided ==
    \E c \in Calls :
        /\ call[c] = "waiting"
        /\ answer[c] # NoAnswer
        /\ presence' = Append(presence, Signal("resolved", c))
        /\ \/ /\ answer[c] = "allow"
              /\ call' = [call EXCEPT ![c] = "remote"]
              /\ results' = results \union {c}
           \/ /\ answer[c] # "allow"
              /\ call' = [call EXCEPT ![c] = "done"]
              /\ UNCHANGED results
        /\ UNCHANGED <<gated, approvals, answer, reply>>

\* The wait is polled before its timer, so an answer that is there is taken
GateTimesOut ==
    \E c \in Calls :
        /\ call[c] = "waiting"
        /\ answer[c] = NoAnswer
        /\ call' = [call EXCEPT ![c] = "expired"]
        /\ UNCHANGED <<gated, approvals, answer, results, reply, presence>>

\* Mutant: a decision that came after the time-out is waited for
AutoDenyRegistered ==
    \E c \in Calls :
        /\ call[c] = "expired"
        /\ c \in approvals
        /\ call' = [call EXCEPT ![c] = "done"]
        /\ approvals' = approvals \ {c}
        /\ presence' = Append(presence, Signal("resolved", c))
        /\ UNCHANGED <<gated, answer, results, reply>>

\* A decision that arrives between the time-out and this step is lost
AutoDeny ==
    \E c \in Calls :
        /\ call[c] = "expired"
        /\ call' = [call EXCEPT ![c] = "done"]
        /\ approvals' = approvals \ {c}
        /\ presence' = Append(presence, Signal("resolved", c))
        /\ UNCHANGED <<gated, answer, results, reply>>

TakeResult ==
    \E c \in Calls :
        /\ call[c] = "remote"
        /\ c \in reply
        /\ call' = [call EXCEPT ![c] = "done"]
        /\ UNCHANGED <<gated, approvals, answer, results, reply, presence>>

\* The dispatcher's timer and the executor's have the same length: when the
\* first ends the wait the sender stays in the map, the second removes it
ToolTimesOut ==
    \E c \in Calls :
        /\ call[c] = "remote"
        /\ c \notin reply
        /\ call' = [call EXCEPT ![c] = "done"]
        /\ results' \in {results, results \ {c}}
        /\ UNCHANGED <<gated, approvals, answer, reply, presence>>

\* What the agent loop does by itself, and what its timers do
AgentStep ==
    DispatchPure \/ DispatchPhysical \/ OpenGate \/ Announce \/ Decided
        \/ AutoDeny \/ TakeResult
TimerStep == GateTimesOut \/ ToolTimesOut

----------------------------------------------------------------------------
(* What the session loop calls                                             *)

\* resolve_approval
ResolveApproval(c, d) ==
    /\ approvals' = approvals \ {c}
    /\ answer' = [answer EXCEPT ![c] = IF c \in approvals /\ AtGate(c) THEN d ELSE @]
    /\ UNCHANGED <<call, gated, results, reply, presence>>

\* resolve_pending
ResolvePending(c) ==
    /\ results' = results \ {c}
    /\ reply' = IF c \in results /\ call[c] = "remote" THEN reply \union {c} ELSE reply
    /\ UNCHANGED <<call, gated, approvals, answer, presence>>
=============================================================================
