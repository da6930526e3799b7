---------------------------- MODULE SafetyDaemon ----------------------------
(***************************************************************************)
(* The safety daemon (roz-safety main.rs and heartbeat.rs): it records the *)
(* heartbeats of the workers and publishes an e-stop for the ones that     *)
(* fell silent.                                                            *)
(*                                                                         *)
(* The only place that looks for stale entries is the heartbeat branch of  *)
(* the select loop, so staleness is noticed when some worker still beats.  *)
(* The list found there goes through a bounded channel to the branch that  *)
(* publishes; a list that does not fit is dropped.  Time is the action     *)
(* Age: thirty seconds without a heartbeat have passed.                    *)
(***************************************************************************)
EXTENDS Integers, Sequences

CONSTANTS
    Workers,        \* worker ids that send heartbeats
    Steady,         \* the workers whose heartbeats never stop
    StaleCapacity   \* capacity of the stale_tx channel (16 in main.rs)

ASSUME SteadyAssumption == Steady \subseteq Workers
ASSUME CapacityAssumption == StaleCapacity \in Nat \ {0}

VARIABLES
    beating,    \* the workers whose heartbeats reach the daemon
    tracker,    \* HeartbeatTracker: the age of the entry of each worker
    stale,      \* the lists of worker ids in the stale_tx channel
    stops,      \* the workers an e-stop is on its way to
    unsent      \* the workers whose e-stop could not be published

daemonVars == <<beating, tracker, stale, stops, unsent>>

Ages == {"absent", "fresh", "stale"}

DaemonTypeOK ==
    /\ beating \subseteq Workers
    /\ tracker \in [Workers -> Ages]
    /\ stale \in Seq(SUBSET Workers)
    /\ Len(stale) =< StaleCapacity
    /\ stops \subseteq Workers
    /\ unsent \subseteq Workers

DaemonInit ==
    /\ beating = Workers
    /\ tracker = [w \in Workers |-> "absent"]
    /\ stale = <<>>
    /\ stops = {}
    /\ unsent = {}

\* stale_workers
StaleWorkers(t) == {w \in Workers : t[w] = "stale"}

\* try_send: a list that finds the channel full is dropped
TrySend(queue, ids) ==
    IF ids = {} \/ Len(queue) >= StaleCapacity THEN queue ELSE Append(queue, ids)

\* Mutant: the entry that has just been recorded is looked for staleness alone
HeartbeatOwnEntry(w) ==
    /\ w \in beating
    /\ tracker' = [tracker EXCEPT ![w] = "fresh"]
    /\ stale' = TrySend(stale, StaleWorkers(tracker') \intersect {w})
    /\ UNCHANGED <<beating, stops, unsent>>

\* The heartbeat branch: the beat is recorded, then every entry is looked at
Heartbeat(w) ==
    /\ w \in beating
    /\ tracker' = [tracker EXCEPT ![w] = "fresh"]
    /\ stale' = TrySend(stale, StaleWorkers(tracker'))
    /\ UNCHANGED <<beating, stops, unsent>>

\* The stale_rx branch: one e-stop for each id of the list, and the entry is
\* removed whether or not the publication (failed: the ones that) went through
StopStale(failed) ==
    /\ stale # <<>>
    /\ failed \subseteq Head(stale)
    /\ stale' = Tail(stale)
    /\ stops' = stops \union (Head(stale) \ failed)
    /\ unsent' = unsent \union failed
    /\ tracker' = [w \in Workers |->
                      IF w \in Head(stale) THEN "absent" ELSE tracker[w]]
    /\ UNCHANGED beating

\* The clock: the entry of a silent worker reaches the threshold
Age(w) ==
    /\ w \notin beating
    /\ tracker[w] = "fresh"
    /\ tracker' = [tracker EXCEPT ![w] = "stale"]
    /\ UNCHANGED <<beating, stale, stops, unsent>>

\* The network or the worker fails, or comes back
FallSilent(w) ==
    /\ w \in beating \ Steady
    /\ beating' = beating \ {w}
    /\ UNCHANGED <<tracker, stale, stops, unsent>>

Recover(w) ==
    /\ w \notin beating
    /\ beating' = beating \union {w}
    /\ UNCHANGED <<tracker, stale, stops, unsent>>

DaemonNext ==
    \/ \E w \in Workers :
          Heartbeat(w) \/ Age(w) \/ FallSilent(w) \/ Recover(w)
    \/ \E failed \in SUBSET Workers : StopStale(failed)
=============================================================================
