---------------------------- MODULE TaskRecords ----------------------------
(***************************************************************************)
(* What the records of a task promise, with no workers, messages, slots,   *)
(* transactions or faults.                                                 *)
(*                                                                         *)
(* A task that is filed stays on file.  Its execution has one outcome.  It *)
(* has one run, recorded only for a task on file, and one promise, which   *)
(* its workflow awaits: each is settled at most once, after the outcome is *)
(* known and with that outcome.                                            *)
(***************************************************************************)
CONSTANTS Tasks, Outcomes

VARIABLES
    filed,      \* the tasks on file
    outcome,    \* per task, what its execution ended with, or "none"
    run,        \* per task, its run: "none", "open" or the outcome it records
    promise     \* per task, the promise: "none", "awaiting" or the outcome

vars == <<filed, outcome, run, promise>>

Init ==
    /\ filed = {}
    /\ outcome = [t \in Tasks |-> "none"]
    /\ run = [t \in Tasks |-> "none"]
    /\ promise = [t \in Tasks |-> "none"]

File(t) ==
    /\ t \notin filed
    /\ filed' = filed \union {t}
    /\ UNCHANGED <<outcome, run, promise>>

Decide(t) ==
    /\ outcome[t] = "none"
    /\ \E o \in Outcomes : outcome' = [outcome EXCEPT ![t] = o]
    /\ UNCHANGED <<filed, run, promise>>

Open(t) ==
    /\ t \in filed
    /\ run[t] = "none"
    /\ run' = [run EXCEPT ![t] = "open"]
    /\ UNCHANGED <<filed, outcome, promise>>

Close(t) ==
    /\ t \in filed
    /\ run[t] \in {"none", "open"}
    /\ outcome[t] \in Outcomes
    /\ run' = [run EXCEPT ![t] = outcome[t]]
    /\ UNCHANGED <<filed, outcome, promise>>

Await(t) ==
    /\ promise[t] = "none"
    /\ promise' = [promise EXCEPT ![t] = "awaiting"]
    /\ UNCHANGED <<filed, outcome, run>>

Resolve(t) ==
    /\ promise[t] = "awaiting"
    /\ outcome[t] \in Outcomes
    /\ promise' = [promise EXCEPT ![t] = outcome[t]]
    /\ UNCHANGED <<filed, outcome, run>>

Next ==
    \E t \in Tasks :
        File(t) \/ Decide(t) \/ Open(t) \/ Close(t) \/ Await(t) \/ Resolve(t)

Spec == Init /\ [][Next]_vars
=============================================================================
