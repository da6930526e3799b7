--------------------------- MODULE DeploymentState ---------------------------
(***************************************************************************)
(* The deployment states of a controller and their transition relation     *)
(* (roz-core controller/deployment.rs), with the two tables that           *)
(* roz-copper controller_lifecycle.rs keeps about them.                    *)
(***************************************************************************)

DeploymentStates ==
    {"VerifiedOnly", "Shadow", "Canary", "Active", "RolledBack", "Rejected"}

\* Option<DeploymentState>
NoState == "none"
OptionalStates == DeploymentStates \union {NoState}

\* can_transition_to
CanTransition(from, to) ==
    \/ from = "VerifiedOnly" /\ to \in {"Shadow", "Canary", "Rejected"}
    \/ from = "Shadow"       /\ to \in {"Canary", "Rejected", "Active"}
    \/ from = "Canary"       /\ to \in {"Active", "RolledBack"}
    \/ from = "Active"       /\ to = "RolledBack"

IsActuating(state) == state \in {"Canary", "Active"}

IsTerminal(state) == state \in {"RolledBack", "Rejected"}

\* retirement_state_for, defined on the states that are not terminal
RetirementStateFor(state) ==
    IF IsActuating(state) THEN "RolledBack" ELSE "Rejected"

\* evidence_mode_for_state: the execution mode under which the evidence for
\* leaving a state has to be collected
ExecutionModes == {"Verify", "Shadow", "Canary", "Live"}

EvidenceModeFor(state) ==
    CASE state = "VerifiedOnly" -> "Verify"
      [] state = "Shadow"       -> "Shadow"
      [] state = "Canary"       -> "Canary"
      [] OTHER                  -> "Live"
=============================================================================
