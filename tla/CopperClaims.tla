---------------------------- MODULE CopperClaims ----------------------------
(***************************************************************************)
(* What a comment of the repository says of the Copper loop, and the loop  *)
(* does not do.                                                            *)
(***************************************************************************)
EXTENDS CopperLoop

\* deployment.rs:13, Canary is "Actuating hardware, auto-rollback on verifier
\* fail or watchdog": a watchdog timeout ends the canary stage
WatchdogEndsCanary ==
    [][pc = "watchdog" /\ pc' = "head" => candidate_state' # "Canary"]_vars
=============================================================================
