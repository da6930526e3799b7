---------------------------- MODULE WorkerClaims ----------------------------
(***************************************************************************)
(* What the safety daemon's source says of its watchdog, against the       *)
(* e-stop path.                                                            *)
(***************************************************************************)
EXTENDS WorkerEstop

\* "Watchdog loop: publish our own heartbeat and check for stale workers"
\* (roz-safety main.rs): an entry that has gone stale is found, whichever the
\* other workers do.
WatchdogChecks ==
    \A w \in Workers : tracker[w] = "stale" ~> tracker[w] # "stale"
=============================================================================
