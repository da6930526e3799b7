----------------------------- MODULE TaskClaims -----------------------------
(***************************************************************************)
(* What the command line says of CancelTask, against the task lifecycle.   *)
(***************************************************************************)
EXTENDS TaskLifecycle

\* "Cancel a running task." (roz-cli commands/task.rs): a task that was cancelled
\* stays cancelled once its dispatch is over.
CancelSticks ==
    [][\A t \in Tasks : dispatch[t] = "done" /\ row[t] = "cancelled" => row'[t] = "cancelled"]_vars
=============================================================================
