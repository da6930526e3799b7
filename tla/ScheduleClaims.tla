--------------------------- MODULE ScheduleClaims ---------------------------
(***************************************************************************)
(* What the command line says of the catch-up policy, against the          *)
(* workflow of a scheduled task.                                           *)
(***************************************************************************)
EXTENDS ScheduledTasks

\* "Catch-up behavior when the server misses one or more fire windows."
\* (roz-cli commands/schedule.rs): the policy is about missed windows, so an
\* iteration that is run at the very moment of next_fire_at, when nothing was
\* missed, fires that occurrence whatever the policy.
OnTimeRunFires ==
    [][(pc = "execute" /\ pc' = "dispatch" /\ row.next = now) => now \in plan'.due]_vars
=============================================================================
