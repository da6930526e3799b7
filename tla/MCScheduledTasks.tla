-------------------------- MODULE MCScheduledTasks --------------------------
(* Instances of ScheduledTasks for TLC *)
EXTENDS ScheduledTasks, TLC

\* Every moment, and one moment only
AllOrOne == {{1, 2, 3}, {2}}
=============================================================================
