--------------------------- MODULE MCTaskLifecycle ---------------------------
(* Instances of TaskLifecycle for TLC *)
EXTENDS TaskLifecycle, TLC

CONSTANTS t1, t2
=============================================================================
