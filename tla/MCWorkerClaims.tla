--------------------------- MODULE MCWorkerClaims ---------------------------
(* Instances of WorkerClaims for TLC *)
EXTENDS WorkerClaims, TLC

CONSTANTS w1, t1
=============================================================================
