---------------------------- MODULE MCWorkerEstop ----------------------------
(* Instances of WorkerEstop for TLC *)
EXTENDS WorkerEstop, TLC

CONSTANTS w1, w2, t1, t2
=============================================================================
