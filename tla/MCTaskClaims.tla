---------------------------- MODULE MCTaskClaims ----------------------------
(* Instances of TaskClaims for TLC *)
EXTENDS TaskClaims, TLC

CONSTANT t1
=============================================================================
