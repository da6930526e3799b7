-------------------------- MODULE MCScheduleClaims --------------------------
(* Instances of ScheduleClaims for TLC *)
EXTENDS ScheduleClaims, TLC

EveryMoment == {{1, 2, 3}}
=============================================================================
