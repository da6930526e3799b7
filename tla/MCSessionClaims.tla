--------------------------- MODULE MCSessionClaims ---------------------------
(* Instances of SessionClaims for TLC *)
EXTENDS SessionClaims, TLC

CONSTANTS move, look
=============================================================================
