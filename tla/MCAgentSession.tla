---------------------------- MODULE MCAgentSession ----------------------------
(* Instances of AgentSession for TLC *)
EXTENDS AgentSession, TLC

CONSTANTS move, look
=============================================================================
