---------------------------- MODULE MCAgentCalls ----------------------------
(***************************************************************************)
(* AgentCalls for TLC.                                                     *)
(***************************************************************************)
EXTENDS AgentCalls
=============================================================================
