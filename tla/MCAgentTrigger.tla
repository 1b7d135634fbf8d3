---------------------------- MODULE MCAgentTrigger ----------------------------
(* A small instance of AgentTrigger.                                       *)
EXTENDS AgentTrigger
CONSTANTS l1, l2, e1, e2
=============================================================================
