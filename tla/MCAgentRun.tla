------------------------------ MODULE MCAgentRun ------------------------------
(* Small instances of AgentRun.                                            *)
EXTENDS AgentRun
CONSTANTS o1, o2, a1, a2
=============================================================================
