-------------------------- MODULE MCAgentLifecycle --------------------------
(* AgentLifecycle on a small instance.                                      *)
EXTENDS AgentLifecycle

CONSTANTS c1, x1
=============================================================================
