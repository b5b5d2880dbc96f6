---------------------------- MODULE MCAgentShim ----------------------------
(* A small instance of AgentShim: the shim's client and the headless agent, *)
(* one call at a time.                                                      *)
EXTENDS AgentShim

CONSTANTS s1, d1
=============================================================================
