----------------------------- MODULE MCAgentLife -----------------------------
(* Instances of AgentLife for TLC. *)
EXTENDS AgentLife
=============================================================================
