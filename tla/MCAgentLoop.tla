----------------------------- MODULE MCAgentLoop -----------------------------
(* The instance of AgentLoop that TLC checks. *)
EXTENDS AgentLoop
=============================================================================
