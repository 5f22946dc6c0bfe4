--------------------------- MODULE MCAgentActivity ---------------------------
(* Small instances of AgentActivity: see the MCAgentActivity*.cfg files.     *)
EXTENDS AgentActivity
==============================================================================
