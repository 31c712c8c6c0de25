---------------------------- MODULE MCAgentGraph ----------------------------
(* Small instances of AgentGraph for TLC. *)
EXTENDS AgentGraph

\* A model call reports nothing (usage missing) or one unit of tokens.
FreeOrOne == {0, 1}
BothModes == {"react", "plan_execute"}
=============================================================================
