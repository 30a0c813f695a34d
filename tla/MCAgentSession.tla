--------------------------- MODULE MCAgentSession ----------------------------
(* A conversation of a few turns, with several clients. *)
EXTENDS AgentSession
=============================================================================
