----------------------------- MODULE MCAgentChat -----------------------------
(* One request, one run of another client. *)
EXTENDS AgentChat
CONSTANTS mine, other
=============================================================================
