--------------------------- MODULE MCAgentServer ---------------------------
(* An instance of AgentServer for TLC: two agents, one send each. *)
EXTENDS AgentServer

CONSTANTS s1, s2, a1, a2

OwnAgent == [s \in Sends |-> IF s = s1 THEN a1 ELSE a2]
=============================================================================
