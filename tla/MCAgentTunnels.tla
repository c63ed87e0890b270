--------------------------- MODULE MCAgentTunnels ---------------------------
(* Model values for the run of the agent's tunnels. *)
EXTENDS AgentTunnels

CONSTANTS s1, s2, o1

TwoSessions == {s1, s2}
OneOrg      == {o1}
=============================================================================
