--------------------------- MODULE MCConfigTokens ---------------------------
(* Model values for the runs of the configuration's tokens. *)
EXTENDS ConfigTokens

CONSTANTS agent, deploy, c1

AgentAndDeploy == {agent, deploy}
JustAgent      == {agent}
OneCommand     == {c1}
=============================================================================
