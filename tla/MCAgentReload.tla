--------------------------- MODULE MCAgentReload ---------------------------
(* A config-v2 profile of one tunnel that opted into target reload. *)
EXTENDS AgentReload

MCConfigs == [multi: {TRUE}, probe: {"off"}, tunnels: {Tunnels}]
=============================================================================
