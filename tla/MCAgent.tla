------------------------------ MODULE MCAgent -------------------------------
(***************************************************************************)
(* The Agent for TLC.  A behaviour is either the process, from its startup *)
(* steps to its exit, or the reading and checking of a command line and a  *)
(* configuration file: AgentProcess starts from a configuration that       *)
(* AgentConfig accepted, and they share no state.                          *)
(*                                                                         *)
(* The processes are a single tunnel in each of its modes, a profile of    *)
(* two tunnels without probes and a profile of one monitored tunnel: the   *)
(* tunnels of a profile share nothing but the supervisor.                  *)
(***************************************************************************)
EXTENDS AgentProcess

CONSTANTS t1, t2, MaxChanges

VARIABLES part
VARIABLES command, flags, path, disk, manifest, pems, changes, read, profile, at, exit, validated

Config == INSTANCE AgentConfig

MCTunnels == {t1, t2}
MCConfigs == {[multi |-> FALSE, probe |-> p, tunnels |-> {t1}] : p \in Probes}
             \cup {[multi |-> TRUE, probe |-> "monitored", tunnels |-> {t1}],
                   [multi |-> TRUE, probe |-> "off", tunnels |-> {t1, t2}]}

configVars == <<command, flags, path, disk, manifest, pems, changes, read, profile, at, exit,
                validated>>

MCInit == /\ part \in {"process", "config"}
          /\ IF part = "process" THEN Init
             ELSE Init /\ cfg = [multi |-> FALSE, probe |-> "raw", tunnels |-> {t1}]
          /\ IF part = "config" THEN Config!AgentConfigInit
             ELSE /\ command = "tunnel" /\ flags = <<>> /\ path = "none" /\ pems = TRUE
                  /\ disk = Config!NoDocument /\ manifest = disk /\ changes = 0
                  /\ read = Config!NoRead /\ profile = Config!NoProfile
                  /\ at = <<"line">> /\ exit = "none" /\ validated = FALSE

(* A command that has exited, or that runs, has no further check to make.  *)
Settled == Head(at) \in {"exit", "running"} /\ UNCHANGED configVars

MCNext ==
  \/ part = "process" /\ Next /\ UNCHANGED <<part, configVars>>
  \/ part = "config" /\ (Config!AgentConfigNext \/ Settled) /\ UNCHANGED <<part, vars>>

MCSpec == MCInit /\ [][MCNext]_<<part, vars, configVars>> /\ Fairness

-----------------------------------------------------------------------------
(* What config validate accepts, the command the file is for accepts too;  *)
(* a reloadable profile is one generation; and however flags and file are  *)
(* combined a running Agent's settings belong together                     *)
(* (bootstrap_multi_agent_config, apply_shared, validate_http).            *)
ConfigurationSound == Config!ValidateAgrees /\ Config!OneGeneration /\ Config!RunningSound
=============================================================================
