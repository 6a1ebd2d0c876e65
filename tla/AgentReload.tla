---------------------------- MODULE AgentReload ----------------------------
(***************************************************************************)
(* AgentProcess with the live reload of a profile's local targets: the     *)
(* generations an operator writes to disk, and the reload runtime that     *)
(* main owns as one more future.                                           *)
(***************************************************************************)
EXTENDS AgentProcess

CONSTANTS MaxGeneration, Digests

VARIABLES
  offered,  \* the manifest on disk: generation, digest, and whether the
            \* candidate keeps the shared profile and the set of tunnels
  active    \* TunnelTargetState: generation, digest and health

reloadVars == <<vars, offered, active>>

\* TunnelTargetSet::reloadable, from the generation main started with.
ReloadInit ==
  /\ Init
  /\ offered = [generation |-> 1, digest |-> CHOOSE d \in Digests : TRUE, valid |-> TRUE]
  /\ active = [generation |-> 1, digest |-> offered.digest, health |-> "healthy"]

OperatorWrites ==
  /\ \E g \in 1..MaxGeneration, d \in Digests, v \in BOOLEAN :
       offered' = [generation |-> g, digest |-> d, valid |-> v]
  /\ UNCHANGED <<vars, active>>

\* TunnelTargetSet::apply, with record_reload_failure for what it rejects.
Rejected(o, a) ==
  \/ o.generation < a.generation
  \/ o.generation = a.generation /\ o.digest # a.digest
  \/ ~o.valid
apply(o, a) ==
  IF Rejected(o, a) THEN [a EXCEPT !.health = "failed"]
  ELSE [generation |-> o.generation, digest |-> o.digest, health |-> "healthy"]

reload_once ==
  /\ cfg.multi /\ Polled("tunnelReload") /\ comp["tunnelReload"] = "run" /\ ~signal
  /\ active' = apply(offered, active)
  /\ UNCHANGED <<vars, offered>>

ReloadNext == (Next /\ UNCHANGED <<offered, active>>) \/ OperatorWrites \/ reload_once

ReloadSpec == ReloadInit /\ [][ReloadNext]_reloadVars /\ Fairness /\ WF_reloadVars(reload_once)

\* "Operators can move local services without ... reconnecting Agent
\* transports" (docs/ai/DECISIONS.md, ADR-055): while the process serves, a
\* valid newer generation on disk is applied unless another one replaces it.
TargetReloadApplies ==
  \A g \in 1..MaxGeneration :
    (cfg.multi /\ main = "select" /\ offered.generation = g /\ offered.valid /\ g > active.generation)
      ~> (main # "select" \/ offered.generation # g \/ ~offered.valid \/ active.generation >= g)
=============================================================================
