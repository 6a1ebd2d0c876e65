--------------------------- MODULE MCEdgeRegistry ---------------------------
(***************************************************************************)
(* The registration of Agents at an Edge for TLC.  A behaviour explores    *)
(* one of two parts that share no state: the registry of sessions under    *)
(* snapshots, router calls and shutdown, or one Agent that keeps itself    *)
(* registered over failing connections.                                    *)
(*                                                                         *)
(* At the registry either two Agents compete for one tunnel, or one Agent  *)
(* serves two router calls: the others never come.  The two Agents are     *)
(* interchangeable, and so are the two calls and the unused connections of *)
(* the one Agent: c1 comes first, and a new call or connection is a fixed  *)
(* one of the unused.                                                      *)
(***************************************************************************)
EXTENDS EdgeRegistry, AgentLink

CONSTANTS t1, c1

VARIABLES part, present \* the connections and the router calls of this behaviour

\* All connections compete for one tunnel.
const_SharedTunnel == [c \in Conns |-> t1]

MCInit == /\ Init /\ LinkInit
          /\ part \in {"registry", "link"} /\ (granted => part = "link")
          /\ present \in IF part = "registry" THEN {Conns, {c1} \cup Opens} ELSE {{}}
          /\ grants[0] \subseteq present

NextOpen == CHOOSE o \in Opens : open[o] = "idle"

RegistryNext ==
  /\ part = "registry" /\ Next
  /\ \A c \in Conns \ present : conn'[c] = "idle" /\ c \notin grants'[current']
  /\ \A c \in Conns : conn'[c] # "idle" => conn'[c1] # "idle"
  /\ \A o \in Opens \ present : open'[o] = "idle"
  /\ \A o \in Opens : open[o] = "idle" /\ open'[o] # "idle" => o = NextOpen

UnusedLink == CHOOSE c \in Links : ends[c] = {} /\ edge[c] = "none"

OneLinkNext ==
  part = "link" /\ LinkNext /\ (held' \notin {held, NoConn} => held' = UnusedLink)

MCNext == /\ UNCHANGED <<part, present>>
          /\ \/ RegistryNext /\ UNCHANGED linkVars
             \/ OneLinkNext /\ UNCHANGED vars

(* The fairness of each part, for the behaviours that explore it.          *)
Registry(A) == part = "registry" /\ A
Linking(A) == part = "link" /\ A
MCFairness ==
  /\ WF_vars(Registry(LoopStep)) /\ SF_vars(Registry(PruneTunnels))
  /\ \A c \in Conns : /\ WF_vars(Registry(ConnStep(c))) /\ SF_vars(Registry(GateStep(c)))
                      /\ WF_vars(Registry(Abort(c)))
  /\ \A o \in Opens : /\ WF_vars(Registry(EnqueueIo(o)))
                      /\ WF_vars(Registry(StreamMustEnd(o) /\ StreamEnds(o)))
  /\ WF_linkVars(Linking(\E c \in Links : Connect(c)))
  /\ \A c \in Links : /\ WF_linkVars(Linking(AgentStep(c)))
                      /\ WF_linkVars(Linking(EdgeStep(c)))

MCSpec == MCInit /\ [][MCNext]_<<part, present, vars, linkVars>> /\ MCFairness
=============================================================================
