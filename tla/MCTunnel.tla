------------------------------ MODULE MCTunnel ------------------------------
(***************************************************************************)
(* Both ends of a tunnel and what joins them, for TLC.  A behaviour        *)
(* explores one of three parts that share no state: the raw ingress routes *)
(* of the Edge, the Agent's session loop with its local bridges, or the    *)
(* frame codec on a byte stream.  The others keep an initial state.        *)
(*                                                                         *)
(* The ingress has either one client that meets two routes, or two clients *)
(* of one address that compete for a public route.  The bridges are either *)
(* one stream under every frame and failure, or two, of which the second   *)
(* may wait for the first one's slot, under DATA alone, until a direction  *)
(* ends and while the writer works.                                        *)
(***************************************************************************)
EXTENDS RawIngress, AgentSession, FrameCodec

CONSTANTS r1, c1

VARIABLES part, present \* the routes and the clients of this behaviour

OneClient == Routes \cup {c1}
OneRoute == (Routes \ {r1}) \cup Conns

MCInit ==
  /\ part \in {"ingress", "stream", "streams", "codec"}
  /\ present \in IF part = "ingress" THEN {OneClient, OneRoute} ELSE {OneClient}
  /\ Init /\ SessionInit /\ CodecInit

IngressNext ==
  /\ part = "ingress" /\ Next
  /\ \A r \in Routes \ present : call'[r] = "none"
  /\ \A c \in Conns \ present : conn'[c] = "free"

BridgeNext ==
  /\ part \in {"stream", "streams"} /\ SessionNext
  /\ IF part = "stream" THEN bridge'[2] = "none"
     ELSE /\ \A s \in Ids : inbound'[s] \in {<<>>, <<"data">>} /\ ended'[s] = {}
          /\ writer' # "failed" /\ (loop' = "send" => answering' # 0)

MCNext ==
  /\ UNCHANGED <<part, present>>
  /\ \/ IngressNext /\ UNCHANGED <<sessionVars, codecVars>>
     \/ BridgeNext /\ UNCHANGED <<vars, codecVars>>
     \/ part = "codec" /\ CodecNext /\ UNCHANGED <<vars, sessionVars>>

(* The fairness of each part, for the behaviours that explore it.          *)
Ingress(A) == part = "ingress" /\ A
Bridging(A) == part \in {"stream", "streams"} /\ A
MCFairness ==
  /\ \A r \in Routes : /\ WF_vars(Ingress(RouteStep(r))) /\ WF_vars(Ingress(SpawnRoute(r)))
                       /\ WF_vars(Ingress(WaitReturns(r)))
  /\ \A c \in Conns : WF_vars(Ingress(ConnStep(c)))
  /\ WF_vars(Ingress(ShutdownStep))
  /\ WF_sessionVars(Bridging(LoopStep))
  /\ WF_sessionVars(Bridging(DeadlinePasses))
  /\ WF_sessionVars(Bridging(WriterStep))
  /\ \A s \in Ids :
       /\ WF_sessionVars(Bridging(BridgeStep(s)))
       /\ SF_sessionVars(Bridging(RelayFrame(s) \/ InboundClosed(s)))
       /\ WF_sessionVars(Bridging(WriteDone(s)))

MCSpec == MCInit /\ [][MCNext]_<<part, present, vars, sessionVars, codecVars>>
                 /\ MCFairness
=============================================================================
