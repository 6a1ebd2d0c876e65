------------------------------- MODULE MCHttps -------------------------------
(***************************************************************************)
(* The HTTPS side of the Edge for TLC.  The parts share no state that      *)
(* their properties are about, so a behaviour explores one of them: the    *)
(* ingress runtime, the request-rate admission, the request policy or the  *)
(* signed-access ring.  The others keep their initial state.               *)
(***************************************************************************)
EXTENDS HttpRateLimit

CONSTANTS MaxAccepts, MaxArrivals, PeerIps, MaxConnections, MaxPerIp, MaxRequests, MaxStreams,
          SessionLimit, HistoryCapacity
CONSTANTS MaxChanges
CONSTANTS Hostnames, MaxKeys, MaxTtl, Skew, MaxTime, MaxGen, MaxWrites

VARIABLES part
VARIABLES phase, signalled, conn, req, active, counters, history, fate
VARIABLES request, server_name, config, answer, changes
VARIABLES ring, manifest, reading, ringState, published, writes

(* Two key pairs that share an ID, and one with an ID of its own. *)
AccessKeys == {[id |-> 1, mat |-> "a"], [id |-> 2, mat |-> "b"], [id |-> 2, mat |-> "c"]}

Ingress == INSTANCE HttpsIngress
Policy == INSTANCE HttpRequestPolicy
Signed == INSTANCE SignedAccess WITH Keys <- AccessKeys, active <- ringState

MCInit ==
    /\ part \in {"ingress", "rate", "policy", "signed"}
    /\ Ingress!Init
    /\ Init
    /\ IF part = "policy" THEN Policy!Init
       ELSE /\ request = Policy!PlainGet /\ server_name = "h1" /\ answer = Policy!GoodAnswer /\ changes = 0
            /\ config = [websocket |-> {}, connect |-> {}, routes |-> "static"]
    /\ IF part = "signed" THEN Signed!Init
       ELSE /\ ring = {} /\ manifest = Signed!NoManifest /\ reading = manifest
            /\ published = {} /\ writes = 0
            /\ ringState = [gen |-> 0, manifest |-> manifest, keys |-> {}, failed |-> TRUE]

ingressVars == <<phase, signalled, conn, req, active, counters, history, fate>>
policyVars == <<request, server_name, config, answer, changes>>
signedVars == <<ring, manifest, reading, ringState, published, writes>>

OthersIdle(p) ==
    /\ UNCHANGED part
    /\ p # "ingress" => UNCHANGED ingressVars
    /\ p # "rate" => UNCHANGED vars
    /\ p # "policy" => UNCHANGED policyVars
    /\ p # "signed" => UNCHANGED signedVars

MCNext ==
    \/ part = "ingress" /\ Ingress!Next /\ OthersIdle("ingress")
    \/ part = "rate" /\ Next /\ OthersIdle("rate")
    \/ part = "policy" /\ Policy!Next /\ OthersIdle("policy")
    \/ part = "signed" /\ Signed!Next /\ OthersIdle("signed")

MCVars == <<part, vars, ingressVars, policyVars, signedVars>>

(* At rest no part has a fair step enabled: only the part explored does. *)
MCSpec == MCInit /\ [][MCNext]_MCVars /\ Ingress!Fairness /\ Signed!Fairness

-----------------------------------------------------------------------------
(* No path of a request or relay keeps a session permit or returns it      *)
(* twice, the session limits hold, and nothing is left of a connection     *)
(* when run_until_shutdown has returned (WebSocketSessionGuard,            *)
(* ConnectSessionGuard).                                                   *)
SessionsExact == Ingress!SessionsExact /\ Ingress!StopIsComplete

(* Every request is counted once whatever ends it, the history holds the   *)
(* newest answered requests in order, and an HTTP/1.1 connection is reused *)
(* only after a complete local response (HttpIngressCounters,              *)
(* RequestHistory, serve_http1).                                           *)
RequestsAccounted == Ingress!AccountedOnce /\ Ingress!HistoryFaithful /\ Ingress!ReuseSafe

(* Shutdown ends and gives every session permit back, whatever clients,    *)
(* bodies and relays do (run_until_shutdown's drain and abort).            *)
ShutdownReleases == Ingress!ShutdownReleases

(* An accepted request carries one name, that of its enabled route, is     *)
(* unambiguously a plain request or an enabled session without a body, and *)
(* what goes upstream or comes back of a switch carries the Edge's own     *)
(* forwarding and hop headers only (prepare_request,                       *)
(* sanitize_request_headers, sanitize_websocket_response).                 *)
AcceptedSound == part = "policy" => /\ Policy!RoutedHostAgrees
                                    /\ Policy!SessionsUnambiguous
                                    /\ Policy!ForwardedClean

(* A request is let through exactly when it carries one link that is good  *)
(* for the ring in force, the hostname and the time; that ring is always   *)
(* one the operator declared, and a key that is in every declared ring     *)
(* serves without interruption (authorize_signed_access, reload_once).     *)
AccessSound == part = "signed" => /\ Signed!AccessExact
                                  /\ Signed!ActivePublished
                                  /\ Signed!OverlapServes

(* The ring in force changes only to a higher generation, and a newer one  *)
(* whose files stay in place does come into force                          *)
(* (activate_reload_candidate).                                            *)
RingFollows == Signed!RingMovesForward /\ Signed!NewRingActivates
=============================================================================
