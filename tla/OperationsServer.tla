-------------------------- MODULE OperationsServer --------------------------
(***************************************************************************)
(* The loopback operations endpoint of the three processes: its accept     *)
(* loop with a bounded number of connections, one request per connection,  *)
(* the readiness answer, and the drain at shutdown (operations.rs of the   *)
(* edge, control-plane and agent crates; the three loops are the same and  *)
(* differ in what they answer).                                            *)
(*                                                                         *)
(* A request's body and the rendering of the metrics are left out: an      *)
(* answer is its status, and a request is what the code branches on.       *)
(***************************************************************************)
EXTENDS Naturals, FiniteSets

CONSTANTS
    Conns,      \* connections clients may open
    Limit,      \* max_concurrent_connections
    Tunnels     \* tunnels the Agent's readiness covers

Roles == {"edge_raw", "edge_https", "control_plane", "agent"}
Requests == {"post", "healthz", "history", "bad_history", "tunnels", "other"}

VARIABLES
    role,
    loop,        \* "serving", "draining", then "drained", "forced" or "failed"
    error,       \* the listener failed
    told,        \* the shutdown signal is triggered
    conn,        \* where each connection is
    looked,      \* the tunnels a readiness request has already looked at
    answer,      \* the status it was answered
    refused,     \* readiness was already withdrawn when the request arrived
    draining,    \* begin_draining was called
    up,          \* the tunnels that are connected; for an Edge with dynamic routes, a live source
    active,
    accepted,
    completed,
    rejected,
    capacity_rejections,
    task_count,
    aborted

srvVars == <<role, loop, error, told, conn, looked, answer, refused, draining, up, active,
             accepted, completed, rejected, capacity_rejections, task_count, aborted>>

Live == {c \in Conns : conn[c] \in {"reading", "serving"}}
\* What the JoinSet still holds: running tasks and finished ones it has not joined.
Held == {c \in Conns : conn[c] \in {"reading", "serving", "finished"}}

Init ==
    /\ role \in Roles
    /\ loop = "serving" /\ error = FALSE /\ told = FALSE
    /\ conn = [c \in Conns |-> "none"]
    /\ looked = [c \in Conns |-> {}]
    /\ answer = [c \in Conns |-> "none"]
    /\ refused = [c \in Conns |-> FALSE]
    /\ draining = FALSE
    /\ up \in SUBSET Tunnels
    /\ active = 0 /\ accepted = 0 /\ completed = 0 /\ rejected = 0 /\ capacity_rejections = 0
    /\ task_count = 0 /\ aborted = 0

-----------------------------------------------------------------------------
(* The accept loop.  The select is biased: nothing is accepted once told. *)

\* A connection is counted, and its permit taken, before its task starts.
Accept(c) ==
    /\ loop = "serving" /\ ~told /\ conn[c] = "none"
    /\ Cardinality(Live) < Limit
    /\ conn' = [conn EXCEPT ![c] = "reading"]
    /\ accepted' = accepted + 1
    /\ active' = active + 1
    /\ UNCHANGED <<role, loop, error, told, looked, answer, refused, draining, up, completed,
                   rejected, capacity_rejections, task_count, aborted>>

CapacityReject(c) ==
    /\ loop = "serving" /\ ~told /\ conn[c] = "none"
    /\ Cardinality(Live) >= Limit
    /\ conn' = [conn EXCEPT ![c] = "refused"]
    /\ capacity_rejections' = capacity_rejections + 1
    /\ UNCHANGED <<role, loop, error, told, looked, answer, refused, draining, up, active,
                   accepted, completed, rejected, task_count, aborted>>

Join(c) ==
    /\ loop \in {"serving", "draining"} /\ conn[c] = "finished"
    /\ conn' = [conn EXCEPT ![c] = "joined"]
    /\ UNCHANGED <<role, loop, error, told, looked, answer, refused, draining, up, active,
                   accepted, completed, rejected, capacity_rejections, task_count, aborted>>

AcceptFails ==
    /\ loop = "serving" /\ ~told
    /\ loop' = "draining" /\ error' = TRUE
    /\ task_count' = Cardinality(Held)
    /\ UNCHANGED <<role, told, conn, looked, answer, refused, draining, up, active,
                   accepted, completed, rejected, capacity_rejections, aborted>>

LeaveLoop ==
    /\ loop = "serving" /\ told
    /\ loop' = "draining"
    /\ task_count' = Cardinality(Held)
    /\ UNCHANGED <<role, error, told, conn, looked, answer, refused, draining, up, active,
                   accepted, completed, rejected, capacity_rejections, aborted>>

Drained ==
    /\ loop = "draining" /\ Held = {}
    /\ loop' = IF error THEN "failed" ELSE "drained"
    /\ UNCHANGED <<role, error, told, conn, looked, answer, refused, draining, up, active,
                   accepted, completed, rejected, capacity_rejections, task_count, aborted>>

\* The drain deadline: every task still held is aborted and joined.
DrainTimesOut ==
    /\ loop = "draining" /\ Held # {}
    /\ aborted' = Cardinality(Held)
    /\ conn' = [c \in Conns |-> IF c \in Held THEN "joined" ELSE conn[c]]
    /\ active' = active - Cardinality(Live)
    /\ loop' = IF error THEN "failed" ELSE "forced"
    /\ UNCHANGED <<role, error, told, looked, answer, refused, draining, up, accepted,
                   completed, rejected, capacity_rejections, task_count>>

-----------------------------------------------------------------------------
(* One connection: keep-alive is off, so it carries one request. *)

Answer(status, counted) == [status |-> status, counted |-> counted]

\* serve_request of each process: the status, and whether it counts as rejected.  Readiness
\* is ReadyLook's; the HTTPS Edge here keeps a request history, and the Agent lists its
\* tunnels, as start and http bind it.
EdgeServe(r) ==
    CASE r = "post" -> Answer("method_not_allowed", TRUE)
      [] r = "healthz" -> Answer("ok", FALSE)
      [] r = "history" -> IF role = "edge_https" THEN Answer("ok", FALSE) ELSE Answer("not_found", FALSE)
      [] r = "bad_history" -> IF role = "edge_https" THEN Answer("bad_request", TRUE)
                              ELSE Answer("not_found", FALSE)
      [] OTHER -> Answer("not_found", TRUE)
AgentServe(r) ==
    CASE r = "post" -> Answer("method_not_allowed", TRUE)
      [] r \in {"healthz", "tunnels"} -> Answer("ok", FALSE)
      [] OTHER -> Answer("not_found", TRUE)
ControlPlaneServe(r) ==
    CASE r = "post" -> Answer("method_not_allowed", TRUE)
      [] r = "healthz" -> Answer("ok", FALSE)
      [] OTHER -> Answer("not_found", TRUE)

Serve(r) ==
    CASE role = "agent" -> AgentServe(r)
      [] role = "control_plane" -> ControlPlaneServe(r)
      [] OTHER -> EdgeServe(r)

Finish(c, status, counted) ==
    /\ conn' = [conn EXCEPT ![c] = "finished"]
    /\ answer' = [answer EXCEPT ![c] = status]
    /\ looked' = [looked EXCEPT ![c] = {}]
    /\ rejected' = IF counted THEN rejected + 1 ELSE rejected
    /\ completed' = completed + 1
    /\ active' = active - 1

HandleRequest(c) ==
    /\ conn[c] = "reading"
    /\ \E r \in Requests : Finish(c, Serve(r).status, Serve(r).counted)
    /\ UNCHANGED <<role, loop, error, told, refused, draining, up, accepted,
                   capacity_rejections, task_count, aborted>>

ReadyStart(c) ==
    /\ conn[c] = "reading"
    /\ conn' = [conn EXCEPT ![c] = "serving"]
    /\ refused' = [refused EXCEPT ![c] = draining]
    /\ UNCHANGED <<role, loop, error, told, looked, answer, draining, up, active, accepted, completed,
                   rejected, capacity_rejections, task_count, aborted>>

\* One look of a readiness request: what it answers, or "looking" when it looks further.
\* ingress_ready looks at the draining flag, then, after an await, at the tunnel or at the
\* health of the route source.
EdgeReady(c) ==
    IF looked[c] = {} THEN (IF draining THEN "unavailable" ELSE "looking")
    ELSE (IF up # {} THEN "ready" ELSE "unavailable")
\* The Agent asks every tunnel's status in turn.
AgentReady(c, t) ==
    IF t \notin up THEN "unavailable" ELSE (IF looked[c] \cup {t} = Tunnels THEN "ready" ELSE "looking")
ControlPlaneReady(c) == IF draining THEN "unavailable" ELSE "ready"

ReadyLook(c) ==
    /\ conn[c] = "serving"
    /\ \E t \in Tunnels \ (IF role = "agent" THEN looked[c] ELSE {}) :
       LET look == CASE role = "agent" -> AgentReady(c, t)
                     [] role = "control_plane" -> ControlPlaneReady(c)
                     [] OTHER -> EdgeReady(c) IN
       \/ /\ look = "looking"
          /\ looked' = [looked EXCEPT ![c] = @ \cup {t}]
          /\ UNCHANGED <<conn, answer, rejected, completed, active>>
       \/ look # "looking" /\ Finish(c, look, FALSE)
    /\ UNCHANGED <<role, loop, error, told, refused, draining, up, accepted,
                   capacity_rejections, task_count, aborted>>

\* The gauge is given back only where a request completes.
MutConnectionFails(c) ==
    /\ conn[c] \in {"reading", "serving"}
    /\ conn' = [conn EXCEPT ![c] = "finished"]
    /\ UNCHANGED <<role, loop, error, told, looked, answer, refused, draining, up, active, accepted,
                   completed, rejected, capacity_rejections, task_count, aborted>>

\* A header or request timeout, a parse error or a client that left: the task ends, and its
\* guards give the permit and the count back.
ConnectionFails(c) ==
    /\ conn[c] \in {"reading", "serving"}
    /\ conn' = [conn EXCEPT ![c] = "finished"]
    /\ active' = active - 1
    /\ UNCHANGED <<role, loop, error, told, looked, answer, refused, draining, up, accepted,
                   completed, rejected, capacity_rejections, task_count, aborted>>

-----------------------------------------------------------------------------
(* The process around the server. *)

BeginDraining ==
    /\ ~draining /\ draining' = TRUE
    /\ UNCHANGED <<role, loop, error, told, conn, looked, answer, refused, up, active,
                   accepted, completed, rejected, capacity_rejections, task_count, aborted>>

TunnelMoves ==
    /\ ~told
    /\ \E t \in Tunnels : up' = IF t \in up THEN up \ {t} ELSE up \cup {t}
    /\ UNCHANGED <<role, loop, error, told, conn, looked, answer, refused, draining, active,
                   accepted, completed, rejected, capacity_rejections, task_count, aborted>>

\* The supervisors withdraw readiness before they stop the endpoint.
Shutdown ==
    /\ draining /\ ~told /\ told' = TRUE
    /\ UNCHANGED <<role, loop, error, conn, looked, answer, refused, draining, up, active,
                   accepted, completed, rejected, capacity_rejections, task_count, aborted>>

Next ==
    \/ BeginDraining \/ TunnelMoves \/ Shutdown
    \/ AcceptFails \/ LeaveLoop \/ Drained \/ DrainTimesOut
    \/ \E c \in Conns : \/ Accept(c) \/ CapacityReject(c) \/ Join(c)
                        \/ HandleRequest(c) \/ ReadyStart(c) \/ ReadyLook(c) \/ ConnectionFails(c)

Fairness ==
    /\ WF_srvVars(LeaveLoop) /\ WF_srvVars(Drained) /\ WF_srvVars(DrainTimesOut)
    /\ \A c \in Conns : WF_srvVars(Join(c))

Spec == Init /\ [][Next]_srvVars /\ Fairness

-----------------------------------------------------------------------------
Returned == loop \in {"drained", "forced", "failed"}

\* The endpoint never runs more connection tasks than its limit and counts exactly the ones
\* that run; what it reports at the end adds up: no task is left, at most the tasks it held
\* were aborted, and a request is counted once, on a connection that was accepted.
OperationsAccount ==
    /\ active = Cardinality(Live) /\ active <= Limit
    /\ rejected <= completed /\ completed <= accepted
    /\ accepted + capacity_rejections = Cardinality({c \in Conns : conn[c] # "none"})
    /\ Returned => active = 0 /\ Held = {} /\ aborted <= task_count

\* A readiness request that arrives after readiness was withdrawn is never answered "ready",
\* whatever the tunnels do while it is being computed.
ReadyHonest ==
    role # "agent" => \A c \in Conns : answer[c] = "ready" => ~refused[c]

\* The endpoint stops once it is told to, however long its clients hold their connections.
OperationsReturn == told ~> Returned
=============================================================================
