---------------------------- MODULE HttpsIngress ----------------------------
(***************************************************************************)
(* The HTTPS ingress runtime of the Edge (http_ingress.rs): the accept     *)
(* loop with its admission permits, the TLS step, the HTTP/1.1 and HTTP/2  *)
(* connection supervisors, the request pipeline with its deadline, the     *)
(* opaque relays of WebSocket and CONNECT sessions, the request history    *)
(* (request_history.rs) and the drain at shutdown.                         *)
(*                                                                         *)
(* An action runs from one await of the code to the next.  What a request  *)
(* says is settled by module HttpRequestPolicy and what the rate limiter   *)
(* answers by module HttpRateLimit; here a request either is refused before*)
(* admission or is of one of four kinds.  The tunnel stream behind a       *)
(* request is module EdgeSession's.                                        *)
(***************************************************************************)
EXTENDS Integers, Sequences, FiniteSets, FiniteSetsExt

CONSTANTS MaxAccepts,      \* bound: connections accepted in a behaviour
          MaxArrivals,     \* bound: requests that arrive in a behaviour
          PeerIps,         \* source addresses
          MaxConnections,  \* max_concurrent_connections
          MaxPerIp,        \* max_connections_per_ip
          MaxRequests,     \* max_requests_per_connection
          MaxStreams,      \* http2.max_concurrent_streams
          SessionLimit,    \* max_concurrent_sessions, of WebSocket and of CONNECT
          HistoryCapacity  \* --https-request-history-capacity

VARIABLES phase,     \* the accept loop: running, draining, stopped
          signalled, \* the shutdown signal was given
          conn,      \* per connection: the state of its task
          req,       \* per request: where its future or relay is
          active,    \* session guards alive, per session kind (permit and gauge)
          counters,  \* the request counters of HttpIngressCounters
          history,   \* RequestHistoryState
          fate       \* requests begun, cut off, answered 504, and admitted regular
                     \* requests cut off before their answer (history variable)

vars == <<phase, signalled, conn, req, active, counters, history, fate>>

\* Connections and requests are numbered as they come.
Conns == 1..MaxAccepts
Reqs == 1..MaxArrivals

Sessions == {"websocket", "connect"}

FreeConn == [st |-> "free", proto |-> "none", peer |-> "none", count |-> 0,
             closing |-> FALSE, served |-> FALSE]
NoReq == [st |-> "unused", conn |-> 0, kind |-> "none", num |-> 0, pending |-> FALSE, ans |-> "none"]

\* Where the request future waits: these the deadline of handle_ingress_request covers.
Pipeline == {"resolving", "opening", "shaking", "sent"}
\* Where a response body is being delivered ("stalled": the client reads nothing).
Delivering == {"body", "stalled"}
\* Where an accepted session's relay is.
Relaying == {"queued", "upgrading", "relaying", "closing"}

Live(r) == req[r].st \notin {"unused", "done"}
Of(c) == {r \in Reqs : req[r].conn = c}
OnHttp1(r) == conn[req[r].conn].proto = "h1"
QueuedOn(c) == {r \in Of(c) : req[r].st = "queued"}
HoldsGuard(r) ==
    \/ req[r].kind \in Sessions /\ req[r].st \in {"opening", "shaking", "sent"}
    \/ req[r].st \in Relaying

-----------------------------------------------------------------------------
Init ==
    /\ phase = "running"
    /\ signalled = FALSE
    /\ conn = [c \in Conns |-> FreeConn]
    /\ req = [r \in Reqs |-> NoReq]
    /\ active = [k \in Sessions |-> 0]
    /\ counters = [admitted |-> 0, rejected |-> 0, completed |-> 0, timeouts |-> 0]
    /\ history = [next |-> 1, evicted |-> 0, entries |-> <<>>]
    /\ fate = [begun |-> 0, lost |-> 0, late |-> 0, regular |-> 0, unrecorded |-> 0]

(***************************************************************************)
(* The accept loop.  A permit belongs to the connection task from accept   *)
(* to its end.                                                             *)
(***************************************************************************)
Admitted == {c \in Conns : conn[c].st \notin {"free", "done"}}
FromPeer(p) == {c \in Admitted : conn[c].peer = p}

MayAccept(p) == Cardinality(Admitted) < MaxConnections /\ Cardinality(FromPeer(p)) < MaxPerIp

Accept(c, p) ==
    /\ phase = "running" /\ ~signalled
    /\ conn[c].st = "free" /\ \A d \in 1..(c - 1) : conn[d].st # "free"
    /\ MayAccept(p)
    /\ conn' = [conn EXCEPT ![c].st = "tls", ![c].peer = p]
    /\ UNCHANGED <<phase, signalled, req, active, counters, history, fate>>

\* No global permit, or no permit for the address: the socket is dropped.
AcceptRefused(p) ==
    /\ phase = "running" /\ ~signalled
    /\ ~MayAccept(p)
    /\ UNCHANGED vars

\* listener.accept() fails: the loop ends without the shutdown signal, so the
\* connections are not told and only the drain timeout bounds them.
AcceptError ==
    /\ phase = "running" /\ ~signalled
    /\ phase' = "draining"
    /\ UNCHANGED <<signalled, conn, req, active, counters, history, fate>>

Signal ==
    /\ ~signalled
    /\ signalled' = TRUE
    /\ UNCHANGED <<phase, conn, req, active, counters, history, fate>>

BeginDrain ==
    /\ phase = "running" /\ signalled
    /\ phase' = "draining"
    /\ UNCHANGED <<signalled, conn, req, active, counters, history, fate>>

\* Every connection task was joined.
Drained ==
    /\ phase = "draining"
    /\ Admitted = {}
    /\ phase' = "stopped"
    /\ UNCHANGED <<signalled, conn, req, active, counters, history, fate>>

(***************************************************************************)
(* run_connection up to the choice of the protocol.                        *)
(***************************************************************************)
\* ALPN settles the protocol; the supervisor starts.
TlsAccepted(c, proto) ==
    /\ conn[c].st = "tls"
    /\ conn' = [conn EXCEPT ![c].st = "serving", ![c].proto = proto]
    /\ UNCHANGED <<phase, signalled, req, active, counters, history, fate>>

\* Handshake failure or timeout, or an ALPN protocol that is not enabled.
TlsRejected(c) ==
    /\ conn[c].st = "tls"
    /\ conn' = [conn EXCEPT ![c].st = "done"]
    /\ UNCHANGED <<phase, signalled, req, active, counters, history, fate>>

(***************************************************************************)
(* Answers.  `Answer` is what follows proxy_request in                     *)
(* handle_ingress_request: the history entry, and for HTTP/1.1 the         *)
(* connection's fate: every error response carries Connection: close, and  *)
(* so does the last permitted one.                                         *)
(***************************************************************************)
\* RequestHistory::record: the newest HistoryCapacity entries are kept.
Entered(outcome, status) ==
    LET full == Len(history.entries) = HistoryCapacity
        kept == IF full THEN Tail(history.entries) ELSE history.entries
    IN  [next |-> history.next + 1,
         evicted |-> history.evicted + (IF full THEN 1 ELSE 0),
         entries |-> Append(kept, [id |-> history.next, outcome |-> outcome, status |-> status])]

\* finish_request_history: the pending entry, if any, is taken and recorded.
Recorded(r, outcome, status) == IF req[r].pending THEN Entered(outcome, status) ELSE history

ReleaseOf(r) ==
    IF HoldsGuard(r) THEN [active EXCEPT ![req[r].kind] = @ - 1] ELSE active

Count(field) == [counters EXCEPT ![field] = @ + 1]

Closes(c) == conn[c].proto = "h1"

\* An error response of the Edge ends the request.
EdgeAnswer(r, outcome, status, cnt) ==
    /\ req' = [req EXCEPT ![r].st = "done", ![r].pending = FALSE, ![r].ans = "edge"]
    /\ conn' = [conn EXCEPT ![req[r].conn].closing = @ \/ Closes(req[r].conn)]
    /\ active' = ReleaseOf(r)
    /\ history' = Recorded(r, outcome, status)
    /\ counters' = cnt

Rejects(r, outcome, status) ==
    /\ EdgeAnswer(r, outcome, status, Count("rejected"))
    /\ UNCHANGED <<phase, signalled, fate>>

(***************************************************************************)
(* A request arrives (handle_ingress_request, and proxy_request up to its  *)
(* first await).  HTTP/1.1 serves one request at a time and none after a   *)
(* closing answer; a supervisor that shut Hyper down takes no new request. *)
(***************************************************************************)
MayArrive(c, r) ==
    /\ r = fate.begun + 1
    /\ conn[c].st = "serving"
    /\ \/ /\ conn[c].proto = "h1"
          /\ ~conn[c].closing
          /\ \A s \in Of(c) : ~Live(s)
       \/ /\ conn[c].proto = "h2"
          /\ Cardinality({s \in Of(c) : Live(s)}) < MaxStreams

Begin(c, r, k, st) ==
    [req EXCEPT ![r] = [st |-> st, conn |-> c, kind |-> k, num |-> conn[c].count + 1,
                        pending |-> k = "regular" /\ st = "opening", ans |-> "none"]]

Numbered(c) == [conn EXCEPT ![c].count = @ + 1]
Begun == [fate EXCEPT !.begun = @ + 1]

\* Over the connection's request cap, or refused by prepare_request, the rate
\* limiter, authorize_signed_access or finalize_request: nothing was admitted.
ArriveRefused(c, r) ==
    /\ MayArrive(c, r)
    /\ req' = [Begin(c, r, "refused", "done") EXCEPT ![r].ans = "edge"]
    /\ conn' = [Numbered(c) EXCEPT ![c].closing = @ \/ Closes(c)]
    /\ counters' = Count("rejected")
    /\ fate' = Begun
    /\ UNCHANGED <<phase, signalled, active, history>>

\* A reachability probe waits for the router's view of its tunnel.
ArriveProbe(c, r) ==
    /\ MayArrive(c, r)
    /\ conn[c].proto = "h2" \/ conn[c].count < MaxRequests
    /\ req' = Begin(c, r, "probe", "resolving")
    /\ conn' = Numbered(c)
    /\ fate' = Begun
    /\ UNCHANGED <<phase, signalled, active, counters, history>>

\* A regular request: admitted and pending in the history, then refused for its
\* declared length or waiting for the tunnel stream.
ArriveRegular(c, r, tooLarge) ==
    /\ MayArrive(c, r)
    /\ conn[c].proto = "h2" \/ conn[c].count < MaxRequests
    /\ fate' = [Begun EXCEPT !.regular = @ + 1]
    /\ IF tooLarge
       THEN /\ req' = [Begin(c, r, "regular", "done") EXCEPT ![r].ans = "edge"]
            /\ conn' = [Numbered(c) EXCEPT ![c].closing = @ \/ Closes(c)]
            /\ counters' = [counters EXCEPT !.admitted = @ + 1, !.rejected = @ + 1]
            /\ history' = Entered("rejected", "too_large")
       ELSE /\ req' = Begin(c, r, "regular", "opening")
            /\ conn' = Numbered(c)
            /\ counters' = Count("admitted")
            /\ UNCHANGED history
    /\ UNCHANGED <<phase, signalled, active>>

\* A WebSocket or CONNECT request: counted as admitted, then it needs a session
\* permit, which its guard holds until the guard is dropped.
ArriveSession(c, r, k) ==
    /\ MayArrive(c, r)
    /\ conn[c].proto = "h2" \/ conn[c].count < MaxRequests
    /\ fate' = Begun
    /\ IF active[k] < SessionLimit
       THEN /\ req' = Begin(c, r, k, "opening")
            /\ conn' = Numbered(c)
            /\ active' = [active EXCEPT ![k] = @ + 1]
            /\ counters' = Count("admitted")
       ELSE /\ req' = [Begin(c, r, k, "done") EXCEPT ![r].ans = "edge"]
            /\ conn' = [Numbered(c) EXCEPT ![c].closing = @ \/ Closes(c)]
            /\ counters' = [counters EXCEPT !.admitted = @ + 1, !.rejected = @ + 1]
            /\ UNCHANGED active
    /\ UNCHANGED <<phase, signalled, history>>

(***************************************************************************)
(* The rest of proxy_request, one action per await that returns.           *)
(***************************************************************************)
\* router.resolve_tunnel: a probe is admitted and completed, or refused.
Resolved(r, connected) ==
    /\ req[r].st = "resolving"
    /\ IF connected
       THEN /\ EdgeAnswer(r, "none", "probe",
                          [counters EXCEPT !.admitted = @ + 1, !.completed = @ + 1])
            /\ UNCHANGED <<phase, signalled, fate>>
       ELSE Rejects(r, "none", "unavailable")

\* The router refuses the stream (503) or its open times out (504): the history
\* says local_unavailable of both.
OpenFailed(r, status) ==
    /\ req[r].st = "opening"
    /\ Rejects(r, "local_unavailable", status)

\* relay_tx.try_send: the channel holds one relay (HTTP/1.1) or one per stream, and
\* is closed once its supervisor has returned.
ChannelTakes(c) ==
    /\ conn[c].st # "done"
    /\ Cardinality(QueuedOn(c)) < (IF conn[c].proto = "h1" THEN 1 ELSE MaxStreams)

\* The relay, with the guard in it, goes to the connection's supervisor and the
\* client is told to switch.
HandOver(r) ==
    IF ChannelTakes(req[r].conn)
    THEN /\ req' = [req EXCEPT ![r].st = "queued", ![r].ans = "upgraded"]
         /\ UNCHANGED <<phase, signalled, conn, active, counters, history, fate>>
    ELSE Rejects(r, "none", "unavailable")

Opened(r) ==
    /\ req[r].st = "opening"
    /\ IF req[r].kind = "connect"
       THEN HandOver(r)
       ELSE /\ req' = [req EXCEPT ![r].st = "shaking"]
            /\ UNCHANGED <<phase, signalled, conn, active, counters, history, fate>>

Shaken(r) ==
    /\ req[r].st = "shaking"
    /\ req' = [req EXCEPT ![r].st = "sent"]
    /\ UNCHANGED <<phase, signalled, conn, active, counters, history, fate>>

\* The local HTTP handshake or send_request fails.
LocalFailed(r) ==
    /\ req[r].st \in {"shaking", "sent"}
    /\ Rejects(r, "local_unavailable", "bad_gateway")

LastPermitted(r) == OnHttp1(r) /\ req[r].num = MaxRequests

\* An ordinary local response, or anything but 101 to a WebSocket request: its body is
\* delivered under the rest of the deadline; the guard is dropped with the future.
LocalResponse(r, empty) ==
    /\ req[r].st = "sent"
    /\ req' = [req EXCEPT ![r].st = IF empty THEN "done" ELSE "body", ![r].pending = FALSE,
                          ![r].ans = "local"]
    /\ conn' = [conn EXCEPT ![req[r].conn].closing = @ \/ LastPermitted(r)]
    /\ active' = ReleaseOf(r)
    /\ history' = Recorded(r, "forwarded", "local")
    /\ counters' = IF empty THEN Count("completed") ELSE counters
    /\ UNCHANGED <<phase, signalled, fate>>

\* 101 to a WebSocket request: sanitize_websocket_response accepts it or not.
LocalSwitch(r, valid) ==
    /\ req[r].st = "sent" /\ req[r].kind = "websocket"
    /\ IF valid THEN HandOver(r) ELSE Rejects(r, "none", "bad_gateway")

\* The request deadline: proxy_request is dropped with everything it owns, and the
\* client gets 504.
MutTimeoutOutcome == "forwarded"
TimeoutOutcome == "timeout"

Deadline(r) ==
    /\ req[r].st \in Pipeline
    /\ EdgeAnswer(r, TimeoutOutcome, "timeout",
                  [counters EXCEPT !.rejected = @ + 1, !.timeouts = @ + 1])
    /\ fate' = [fate EXCEPT !.late = @ + 1]
    /\ UNCHANGED <<phase, signalled>>

(***************************************************************************)
(* RequestDeadlineBody.  The deadline is looked at when Hyper polls the    *)
(* body and the local side has nothing ready; a client that stops reading  *)
(* stops the polls.                                                        *)
(***************************************************************************)
BodyEnds(r) ==
    /\ req[r].st = "body"
    /\ req' = [req EXCEPT ![r].st = "done"]
    /\ counters' = Count("completed")
    /\ UNCHANGED <<phase, signalled, conn, active, history, fate>>

BodyDeadline(r) ==
    /\ req[r].st = "body"
    /\ req' = [req EXCEPT ![r].st = "done"]
    /\ conn' = [conn EXCEPT ![req[r].conn].closing = @ \/ Closes(req[r].conn)]
    /\ counters' = Count("timeouts")
    /\ UNCHANGED <<phase, signalled, active, history, fate>>

\* The local side fails in mid-body: the error frame is passed on, nothing is counted.
BodyFails(r) ==
    /\ req[r].st = "body"
    /\ req' = [req EXCEPT ![r].st = "done"]
    /\ conn' = [conn EXCEPT ![req[r].conn].closing = @ \/ Closes(req[r].conn)]
    /\ fate' = [fate EXCEPT !.lost = @ + 1]
    /\ UNCHANGED <<phase, signalled, active, counters, history>>

Stall(r) ==
    /\ req[r].st \in Delivering
    /\ req' = [req EXCEPT ![r].st = IF @ = "body" THEN "stalled" ELSE "body"]
    /\ UNCHANGED <<phase, signalled, conn, active, counters, history, fate>>

(***************************************************************************)
(* Dropping futures: the guards, the pending history entry and the tunnel  *)
(* stream of every request in the set go with it.                          *)
(***************************************************************************)
MutGuardsIn(S, k) == 0
GuardsIn(S, k) == Cardinality({r \in S : HoldsGuard(r) /\ req[r].kind = k})

Drop(S) ==
    /\ req' = [r \in Reqs |-> IF r \in S THEN [req[r] EXCEPT !.st = "done", !.pending = FALSE] ELSE req[r]]
    /\ active' = [k \in Sessions |-> active[k] - GuardsIn(S, k)]
    /\ fate' = [fate EXCEPT !.lost = @ + Cardinality(S),
                            !.unrecorded = @ + Cardinality({r \in S : req[r].pending})]

InFlight(c) == {r \in Of(c) : req[r].st \in Pipeline \cup Delivering}

(***************************************************************************)
(* The supervisors serve_http1 and serve_http2.                            *)
(***************************************************************************)
\* The signal reaches the supervisor's select: Hyper is told to shut down gracefully.
\* An HTTP/1.1 supervisor that already joined a relay no longer listens.
Hear(c) ==
    /\ conn[c].st = "serving" /\ signalled
    /\ conn' = [conn EXCEPT ![c].st = "graceful"]
    /\ UNCHANGED <<phase, signalled, req, active, counters, history, fate>>

TakeRelay(r) ==
    LET c == req[r].conn
    IN  /\ req[r].st = "queued"
        /\ conn[c].st \in {"serving", "graceful"}
        /\ req' = [req EXCEPT ![r].st = "upgrading"]
        /\ conn' = IF conn[c].proto = "h1" THEN [conn EXCEPT ![c].st = "joined"] ELSE conn
        /\ UNCHANGED <<phase, signalled, active, counters, history, fate>>

\* Hyper's connection future returns: an HTTP/1.1 supervisor goes on with the relay it
\* joined or finds in the channel, an HTTP/2 one waits for its relays.
Served(c) ==
    /\ conn' = [conn EXCEPT ![c].served = TRUE,
                            ![c].st = IF @ = "joined" THEN "joined"
                                      ELSE IF conn[c].proto = "h1" /\ QueuedOn(c) = {} THEN "done"
                                      ELSE "relays"]
    /\ UNCHANGED <<phase, signalled, counters, history>>

\* Nothing is in flight on it: idle past the header-read timeout, closed by an answer,
\* switched to a relay, or gracefully shut down.
ServedOut(c) ==
    /\ conn[c].st \in {"serving", "graceful", "joined"} /\ ~conn[c].served
    /\ InFlight(c) = {}
    /\ conn[c].proto = "h2" => /\ conn[c].st = "graceful"
                               /\ \A r \in Of(c) : Live(r) => req[r].st = "closing"
    /\ Served(c)
    /\ req' = [r \in Reqs |-> IF conn[c].proto = "h1" /\ r \in QueuedOn(c)
                              THEN [req[r] EXCEPT !.st = "upgrading"] ELSE req[r]]
    /\ UNCHANGED <<active, fate>>

\* The connection breaks.  Hyper drops an HTTP/1.1 request with the connection; HTTP/2
\* requests run in tasks of their own and notice later (CutOff).
ClientGone(c) ==
    /\ conn[c].st \in {"serving", "graceful", "joined"} /\ ~conn[c].served
    /\ conn[c].proto = "h2" \/ InFlight(c) # {}
    /\ Served(c)
    /\ Drop(IF conn[c].proto = "h1" THEN InFlight(c) ELSE {})

\* An HTTP/2 request task ends early: its stream was reset or its connection is gone.
\* A relay task ends early only when its supervisor was aborted.
CutOff(r) ==
    /\ Live(r) /\ ~OnHttp1(r)
    /\ req[r].st \in Relaying => conn[req[r].conn].st = "done"
    /\ Drop({r})
    /\ UNCHANGED <<phase, signalled, conn, counters, history>>

Orphaned(r) == Live(r) /\ conn[req[r].conn].st \in {"relays", "done"}

\* The supervisor returns; relays never taken from the channel are dropped with it.
Finish(c) ==
    /\ conn[c].st = "relays" \/ (conn[c].st = "joined" /\ conn[c].served)
    /\ \A r \in Of(c) : req[r].st \notin Relaying \ {"queued"}
    /\ conn' = [conn EXCEPT ![c].st = "done"]
    /\ Drop(QueuedOn(c))
    /\ UNCHANGED <<phase, signalled, counters, history>>

\* The drain timeout: the connection tasks are aborted and joined.  What they hold
\* themselves is dropped before run_until_shutdown returns; HTTP/2 request and relay
\* tasks are ended by the runtime afterwards (CutOff).
HeldByTask(c) == {r \in Of(c) : Live(r) /\ (conn[c].proto = "h1" \/ req[r].st = "queued")}

MutForceStop ==
    /\ phase = "draining" /\ Admitted = {}
    /\ phase' = "stopped"
    /\ UNCHANGED <<signalled, conn, req, active, counters, history, fate>>

ForceStop ==
    /\ phase = "draining" /\ Admitted # {}
    /\ phase' = "stopped"
    /\ conn' = [c \in Conns |-> IF c \in Admitted THEN [conn[c] EXCEPT !.st = "done"] ELSE conn[c]]
    /\ Drop(UNION {HeldByTask(c) : c \in Admitted})
    /\ UNCHANGED <<signalled, counters, history>>

(***************************************************************************)
(* A session's relay.                                                      *)
(***************************************************************************)
RelayOwned(r) == conn[req[r].conn].st # "done"

\* Both upgrades resolve, or they fail or time out.
Upgraded(r, ok) ==
    /\ req[r].st = "upgrading" /\ RelayOwned(r)
    /\ req' = [req EXCEPT ![r].st = IF ok THEN "relaying" ELSE "closing"]
    /\ UNCHANGED <<phase, signalled, conn, active, counters, history, fate>>

\* relay_upgraded_io returns: both sides closed, idle timeout, or I/O error.
RelayEnds(r) ==
    /\ req[r].st = "relaying" /\ RelayOwned(r)
    /\ req' = [req EXCEPT ![r].st = "closing"]
    /\ UNCHANGED <<phase, signalled, conn, active, counters, history, fate>>

\* The driver is joined and the tunnel stream has closed.
RelayClosed(r) ==
    /\ req[r].st = "closing" /\ RelayOwned(r)
    /\ req' = [req EXCEPT ![r].st = "done"]
    /\ active' = ReleaseOf(r)
    /\ counters' = Count("completed")
    /\ UNCHANGED <<phase, signalled, conn, history, fate>>

-----------------------------------------------------------------------------
Next ==
    \/ \E c \in Conns, p \in PeerIps : Accept(c, p)
    \/ \E p \in PeerIps : AcceptRefused(p)
    \/ AcceptError \/ Signal \/ BeginDrain \/ Drained \/ ForceStop
    \/ \E c \in Conns, proto \in {"h1", "h2"} : TlsAccepted(c, proto)
    \/ \E c \in Conns : TlsRejected(c)
    \/ \E c \in Conns : Hear(c)
    \/ \E c \in Conns : ServedOut(c)
    \/ \E c \in Conns : ClientGone(c)
    \/ \E c \in Conns : Finish(c)
    \/ \E c \in Conns, r \in Reqs : ArriveRefused(c, r)
    \/ \E c \in Conns, r \in Reqs : ArriveProbe(c, r)
    \/ \E c \in Conns, r \in Reqs, large \in BOOLEAN : ArriveRegular(c, r, large)
    \/ \E c \in Conns, r \in Reqs, k \in Sessions : ArriveSession(c, r, k)
    \/ \E r \in Reqs, b \in BOOLEAN : Resolved(r, b)
    \/ \E r \in Reqs, status \in {"unavailable", "timeout"} : OpenFailed(r, status)
    \/ \E r \in Reqs : Opened(r)
    \/ \E r \in Reqs : Shaken(r)
    \/ \E r \in Reqs : LocalFailed(r)
    \/ \E r \in Reqs, b \in BOOLEAN : LocalResponse(r, b)
    \/ \E r \in Reqs, b \in BOOLEAN : LocalSwitch(r, b)
    \/ \E r \in Reqs : Deadline(r)
    \/ \E r \in Reqs : BodyEnds(r)
    \/ \E r \in Reqs : BodyDeadline(r)
    \/ \E r \in Reqs : BodyFails(r)
    \/ \E r \in Reqs : Stall(r)
    \/ \E r \in Reqs : CutOff(r)
    \/ \E r \in Reqs : TakeRelay(r)
    \/ \E r \in Reqs, b \in BOOLEAN : Upgraded(r, b)
    \/ \E r \in Reqs : RelayEnds(r)
    \/ \E r \in Reqs : RelayClosed(r)

\* The loop's own steps and every step a timer bounds.  A client's reading, a body's
\* length and a relay's traffic are not bounded by the ingress.
Fairness ==
    /\ WF_vars(BeginDrain) /\ WF_vars(Drained) /\ WF_vars(ForceStop)
    /\ \A c \in Conns : /\ WF_vars(TlsRejected(c)) /\ WF_vars(Hear(c))
                        /\ WF_vars(ServedOut(c)) /\ WF_vars(Finish(c))
    /\ \A r \in Reqs : /\ WF_vars(Deadline(r)) /\ WF_vars(TakeRelay(r))
                       /\ WF_vars(Upgraded(r, FALSE)) /\ WF_vars(RelayClosed(r))
                       /\ WF_vars(Orphaned(r) /\ CutOff(r))

Spec == Init /\ [][Next]_vars /\ Fairness

-----------------------------------------------------------------------------
\* A session guard is alive exactly as long as its request future or relay is: no
\* path (refusal, deadline, disconnect, failed hand-over, abort, shutdown) keeps a
\* permit or returns it twice, and the limit holds throughout.
SessionsExact ==
    \A k \in Sessions :
        /\ active[k] = Cardinality({r \in Reqs : HoldsGuard(r) /\ req[r].kind = k})
        /\ active[k] <= SessionLimit

\* Every request is counted once: it is in flight, rejected, completed, timed out in
\* its body, or was cut off by its client, by the local side or by shutdown.
AccountedOnce ==
    fate.begun = Cardinality({r \in Reqs : Live(r)}) + counters.rejected + counters.completed
                   + (counters.timeouts - fate.late) + fate.lost

\* What the history may say of a request that was answered so.  A 504 is the
\* request's deadline or the open timeout of the router.
OutcomesOf(status) ==
    CASE status = "local" -> {"forwarded"}
      [] status = "timeout" -> {"timeout", "local_unavailable"}
      [] status = "too_large" -> {"rejected"}
      [] OTHER -> {"local_unavailable"}

\* The history holds the newest answered regular requests in order, one entry each,
\* and its outcome fits the answer the client got: what the Edge answered itself is
\* never shown as forwarded, and a forwarded request never as failed.
HistoryFaithful ==
    /\ history.next - 1 = fate.regular - fate.unrecorded
                            - Cardinality({r \in Reqs : req[r].pending})
    /\ Len(history.entries) = history.next - 1 - history.evicted
    /\ \A i \in 1..Len(history.entries) :
          /\ history.entries[i].id = history.evicted + i
          /\ history.entries[i].outcome \in OutcomesOf(history.entries[i].status)

\* An HTTP/1.1 connection is reused only after a local response, and never beyond the
\* cap: an answer of the Edge's own, a timed-out body or an upgrade is the last.
ReuseSafe ==
    \A r, s \in Reqs :
        /\ Live(s) \/ req[s].st = "done"
        /\ Live(r) \/ req[r].st = "done"
        /\ req[r].conn = req[s].conn /\ OnHttp1(s)
        /\ req[s].num = req[r].num + 1
        => req[r].ans = "local" /\ req[r].st = "done" /\ req[s].num <= MaxRequests

\* When the runtime has returned no connection task is left, and with them the
\* connection permits and every HTTP/1.1 request and relay are gone.
StopIsComplete ==
    phase = "stopped" =>
        /\ Admitted = {}
        /\ \A r \in Reqs : Live(r) => ~OnHttp1(r) /\ req[r].st # "queued"

\* Shutdown completes, whatever clients, bodies and relays do, and every session permit
\* comes back, the ones of HTTP/2 tasks included.
ShutdownReleases ==
    signalled ~> (phase = "stopped" /\ \A r \in Reqs : ~Live(r))
=============================================================================
