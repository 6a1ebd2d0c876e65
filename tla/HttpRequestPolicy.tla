-------------------------- MODULE HttpRequestPolicy --------------------------
(***************************************************************************)
(* What the HTTPS ingress accepts and what it passes on (http_ingress.rs): *)
(* prepare_request with its validators, the header rewriting of            *)
(* finalize_request, and the check of an upstream's WebSocket answer.      *)
(* A rejection is FALSE: no property here tells two reasons apart.         *)
(*                                                                         *)
(* A header map is a function from names to the sequence of values; the    *)
(* Connection header's values are its tokens.  A behaviour starts from a   *)
(* well-formed request of each kind and changes one thing at a time.       *)
(***************************************************************************)
EXTENDS Integers, Sequences, FiniteSets, SequencesExt

CONSTANT MaxChanges   \* bound: changes made to a well-formed request

VARIABLES request, server_name, config, answer, changes

vars == <<request, server_name, config, answer, changes>>

WebSocketNames == {"ws-key", "ws-version", "ws-protocol", "ws-extensions"}
HopByHop == {"connection", "te", "transfer-encoding", "upgrade"}
ForwardedNames == {"forwarded", "x-forwarded-for", "x-forwarded-host"}
HeaderNames == WebSocketNames \cup HopByHop \cup ForwardedNames
                 \cup {"host", "content-length", "ws-accept", "challenge", "custom"}

NoHeaders == [n \in HeaderNames |-> <<>>]
Has(h, n) == h[n] # <<>>
Single(h, n) == Len(h[n]) <= 1
Without(h, names) == [n \in HeaderNames |-> IF n \in names THEN <<>> ELSE h[n]]

(***************************************************************************)
(* normalize_authority on the authorities used here.                       *)
(***************************************************************************)
Authorities == {"h1", "h1:443", "h1:80", "h2:443", "bad"}
NameOf(a) == IF a \in {"h1", "h1:443", "h1:80"} THEN "h1" ELSE IF a = "h2:443" THEN "h2" ELSE "none"
PortOf(a) == IF a \in {"h1:443", "h2:443"} THEN 443 ELSE IF a = "h1:80" THEN 80 ELSE 0
ConnectPort == 443   \* ConnectIngressConfig::authority_port

(***************************************************************************)
(* HttpHostRoutes::resolve: a static table, or the catalogue while its     *)
(* source is not expired.  h2's catalogue route is disabled.               *)
(***************************************************************************)
Catalog == {[hostname |-> "h1", tunnel |-> "t1", enabled |-> TRUE],
            [hostname |-> "h2", tunnel |-> "t2", enabled |-> FALSE]}

Resolve(h, c) ==
    IF c.routes = "expired" THEN {}
    ELSE {e.tunnel : e \in {f \in Catalog : f.hostname = h /\ (c.routes = "static" \/ f.enabled)}}

(***************************************************************************)
(* The validators.                                                         *)
(***************************************************************************)
HasToken(h, t) == \E i \in 1..Len(h["connection"]) : h["connection"][i] = t

HasWebSocketIntent(h) ==
    Has(h, "upgrade") \/ HasToken(h, "upgrade") \/ \E n \in WebSocketNames : Has(h, n)

ZeroLength(h) == h["content-length"] \in {<<>>, <<"0">>}

ProbeValid(r) ==
    /\ r.method = "GET" /\ ~r.query /\ ~Has(r.headers, "transfer-encoding")
    /\ ZeroLength(r.headers)
    /\ r.headers["challenge"] = <<"good">>

BodyFree(h) == ZeroLength(h) /\ ~Has(h, "transfer-encoding")

ConnectValid(r, c) ==
    /\ r.version \in c.connect
    /\ r.version = "2" => r.protocol = "none"
    /\ ~HasWebSocketIntent(r.headers)
    /\ BodyFree(r.headers)

ProtocolsValid(h) == \A i \in 1..Len(h["ws-protocol"]) :
    /\ h["ws-protocol"][i] # "bad"
    /\ \A j \in 1..(i - 1) : h["ws-protocol"][j] # h["ws-protocol"][i]

WebSocketValid(r, c) ==
    /\ "1.1" \in c.websocket /\ r.version = "1.1"
    /\ r.method = "GET"
    /\ HasToken(r.headers, "upgrade") /\ r.headers["upgrade"] = <<"websocket">>
    /\ r.headers["ws-version"] = <<"13">>
    /\ r.headers["ws-key"] = <<"good">>
    /\ ~Has(r.headers, "ws-extensions")
    /\ BodyFree(r.headers)
    /\ ProtocolsValid(r.headers)

Http2WebSocketValid(r, c) ==
    /\ "2" \in c.websocket
    /\ r.protocol = "websocket"
    /\ r.scheme = "https" /\ r.authority # "none" /\ r.path # "none"
    /\ \A n \in {"connection", "upgrade", "ws-key", "ws-accept", "ws-extensions",
                 "content-length", "te", "transfer-encoding"} : ~Has(r.headers, n)
    /\ r.headers["ws-version"] = <<"13">>
    /\ ProtocolsValid(r.headers)

(***************************************************************************)
(* prepare_request.                                                        *)
(***************************************************************************)
Kind(r) ==
    IF r.path = "probe" THEN "probe"
    ELSE IF r.method = "CONNECT" /\ r.version = "2" /\ r.protocol # "none" THEN "websocket2"
    ELSE IF r.method = "CONNECT" THEN "connect"
    ELSE IF HasWebSocketIntent(r.headers) THEN "websocket1"
    ELSE "regular"

KindValid(r, c) ==
    CASE Kind(r) = "probe" -> ProbeValid(r)
      [] Kind(r) = "websocket2" -> Http2WebSocketValid(r, c)
      [] Kind(r) = "connect" -> ConnectValid(r, c)
      [] Kind(r) = "websocket1" -> WebSocketValid(r, c)
      [] OTHER -> TRUE

ConnectAuthorityValid(r) ==
    Kind(r) = "connect" =>
        /\ r.authority # "none" /\ r.scheme = "none" /\ r.path = "none"
        /\ PortOf(r.authority) = ConnectPort
        /\ Has(r.headers, "host") => PortOf(r.headers["host"][1]) = ConnectPort

MutAuthoritiesAgree(r) == TRUE

AuthoritiesAgree(r) ==
    (Has(r.headers, "host") /\ r.authority # "none") => NameOf(r.headers["host"][1]) = NameOf(r.authority)

Hostname(r) == IF Has(r.headers, "host") THEN NameOf(r.headers["host"][1]) ELSE NameOf(r.authority)

PrepareRequest(r, sni, c) ==
    /\ ~r.oversized
    /\ KindValid(r, c)
    /\ Single(r.headers, "host")
    /\ Has(r.headers, "host") => NameOf(r.headers["host"][1]) # "none"
    /\ r.authority # "none" => NameOf(r.authority) # "none"
    /\ ConnectAuthorityValid(r)
    /\ r.version # "2" => Has(r.headers, "host")
    /\ AuthoritiesAgree(r)
    /\ Hostname(r) # "none"
    /\ sni # "none" /\ Hostname(r) = sni
    /\ Resolve(Hostname(r), c) # {}

(***************************************************************************)
(* sanitize_request_headers, in the order of the code.                     *)
(***************************************************************************)
RemoveHopByHop(h) == Without(h, Range(h["connection"]) \cup HopByHop)

Forwarded(h, hostname) ==
    [Without(h, ForwardedNames) EXCEPT !["x-forwarded-for"] = <<"peer">>,
                                       !["x-forwarded-host"] = <<hostname>>,
                                       !["host"] = <<hostname>>]

Sanitize(r) ==
    LET h == Without(Forwarded(RemoveHopByHop(r.headers), Hostname(r)), WebSocketNames) IN
    CASE Kind(r) = "regular" -> [h EXCEPT !["connection"] = <<"close">>]
      [] Kind(r) = "probe" -> h
      [] OTHER -> [h EXCEPT !["connection"] = <<"upgrade">>, !["upgrade"] = <<"websocket">>,
                            !["ws-version"] = <<"13">>, !["ws-key"] = <<"good">>,
                            !["ws-protocol"] = r.headers["ws-protocol"]]

(***************************************************************************)
(* sanitize_websocket_response on the upstream's switching answer, for a   *)
(* handshake that offered `offered` to a client of protocol `version`.     *)
(***************************************************************************)
AnswerAccepted(a, offered) ==
    /\ HasToken(a, "upgrade") /\ a["upgrade"] = <<"websocket">>
    /\ a["ws-accept"] = <<"expected">>
    /\ ~Has(a, "ws-extensions")
    /\ \/ a["ws-protocol"] = <<>>
       \/ Len(a["ws-protocol"]) = 1 /\ a["ws-protocol"][1] \in Range(offered)

SanitizedAnswer(a, version) ==
    LET h == [Without(RemoveHopByHop(a), WebSocketNames \cup {"ws-accept", "content-length"})
                 EXCEPT !["ws-protocol"] = a["ws-protocol"]]
    IN  IF version = "2" THEN h
        ELSE [h EXCEPT !["connection"] = <<"upgrade">>, !["upgrade"] = <<"websocket">>,
                       !["ws-accept"] = <<"expected">>]

(***************************************************************************)
(* The well-formed requests, and the changes.                              *)
(***************************************************************************)
PlainGet == [method |-> "GET", version |-> "1.1", protocol |-> "none", scheme |-> "none", authority |-> "none",
             path |-> "/x", query |-> FALSE, oversized |-> FALSE,
             headers |-> [NoHeaders EXCEPT !["host"] = <<"h1">>]]

WebSocketHeaders == [NoHeaders EXCEPT !["host"] = <<"h1">>, !["connection"] = <<"upgrade">>,
    !["upgrade"] = <<"websocket">>, !["ws-version"] = <<"13">>, !["ws-key"] = <<"good">>,
    !["ws-protocol"] = <<"chat">>]

WellFormed ==
    { PlainGet,
      [PlainGet EXCEPT !.version = "2", !.scheme = "https", !.authority = "h1", !.headers = NoHeaders],
      [PlainGet EXCEPT !.path = "probe", !.headers["challenge"] = <<"good">>],
      [PlainGet EXCEPT !.headers = WebSocketHeaders],
      [PlainGet EXCEPT !.method = "CONNECT", !.version = "2", !.protocol = "websocket", !.scheme = "https",
                       !.authority = "h1", !.headers = [NoHeaders EXCEPT !["ws-version"] = <<"13">>]],
      [PlainGet EXCEPT !.method = "CONNECT", !.path = "none", !.authority = "h1:443",
                       !.headers["host"] = <<"h1:443">>],
      [PlainGet EXCEPT !.method = "CONNECT", !.version = "2", !.path = "none", !.authority = "h1:443",
                       !.headers = NoHeaders] }

GoodAnswer == [NoHeaders EXCEPT !["connection"] = <<"upgrade">>, !["upgrade"] = <<"websocket">>,
                                !["ws-accept"] = <<"expected">>]

Values(n) ==
    CASE n = "host" -> {<<>>, <<"h1", "h1">>} \cup {<<a>> : a \in Authorities}
      [] n = "connection" -> {<<>>, <<"upgrade">>} \cup {<<"upgrade", m>> : m \in {"host", "x-forwarded-for", "custom"}}
                               \cup {<<m>> : m \in {"host", "custom"}}
      [] n = "upgrade" -> {<<>>, <<"websocket">>, <<"other">>}
      [] n = "content-length" -> {<<>>, <<"0">>, <<"9">>}
      [] n = "ws-protocol" -> {<<>>, <<"chat">>, <<"bad">>, <<"chat", "chat">>, <<"chat", "super">>, <<"other">>}
      [] n = "ws-version" -> {<<>>, <<"13">>, <<"8">>}
      [] n = "ws-accept" -> {<<>>, <<"expected">>, <<"other">>}
      [] n \in {"ws-key", "challenge"} -> {<<>>, <<"good">>, <<"bad">>, <<"good", "good">>}
      [] OTHER -> {<<>>, <<"client">>}

Configs ==
    {[websocket |-> w[1], connect |-> w[2], routes |-> "static"] :
        w \in {<<{}, {"1.1", "2"}>>, <<{"1.1", "2"}, {}>>, <<{"2"}, {"1.1"}>>}}

Init ==
    /\ request \in WellFormed /\ config \in Configs
    /\ server_name = "h1" /\ answer = GoodAnswer /\ changes = 0

Changed == changes < MaxChanges /\ changes' = changes + 1

ChangeHeader(n) ==
    /\ Changed
    /\ \E v \in Values(n) : request' = [request EXCEPT !.headers[n] = v]
    /\ UNCHANGED <<server_name, config, answer>>

ChangeLine ==
    /\ Changed
    /\ \/ \E m \in {"GET", "POST", "CONNECT"} : request' = [request EXCEPT !.method = m]
       \/ \E v \in {"1.0", "1.1"} : request.version # "2" /\ request' = [request EXCEPT !.version = v]
       \/ \E a \in Authorities \cup {"none"} : request' = [request EXCEPT !.authority = a]
       \/ \E p \in {"none", "probe", "/x"} : request' = [request EXCEPT !.path = p]
       \/ \E p \in {"none", "websocket", "other"} : request.version = "2" /\ request' = [request EXCEPT !.protocol = p]
       \/ request' = [request EXCEPT !.query = TRUE]
       \/ request' = [request EXCEPT !.oversized = TRUE]
    /\ UNCHANGED <<server_name, config, answer>>

ChangeTls ==
    /\ Changed
    /\ \E s \in {"none", "h1", "h2"} : server_name' = s
    /\ UNCHANGED <<request, config, answer>>

ChangeRoutes ==
    /\ Changed
    /\ \E s \in {"static", "live", "expired"} : config' = [config EXCEPT !.routes = s]
    /\ UNCHANGED <<request, server_name, answer>>

ChangeAnswer(n) ==
    /\ Changed
    /\ \E v \in Values(n) : answer' = [answer EXCEPT ![n] = v]
    /\ UNCHANGED <<request, server_name, config>>

Next ==
    \/ \E n \in HeaderNames : ChangeHeader(n)
    \/ ChangeLine
    \/ ChangeTls
    \/ ChangeRoutes
    \/ \E n \in HeaderNames \ {"host"} : ChangeAnswer(n)

Spec == Init /\ [][Next]_vars

Accepted == PrepareRequest(request, server_name, config)

-----------------------------------------------------------------------------
(* A request reaches a tunnel only under one name: every name it carries,  *)
(* in the TLS handshake, the Host header and the target, is the name whose *)
(* enabled route, from a source that has not expired, leads to the tunnel. *)
RoutedHostAgrees ==
    Accepted =>
        /\ {NameOf(a) : a \in Range(request.headers["host"]) \cup ({request.authority} \ {"none"})} = {server_name}
        /\ Resolve(server_name, config) = {e.tunnel : e \in {f \in Catalog : f.hostname = server_name}}
        /\ config.routes # "expired"

(* What becomes an opaque byte stream is an enabled session of its own     *)
(* protocol version, without a body that the relay could take for stream   *)
(* bytes; and what is forwarded as an ordinary request asks for no switch. *)
SessionsUnambiguous ==
    Accepted =>
        /\ Kind(request) \in {"websocket1", "websocket2", "connect"} =>
             /\ request.version \in IF Kind(request) = "connect" THEN config.connect ELSE config.websocket
             /\ ~Has(request.headers, "transfer-encoding") /\ request.headers["content-length"] # <<"9">>
        /\ Kind(request) = "regular" =>
             /\ request.method # "CONNECT" /\ ~Has(request.headers, "upgrade")
             /\ ~\E n \in WebSocketNames : Has(request.headers, n)

(* The upstream sees the routed name as the only Host, the peer as the     *)
(* only forwarded-for, nothing the client nominated for removal, and hop   *)
(* headers that are the Edge's own (sanitize_request_headers); the client  *)
(* of a switched connection sees a subprotocol only if it offered it, and  *)
(* an HTTP/2 client none of HTTP/1.1's hop headers.                        *)
ForwardedClean ==
    /\ (Accepted /\ Kind(request) # "connect") =>
          LET h == Sanitize(request) IN
          /\ h["host"] = <<server_name>> /\ h["x-forwarded-for"] = <<"peer">>
          /\ h["x-forwarded-host"] = <<server_name>> /\ h["forwarded"] = <<>>
          /\ h["te"] = <<>> /\ h["transfer-encoding"] = <<>>
          /\ HasToken(request.headers, "custom") => h["custom"] = <<>>
          /\ h["upgrade"] # <<>> <=> Kind(request) \in {"websocket1", "websocket2"}
    /\ \A v \in {"1.1", "2"} :
          AnswerAccepted(answer, request.headers["ws-protocol"]) =>
              LET h == SanitizedAnswer(answer, v) IN
              /\ Range(h["ws-protocol"]) \subseteq Range(request.headers["ws-protocol"])
              /\ v = "2" => h["connection"] = <<>> /\ h["upgrade"] = <<>> /\ h["ws-accept"] = <<>>
              /\ HasToken(answer, "custom") => h["custom"] = <<>>
=============================================================================
