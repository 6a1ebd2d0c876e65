----------------------------- MODULE EdgeConfig -----------------------------
(***************************************************************************)
(* How the Edge process decides what it will serve: the command line, the  *)
(* exposure policies, the loaders of HTTPS, route and transport material,  *)
(* the optional snapshot bootstrap, and the runtime's own validation       *)
(* (edge/src/bin/tunnelproxy-edge.rs, edge/src/runtime.rs,                 *)
(* edge/src/snapshot_runtime.rs).                                          *)
(*                                                                         *)
(* A command line is a partial function from flags to values.  A value is  *)
(* what the checks tell apart: "ok" is usable, "zero" and "big" lie below  *)
(* and above what is accepted, "public" is an address that is not          *)
(* loopback, "bad" does not parse.  Every behaviour starts from the        *)
(* command line of a sound deployment and lets the operator change a few   *)
(* flags of it, so each check is met by lines that are nearly right.       *)
(***************************************************************************)
EXTENDS Naturals, FiniteSets, Functions, TLC

CONSTANT MaxEdits \* how many flags the operator changes

VARIABLES
  line,   \* the flags given, with their values
  edits,  \* changes made so far
  step,   \* the stage main() has reached
  auth,   \* what load_transport_configuration returned
  code    \* the exit code, or "none"

edgeConfigVars == <<line, edits, step, auth, code>>

-----------------------------------------------------------------------------
(* The flags, by the field of ParsedArgs that records their presence.      *)

RawFlags == {"raw-listen", "max-raw-connections", "allow-public-raw-ingress",
             "max-raw-connections-per-ip"}

HttpsRouteFlags == {"https-listen", "https-host", "https-route-server",
                    "https-route-max-stale-ms", "https-route-tls-reload-manifest",
                    "public-tls-cert", "public-tls-key", "public-tls-reload-manifest",
                    "allow-public-https-ingress", "max-http-connections",
                    "max-http-connections-per-ip"}

HttpLimitFlags == {"max-http-header-bytes", "max-http-headers",
                   "max-http-request-body-bytes", "max-http-requests-per-connection",
                   "http-header-timeout-ms", "http-request-timeout-ms",
                   "https-request-history-capacity"}

RateFlags == {"http-requests-per-second", "http-request-burst",
              "http-requests-per-ip-per-second", "http-request-burst-per-ip",
              "max-http-rate-limit-peers", "http-rate-limit-idle-ms"}

Http2Options == {"max-http2-concurrent-streams", "http2-keepalive-interval-ms",
                 "http2-keepalive-timeout-ms"}

WebSocketOptions == {"max-websocket-sessions", "websocket-idle-timeout-ms"}

ConnectOptions == {"max-connect-sessions", "connect-idle-timeout-ms",
                   "connect-authority-port"}

SignedReloadOptions == {"signed-access-keyring-reload-manifest",
                        "signed-access-reload-interval-ms"}

SignedOptions == SignedReloadOptions \cup
                 {"signed-access-keyring", "signed-access-max-ttl-seconds",
                  "signed-access-clock-skew-seconds"}

HttpSwitches == {"enable-http2", "enable-websocket-upgrade", "enable-http2-websocket",
                 "enable-connect", "enable-http2-connect", "require-signed-access"}

HttpsFlags == HttpsRouteFlags \cup HttpLimitFlags \cup RateFlags \cup Http2Options
              \cup WebSocketOptions \cup ConnectOptions \cup SignedOptions
              \cup HttpSwitches

OpsOptions == {"max-ops-connections", "ops-header-timeout-ms", "ops-request-timeout-ms"}

TlsFlags == {"tls-cert", "tls-key", "tls-client-ca", "authorized-client-cert",
             "tls-handshake-timeout-ms"}

SnapshotIdentity == {"snapshot-server", "snapshot-ca", "snapshot-client-cert",
                     "snapshot-client-key", "snapshot-server-name"}

SnapshotFlags == SnapshotIdentity \cup
                 {"snapshot-connect-timeout-ms", "snapshot-handshake-timeout-ms",
                  "snapshot-subscribe-timeout-ms", "snapshot-reconnect-initial-ms",
                  "snapshot-reconnect-max-ms", "snapshot-cache-dir",
                  "snapshot-cache-max-stale-ms"}

ReloadManifests == {"tls-reload-manifest", "snapshot-tls-reload-manifest",
                    "https-route-tls-reload-manifest"}

ReloadTuning == {"tls-reload-interval-ms", "tls-expiry-warning-ms"}

Identity == {"agent-id", "tunnel-id"}

BaseFlags == {"help", "agent-listen", "max-streams", "max-agent-sessions", "ops-listen",
              "drain-timeout-ms"} \cup Identity

Flags == RawFlags \cup HttpsFlags \cup OpsOptions \cup TlsFlags \cup SnapshotFlags
         \cup ReloadManifests \cup ReloadTuning \cup BaseFlags

(* The values the checks distinguish.  Paths, names and switches are only  *)
(* given or not; the reachability of what they name is decided by the load *)
(* that opens it.                                                          *)
Listeners == {"agent-listen", "raw-listen", "https-listen", "ops-listen"}
Numbers == {"max-raw-connections", "max-raw-connections-per-ip", "max-http-connections",
            "max-http-connections-per-ip", "https-route-max-stale-ms", "max-streams",
            "max-agent-sessions", "drain-timeout-ms", "tls-handshake-timeout-ms"}
           \cup HttpLimitFlags \cup RateFlags \cup Http2Options \cup WebSocketOptions
           \cup ConnectOptions \cup OpsOptions \cup ReloadTuning
           \cup (SignedOptions \ {"signed-access-keyring",
                                  "signed-access-keyring-reload-manifest"})
           \cup (SnapshotFlags \ (SnapshotIdentity \cup {"snapshot-cache-dir"}))

ValuesOf(f) == CASE f \in Listeners -> {"ok", "public", "bad"}
                 [] f \in Numbers -> {"ok", "zero", "big", "bad"}
                 [] f \in Identity \cup {"https-host"} -> {"ok", "bad"}
                 [] OTHER -> {"ok"}

-----------------------------------------------------------------------------
(* ParsedArgs: a flag that is not given has its default, and every default *)
(* that is a value is usable.                                              *)
Given(f) == f \in DOMAIN line
Value(f) == IF Given(f) THEN line[f] ELSE "ok"
AnyOf(group) == \E f \in group : Given(f)
AllOf(group) == \A f \in group : Given(f)
Positive(group) == \A f \in group : Value(f) # "zero"
InRange(group) == \A f \in group : Value(f) = "ok"

(* parse_args: an unusable value stops at its flag; the switches are then  *)
(* related to each other.                                                  *)
ParseValues == \A f \in DOMAIN line : line[f] # "bad"

HistoryAccepted == Given("https-request-history-capacity") =>
                     /\ Value("https-request-history-capacity") = "ok"
                     /\ Given("https-listen")
                     /\ Given("ops-listen")

RouteFlagsAgree ==
  /\ ~(Given("https-route-server") /\ Given("https-host"))
  /\ Given("https-route-max-stale-ms") => Given("https-route-server")
  /\ Given("https-route-tls-reload-manifest") => Given("https-route-server")

ProtocolFlagsAgree ==
  /\ AnyOf(Http2Options) => Given("enable-http2")
  /\ Given("enable-http2-connect") => Given("enable-http2")
  /\ Given("enable-http2-websocket") => Given("enable-http2")
  /\ AnyOf(WebSocketOptions) => AnyOf({"enable-websocket-upgrade", "enable-http2-websocket"})
  /\ AnyOf(ConnectOptions) => AnyOf({"enable-connect", "enable-http2-connect"})

SignedFlagsAgree ==
  /\ AnyOf(SignedOptions) => Given("require-signed-access")
  /\ AnyOf(SignedReloadOptions) => Given("signed-access-keyring-reload-manifest")
  /\ Given("require-signed-access") => ~AnyOf({"enable-connect", "enable-http2-connect"})

ParseAccepted ==
  /\ ParseValues
  /\ AnyOf(OpsOptions) => Given("ops-listen")
  /\ HistoryAccepted
  /\ RouteFlagsAgree
  /\ ProtocolFlagsAgree
  /\ SignedFlagsAgree

-----------------------------------------------------------------------------
(* The exposure policies, decided from the command line alone.             *)

RawExposurePolicy ==
  CASE Given("https-listen") -> IF AnyOf(RawFlags) THEN "refused" ELSE "loopback"
    [] ~Given("https-listen") /\ ~Given("allow-public-raw-ingress") ->
         IF Given("max-raw-connections-per-ip") \/ Value("raw-listen") = "public"
         THEN "refused" ELSE "loopback"
    [] OTHER ->
         IF Given("max-raw-connections-per-ip") /\ Value("max-raw-connections-per-ip") = "ok"
         THEN "public" ELSE "refused"

HttpsExposurePolicy ==
  IF ~Given("allow-public-https-ingress")
  THEN IF Given("max-http-connections-per-ip") \/ Value("https-listen") = "public"
       THEN "refused" ELSE "loopback"
  ELSE IF Given("max-http-connections-per-ip") /\ Value("max-http-connections-per-ip") = "ok"
       THEN "public" ELSE "refused"

(* HttpRequestRateLimitConfig::validate.                                   *)
RateLimitAccepted == InRange(RateFlags)

(* HttpIngressConfig::validate, for the config load_https_configuration    *)
(* builds.                                                                 *)
HttpLimitsAccepted ==
  /\ InRange({"max-http-connections", "max-http-header-bytes", "max-http-headers",
              "max-http-requests-per-connection"})
  /\ Positive({"max-http-request-body-bytes", "http-header-timeout-ms",
               "http-request-timeout-ms", "drain-timeout-ms"})

Http2Accepted == Given("enable-http2") =>
                   /\ InRange({"max-http2-concurrent-streams"})
                   /\ Positive({"http2-keepalive-interval-ms", "http2-keepalive-timeout-ms"})

WebSocketAccepted == AnyOf({"enable-websocket-upgrade", "enable-http2-websocket"}) =>
                       /\ Given("enable-http2-websocket") => Given("enable-http2")
                       /\ InRange({"max-websocket-sessions"})
                       /\ Positive({"websocket-idle-timeout-ms"})

ConnectAccepted == AnyOf({"enable-connect", "enable-http2-connect"}) =>
                     /\ Given("enable-http2-connect") => Given("enable-http2")
                     /\ InRange({"max-connect-sessions", "connect-authority-port"})
                     /\ Positive({"connect-idle-timeout-ms"})

SignedAccessAccepted == Given("require-signed-access") =>
                          /\ InRange({"signed-access-max-ttl-seconds"})
                          /\ Value("signed-access-clock-skew-seconds") # "big"
                          /\ ~AnyOf({"enable-connect", "enable-http2-connect"})

HttpIngressAccepted == /\ HttpLimitsAccepted
                       /\ Http2Accepted
                       /\ WebSocketAccepted
                       /\ ConnectAccepted
                       /\ SignedAccessAccepted
                       /\ RateLimitAccepted

(* What load_https_configuration demands before it opens a file.           *)
KeyRingNamed == Given("require-signed-access") =>
                  /\ Given("signed-access-keyring")
                  /\ Given("signed-access-keyring-reload-manifest") =>
                       Positive({"signed-access-reload-interval-ms"})

PublicReloadAccepted == Given("public-tls-reload-manifest") => Positive(ReloadTuning)

HttpsAccepted ==
  \/ ~AnyOf(HttpsFlags)
  \/ /\ AllOf({"https-listen", "public-tls-cert", "public-tls-key"})
     /\ AnyOf({"https-host", "https-route-server"})
     /\ HttpsExposurePolicy # "refused"
     /\ KeyRingNamed
     /\ PublicReloadAccepted
     /\ Positive({"tls-handshake-timeout-ms"})
     /\ HttpIngressAccepted

(* load_https_route_configuration: the route client reuses the snapshot    *)
(* identity.                                                               *)
RoutesAccepted ==
  Given("https-route-server") =>
    /\ AllOf(SnapshotIdentity \ {"snapshot-server"})
    /\ Positive({"https-route-max-stale-ms"})
    /\ Given("https-route-tls-reload-manifest") => Positive(ReloadTuning)

(* load_transport_configuration and, in snapshot mode,                     *)
(* load_snapshot_configuration: which authorization the flags select.      *)
ReloadPresent == AnyOf(ReloadManifests \cup ReloadTuning)

CacheAccepted == \/ ~AnyOf({"snapshot-cache-dir", "snapshot-cache-max-stale-ms"})
                 \/ /\ AllOf({"snapshot-cache-dir", "snapshot-cache-max-stale-ms"})
                    /\ Positive({"snapshot-cache-max-stale-ms"})

SnapshotClientAccepted ==
  Positive({"snapshot-connect-timeout-ms", "snapshot-handshake-timeout-ms",
            "snapshot-subscribe-timeout-ms", "snapshot-reconnect-initial-ms",
            "snapshot-reconnect-max-ms"})
  /\ (Value("snapshot-reconnect-initial-ms") = "big" =>
        Value("snapshot-reconnect-max-ms") = "big")

SnapshotAccepted == /\ AllOf(SnapshotIdentity)
                    /\ CacheAccepted
                    /\ Given("snapshot-tls-reload-manifest") => Positive(ReloadTuning)
                    /\ SnapshotClientAccepted

TlsReloadAccepted == /\ AnyOf(ReloadTuning) => AnyOf(ReloadManifests)
                     /\ Given("tls-reload-manifest") => Positive(ReloadTuning)
                     /\ Positive({"tls-handshake-timeout-ms"})

Authorization ==
  CASE ~AnyOf({"tls-cert", "tls-key", "tls-client-ca"}) ->
         IF AnyOf({"authorized-client-cert"} \cup SnapshotFlags) \/ ReloadPresent
         THEN "refused" ELSE "loopback_development"
    [] AllOf({"tls-cert", "tls-key", "tls-client-ca"}) ->
         CASE Given("authorized-client-cert") = AnyOf(SnapshotFlags) -> "refused"
           [] Given("authorized-client-cert") /\ ~AnyOf(SnapshotFlags) ->
                IF TlsReloadAccepted /\ ~Given("snapshot-tls-reload-manifest")
                THEN "static_mutual_tls" ELSE "refused"
           [] OTHER -> IF TlsReloadAccepted /\ SnapshotAccepted
                       THEN "snapshot" ELSE "refused"
    [] OTHER -> "refused"

-----------------------------------------------------------------------------
(* EdgeRuntimeConfig::validate, which sees the assembled configuration.    *)
Tls == auth # "loopback_development"
LiveAuthorization == auth = "snapshot"
DynamicHttps == Given("https-route-server")
HttpsServed == Given("https-listen")

MultiplexAccepted == /\ InRange({"max-agent-sessions"}) \/ Value("max-agent-sessions") = "big"
                     /\ Tls \/ Value("agent-listen") # "public"
                     /\ Positive({"max-streams"})

OperationsAccepted == Given("ops-listen") =>
                        /\ Value("ops-listen") # "public"
                        /\ InRange({"max-ops-connections"})
                        /\ Positive({"ops-header-timeout-ms", "ops-request-timeout-ms"})

MutPublicHttpsAccepted == HttpsExposurePolicy = "public" => Tls
PublicHttpsAccepted == HttpsExposurePolicy = "public" => Tls /\ LiveAuthorization

RawAccepted == /\ InRange({"max-raw-connections"})
               /\ RawExposurePolicy = "public" => Tls /\ LiveAuthorization

EdgeRuntimeAccepted ==
  /\ MultiplexAccepted
  /\ Value("max-agent-sessions") # "big" \/ DynamicHttps
  /\ IF HttpsServed THEN HttpIngressAccepted /\ PublicHttpsAccepted ELSE RawAccepted
  /\ OperationsAccepted
  /\ HistoryAccepted
  /\ Positive({"drain-timeout-ms"})

-----------------------------------------------------------------------------
(* The deployments the operator starts from.                               *)
Line(flags, public) == [f \in flags |-> IF f \in public THEN "public" ELSE "ok"]
MutualTls == {"tls-cert", "tls-key", "tls-client-ca"}

Deployments ==
  {Line({}, {}),
   Line(MutualTls \cup {"authorized-client-cert", "https-listen", "https-host",
                        "public-tls-cert", "public-tls-key", "enable-http2",
                        "enable-http2-websocket", "enable-connect"}, {}),
   Line(MutualTls \cup {"authorized-client-cert", "https-listen", "https-host",
                        "public-tls-cert", "public-tls-key", "allow-public-https-ingress",
                        "max-http-connections-per-ip"}, {"https-listen"}),
   Line(MutualTls \cup SnapshotIdentity \cup
        {"agent-listen", "raw-listen", "allow-public-raw-ingress",
         "max-raw-connections-per-ip"}, {"agent-listen", "raw-listen"}),
   Line(MutualTls \cup SnapshotIdentity \cup
        {"agent-listen", "https-listen", "https-route-server", "public-tls-cert",
         "public-tls-key", "allow-public-https-ingress", "max-http-connections-per-ip",
         "ops-listen", "require-signed-access", "signed-access-keyring"},
        {"agent-listen", "https-listen"})}

EdgeConfigInit == /\ line \in Deployments
                  /\ edits = 0
                  /\ step = "line"
                  /\ auth = "none"
                  /\ code = "none"

Edit == /\ step = "line"
        /\ edits < MaxEdits
        /\ \/ \E f \in Flags : \E v \in ValuesOf(f) :
                /\ Value(f) # v \/ ~Given(f)
                /\ line' = (f :> v) @@ line
           \/ \E f \in DOMAIN line : line' = Restrict(line, DOMAIN line \ {f})
        /\ edits' = edits + 1
        /\ UNCHANGED <<step, auth, code>>

Advance(from, accepted, to) ==
  /\ step = from
  /\ step' = IF accepted THEN to ELSE "exit"
  /\ code' = IF accepted THEN code ELSE "2"
  /\ UNCHANGED <<line, edits>>

ParseArgs == /\ IF ParseAccepted /\ Given("help")
                THEN /\ step = "line"
                     /\ step' = "exit"
                     /\ code' = "0"
                     /\ UNCHANGED <<line, edits>>
                ELSE Advance("line", ParseAccepted, "policy")
             /\ UNCHANGED auth

RawPolicy == Advance("policy", RawExposurePolicy # "refused", "https") /\ UNCHANGED auth
LoadHttps == Advance("https", HttpsAccepted, "routes") /\ UNCHANGED auth
LoadRoutes == Advance("routes", RoutesAccepted, "transport") /\ UNCHANGED auth

LoadTransport == /\ Advance("transport", Authorization # "refused", "dispatch")
                 /\ auth' = Authorization

(* main: a static authorization cannot follow dynamic routes.              *)
Dispatch == /\ Advance("dispatch", LiveAuthorization \/ ~DynamicHttps,
                       IF LiveAuthorization THEN "bootstrap" ELSE "bind")
            /\ UNCHANGED auth

(* The file behind a path is missing or invalid: the loader returns, and   *)
(* main exits with 2.                                                      *)
LoadFails == /\ \/ step \in {"https", "routes"} /\ AnyOf(HttpsFlags)
                \/ step = "transport" /\ AnyOf(TlsFlags)
             /\ step' = "exit"
             /\ code' = "2"
             /\ UNCHANGED <<line, edits, auth>>

(* SnapshotAwareEdgeRuntime::bind*: the first snapshot (online or cached)  *)
(* and, with dynamic routes, the first route catalogue.                    *)
Bootstrap == /\ step = "bootstrap"
             /\ \/ step' = "bind" /\ UNCHANGED code
                \/ step' = "exit" /\ code' = "1"
             /\ UNCHANGED <<line, edits, auth>>

(* EdgeRuntime::bind*: the assembled configuration is validated, then the  *)
(* listeners are bound; a failed bind exits with 1.                        *)
BindRuntime == /\ \/ Advance("bind", EdgeRuntimeAccepted, "serving")
                  \/ /\ step = "bind" /\ EdgeRuntimeAccepted
                     /\ step' = "exit" /\ code' = "1"
                     /\ UNCHANGED <<line, edits>>
               /\ UNCHANGED auth

EdgeConfigNext == \/ Edit
                  \/ ParseArgs
                  \/ RawPolicy
                  \/ LoadHttps
                  \/ LoadRoutes
                  \/ LoadTransport
                  \/ Dispatch
                  \/ LoadFails
                  \/ Bootstrap
                  \/ BindRuntime

-----------------------------------------------------------------------------
(* Whatever the command line, an Edge that serves a listener other hosts   *)
(* can reach was told to in so many words, has a per-address limit on it,  *)
(* authenticates its Agents by certificate and authorizes them from live   *)
(* snapshots; the operations listener is never reachable; an Agent         *)
(* listener other hosts can reach is mutual TLS; and many Agents are       *)
(* accepted only with dynamic routes, which need snapshots.  The checks    *)
(* behind it are spread over five stages (tunnelproxy-edge.rs:1230-1282,   *)
(* 1495-1632, 199-202; runtime.rs:59-151; multiplex.rs:86-99).             *)
ExposureSafe ==
  step = "serving" =>
    /\ (~HttpsServed /\ Value("raw-listen") = "public") =>
          /\ AllOf({"allow-public-raw-ingress", "max-raw-connections-per-ip"})
          /\ LiveAuthorization
    /\ (HttpsServed /\ Value("https-listen") = "public") =>
          /\ AllOf({"allow-public-https-ingress", "max-http-connections-per-ip"})
          /\ LiveAuthorization
    /\ Value("agent-listen") = "public" => Tls
    /\ ~(Given("ops-listen") /\ Value("ops-listen") = "public")
    /\ (DynamicHttps \/ Value("max-agent-sessions") = "big") =>
          DynamicHttps /\ HttpsServed /\ LiveAuthorization

(* An Edge that serves runs the part that each option it was given tunes:  *)
(* an option whose part is off stops the start somewhere between           *)
(* parse_args and load_transport_configuration (tunnelproxy-edge.rs:       *)
(* 1175-1226, 1231-1234, 1743-1747, 1498-1534).  No stage relates three    *)
(* flags to the mode, and these may be given in vain: --agent-id with      *)
(* snapshot authorization, --tunnel-id with dynamic routes as well, and    *)
(* --tls-handshake-timeout-ms without any TLS (757-764, 1079-1083).        *)
OptionsServe ==
  step = "serving" =>
    /\ AnyOf(RawFlags) => ~HttpsServed
    /\ AnyOf(HttpsFlags) => HttpsServed
    /\ AnyOf(Http2Options) => Given("enable-http2")
    /\ AnyOf(WebSocketOptions) =>
         \/ Given("enable-websocket-upgrade")
         \/ AllOf({"enable-http2", "enable-http2-websocket"})
    /\ AnyOf(ConnectOptions) =>
         /\ ~Given("require-signed-access")
         /\ \/ Given("enable-connect")
            \/ AllOf({"enable-http2", "enable-http2-connect"})
    /\ AnyOf(SignedOptions) => AllOf({"require-signed-access", "signed-access-keyring"})
    /\ AnyOf(OpsOptions) => Given("ops-listen")
    /\ AnyOf(SnapshotFlags) => LiveAuthorization
    /\ Given("authorized-client-cert") => auth = "static_mutual_tls"
    /\ ReloadPresent => Tls /\ AnyOf(ReloadManifests)
    /\ Given("snapshot-tls-reload-manifest") => LiveAuthorization
    /\ Given("https-route-tls-reload-manifest") => DynamicHttps /\ LiveAuthorization

=============================================================================
