---------------------------- MODULE AgentConfig ----------------------------
(***************************************************************************)
(* How the Agent process decides what it will run: the command, its flags, *)
(* the configuration file they are layered on, the digest-bound second     *)
(* read of a reloadable file, and the checks each command then makes       *)
(* (agent/src/cli.rs).                                                     *)
(*                                                                         *)
(* As in EdgeConfig a value is "ok", "zero", "big", "public" or "bad".     *)
(* The file is a record of what the code tells apart; a manifest is the    *)
(* document whose digest it lists.  The operator may edit flags before the *)
(* command starts, and may rewrite the file and its manifest at any time.  *)
(***************************************************************************)
EXTENDS Naturals, Sequences, FiniteSets, TLC

CONSTANT MaxChanges \* edits of the flags, the file and the manifest

VARIABLES
  command,    \* "validate", "http", "start" or "tunnel"
  flags,      \* the flags given, with their values
  path,       \* where the path of the file comes from
  disk,       \* the document the path names
  manifest,   \* the document the reload manifest lists the digest of
  pems,       \* the PEM files behind the paths are usable
  changes,    \* changes made so far
  read,       \* discovered document, manifest read and candidate
  profile,    \* the documents shared settings and tunnels come from
  at,         \* what the command does next
  exit,       \* its exit code, or "none"
  validated   \* config validate accepted these very flags and files

agentConfigVars == <<command, flags, path, disk, manifest, pems, changes, read, profile,
                     at, exit, validated>>

-----------------------------------------------------------------------------
Identity == {"tls-ca", "tls-client-cert", "tls-client-key", "tls-server-name"}
Hostname == {"hostname-server", "hostname-ca", "hostname-server-name"}
ProbeOptions == {"reachability-ca", "reachability-timeout-ms",
                 "reachability-monitor-interval-ms", "reachability-failure-threshold"}
ReloadOptions == {"tls-reload-manifest", "tls-reload-interval-ms", "tls-expiry-warning-ms"}
EnrollmentNames == {"enrollment-server", "enrollment-ca", "enrollment-server-name",
                    "enrollment-token", "enrollment-pending"}
EnrollmentTimers == {"renew-before-ms", "enrollment-request-timeout-ms"}
RuntimeNumbers == {"connect-timeout-ms", "handshake-timeout-ms", "drain-timeout-ms",
                   "max-streams", "max-reconnect-attempts", "reconnect-initial-ms"}
OperationsNumbers == {"max-ops-connections", "ops-request-timeout-ms"}
Numbers == RuntimeNumbers \cup OperationsNumbers \cup EnrollmentTimers
           \cup (ProbeOptions \ {"reachability-ca"})
           \cup (ReloadOptions \ {"tls-reload-manifest"})
           \cup {"hostname-request-timeout-ms", "tls-handshake-timeout-ms"}
Addresses == {"edge", "local", "ops-listen"}
Switches == {"help", "enroll-only", "verify-public-reachability"}
AgentFlags == Identity \cup Hostname \cup ProbeOptions \cup ReloadOptions \cup Numbers
              \cup EnrollmentNames \cup Addresses \cup Switches
              \cup {"agent-id", "tunnel-id"}

FlagValues(f) == CASE f \in Addresses -> {"ok", "public", "bad"}
                   [] f \in Numbers -> {"ok", "zero", "big"}
                   [] OTHER -> {"ok"}

(* AgentConfigFile and MultiAgentConfigFile, by what the code tells apart: *)
(* what opening and parsing reject, what layering rejects, the tunnels,    *)
(* the reload section and the reachability section.                        *)
DocumentValues ==
  [open |-> {"ok", "missing", "unreadable", "too_large"},
   schema |-> {"ok", "bad"},
   version |-> {"v1", "v2", "v3"},
   values |-> {"ok", "bad"},
   tunnels |-> {"ok", "empty", "too_many", "duplicate", "zero_port", "bad_id"},
   reload |-> {"none", "ok", "other", "no_manifest", "bad_interval"},
   probe |-> {"absent", "on", "off"},
   options |-> {{}, {"reachability-ca"}, {"reachability-monitor-interval-ms"},
                {"reachability-failure-threshold"}, ProbeOptions},
   option_value |-> {"ok", "zero", "big"}]

Sound(version, reload) ==
  [open |-> "ok", schema |-> "ok", version |-> version, values |-> "ok", tunnels |-> "ok",
   reload |-> reload, probe |-> "absent", options |-> {}, option_value |-> "ok"]

NoDocument == [Sound("v1", "none") EXCEPT !.open = "missing"]
NoRead == [discovered |-> NoDocument, listed |-> NoDocument]
NoProfile == [shared |-> NoDocument, tunnels |-> NoDocument]

-----------------------------------------------------------------------------
(* ParsedArgs after layering: an explicit flag wins, then the file, then   *)
(* the default, which is usable or absent.                                 *)
Given(f) == f \in DOMAIN flags
FileGives == IF profile = NoProfile THEN {}
             ELSE Identity \cup Hostname \cup {"edge", "agent-id"}
                  \cup (IF profile.shared.probe = "absent" THEN {}
                        ELSE profile.shared.options)
Has(f) == Given(f) \/ f \in FileGives
Value(f) == CASE Given(f) -> flags[f]
              [] ~Given(f) /\ f \in FileGives /\ f \in ProbeOptions ->
                   profile.shared.option_value
              [] OTHER -> "ok"
AnyOf(group) == \E f \in group : Has(f)
AllOf(group) == \A f \in group : Has(f)
Positive(group) == \A f \in group : Value(f) # "zero"
InRange(group) == \A f \in group : Value(f) = "ok"

Managed == command \in {"http", "start", "validate"}
VerifyPublicReachability == Given("verify-public-reachability")
                            \/ (profile # NoProfile /\ profile.shared.probe = "on")

(* parse_start_command, parse_run_command and parse_config_validate_command*)
(* over parse_args, which rejects a value it cannot parse.                 *)
StartLineAccepted == ~AnyOf({"local", "tunnel-id", "enroll-only"})
RunLineAccepted ==
  /\ command = "http" => ~AnyOf({"local", "enroll-only"}) \/ Given("help")
  /\ command = "tunnel" =>
       /\ ~AnyOf(Hostname \cup {"hostname-request-timeout-ms"})
       /\ ~AnyOf(ProbeOptions \cup {"verify-public-reachability"})
       /\ path \notin {"explicit", "empty"}
ValidateLineAccepted == DOMAIN flags = {}

LineAccepted ==
  /\ \A f \in DOMAIN flags : flags[f] # "bad"
  /\ CASE command = "start" -> StartLineAccepted
       [] command = "validate" -> ValidateLineAccepted
       [] OTHER -> RunLineAccepted

-----------------------------------------------------------------------------
(* select_config_path_from and platform_default_config_path: "explicit"    *)
(* and "empty" are --config with and without a name, "environment" is      *)
(* TUNNELPROXY_CONFIG, "none" a host without a configuration directory.    *)
Paths == {"explicit", "empty", "environment", "default", "none"}
PathSelected == path \in {"explicit", "environment", "default"}

(* http_configuration_complete: what lets http run without a file.         *)
HttpConfigurationComplete == \A f \in Identity \cup Hostname : Given(f)

FileOptional == /\ command = "http"
                /\ HttpConfigurationComplete
                /\ ~PathSelected \/ (path = "default" /\ disk.open = "missing")

(* load_agent_config and parse_agent_config, with the version each command *)
(* takes.                                                                  *)
Parses(doc) == doc.open = "ok" /\ doc.schema = "ok" /\ doc.version \in {"v1", "v2"}
VersionFits(doc) == CASE command = "http" -> doc.version = "v1"
                      [] command = "start" -> doc.version = "v2"
                      [] OTHER -> TRUE

(* validate_tunnel_reload_config.                                          *)
ReloadSectionAccepted(doc) == doc.reload \in {"ok", "other"}

(* parse_managed_tunnels.                                                  *)
TunnelsAccepted(doc) == doc.version = "v1" \/ doc.tunnels = "ok"

(* apply_shared_agent_config: the file's own values are checked even where *)
(* a flag overrides them, and a disabled probe takes no options.           *)
SharedAccepted(doc) == /\ doc.values = "ok"
                       /\ doc.probe = "off" => doc.options = {}

-----------------------------------------------------------------------------
(* validate_http_configuration.                                            *)
ValidateHttp ==
  /\ AllOf(Identity)
  /\ AllOf(Hostname)
  /\ AnyOf(ProbeOptions) => VerifyPublicReachability
  /\ VerifyPublicReachability => InRange({"reachability-timeout-ms"})
  /\ InRange({"reachability-monitor-interval-ms", "reachability-failure-threshold"})
  /\ Has("reachability-failure-threshold") => Has("reachability-monitor-interval-ms")

(* load_transport_security.                                                *)
PlaintextLoopback == ~AnyOf(Identity) /\ ~AnyOf(ReloadOptions)
LoadTransportSecurity ==
  \/ PlaintextLoopback
  \/ /\ AllOf(Identity)
     /\ AnyOf(ReloadOptions) => Has("tls-reload-manifest")
     /\ Has("tls-reload-manifest") => Positive(ReloadOptions)
     /\ Positive({"tls-handshake-timeout-ms"})
     /\ pems

(* load_enrollment_config, the outcome of --enroll-only, and the renewal   *)
(* runtime, which needs mutual TLS.                                        *)
EnrollmentPresent == AnyOf(EnrollmentNames \cup EnrollmentTimers \cup {"enroll-only"})
LoadEnrollment == EnrollmentPresent =>
                    /\ AllOf(EnrollmentNames \cup Identity \cup {"tls-reload-manifest"})
                    /\ Positive(EnrollmentTimers \cup {"tls-handshake-timeout-ms"})
                    /\ pems
RenewalAccepted == EnrollmentPresent => ~PlaintextLoopback

(* load_public_reachability_template and the probe it builds.              *)
LoadReachability == VerifyPublicReachability =>
                      /\ Has("reachability-ca") => pems
                      /\ InRange(ProbeOptions \ {"reachability-ca"})

(* load_http_hostname_client.                                              *)
LoadHostnameClient == pems /\ Positive({"connect-timeout-ms", "tls-handshake-timeout-ms",
                                        "hostname-request-timeout-ms"})

(* AgentRuntimeConfig::validate, with ReconnectConfig::validate.           *)
RuntimeAccepted == /\ Positive(RuntimeNumbers)
                   /\ PlaintextLoopback => Value("edge") # "public"
                   /\ Value("reconnect-initial-ms") # "big"

(* AgentOperationsConfig::validate, and the listener being free.           *)
OperationsAccepted == Given("ops-listen") =>
                        /\ Value("ops-listen") # "public"
                        /\ InRange({"max-ops-connections"})
                        /\ Positive({"ops-request-timeout-ms"})

-----------------------------------------------------------------------------
(* What each command does once the file is layered in, in order.           *)
ValidateSteps == <<"http_config", "tls", "hostname", "reachability", "runtime", "valid">>
HttpSteps == <<"http_config", "enrollment", "tls", "renewal", "runtime", "operations",
               "reachability", "hostname", "running">>
StartSteps == <<"http_config", "enrollment", "tls", "renewal", "reachability", "hostname",
                "runtime", "operations", "running">>
TunnelSteps == <<"enrollment", "enroll_only", "tls", "renewal", "runtime", "operations",
                 "running">>
Steps == CASE command = "validate" -> ValidateSteps
           [] command = "http" -> HttpSteps
           [] command = "start" -> StartSteps
           [] OTHER -> TunnelSteps

Accepted(name) == CASE name = "http_config" -> ValidateHttp
                    [] name = "tls" -> LoadTransportSecurity
                    [] name = "hostname" -> LoadHostnameClient
                    [] name = "reachability" -> LoadReachability
                    [] name = "enrollment" -> LoadEnrollment
                    [] name = "renewal" -> RenewalAccepted
                    [] name = "runtime" -> RuntimeAccepted
                    [] name = "operations" -> OperationsAccepted

-----------------------------------------------------------------------------
Lines == {[f \in {} |-> "ok"],
          [f \in Identity \cup Hostname |-> "ok"],
          [f \in Identity \cup EnrollmentNames \cup {"tls-reload-manifest"} |-> "ok"]}

AgentConfigInit ==
  /\ command \in {"validate", "http", "start", "tunnel"}
  /\ flags \in Lines
  /\ command = "validate" => flags = [f \in {} |-> "ok"]
  /\ path \in Paths
  /\ disk \in {NoDocument, Sound("v1", "none"), Sound("v2", "none"), Sound("v2", "ok"),
               [Sound("v1", "none") EXCEPT !.probe = "off"],
               [Sound("v2", "ok") EXCEPT !.probe = "on", !.options = ProbeOptions]}
  /\ manifest = disk
  /\ pems \in IF path = "explicit" THEN BOOLEAN ELSE {TRUE}
  /\ changes = 0
  /\ read = NoRead
  /\ profile = NoProfile
  /\ at = <<"line">>
  /\ exit = "none"
  /\ validated = FALSE

Ends(exitCode) == at' = <<"exit">> /\ exit' = exitCode
Goes(steps) == at' = steps /\ UNCHANGED exit
Operator == <<command, flags, path, disk, manifest, pems, changes>>

(* The operator: another flag, a rewritten file, a published manifest, and *)
(* the command the file is for once config validate accepted it.  Changes  *)
(* the command can no longer see are left out.                             *)
BeforeLastRead == at[1] \in {"line", "select", "bootstrap", "reread"}

EditFlag == /\ at = <<"line">> /\ command # "validate" /\ changes < MaxChanges
            /\ \/ \E f \in AgentFlags : \E v \in FlagValues(f) : flags' = (f :> v) @@ flags
               \/ \E f \in DOMAIN flags : flags' = [g \in DOMAIN flags \ {f} |-> flags[g]]
            /\ changes' = changes + 1
            /\ validated' = FALSE
            /\ UNCHANGED <<command, path, disk, manifest, pems, read, profile, at, exit>>

RewriteFile == /\ BeforeLastRead /\ changes < MaxChanges
               /\ \E f \in DOMAIN DocumentValues : \E v \in DocumentValues[f] \ {disk[f]} :
                    disk' = [disk EXCEPT ![f] = v]
               /\ changes' = changes + 1
               /\ validated' = FALSE
               /\ UNCHANGED <<command, flags, path, manifest, pems, read, profile, at, exit>>

PublishManifest == /\ BeforeLastRead /\ manifest # disk
                   /\ manifest' = disk
                   /\ validated' = FALSE
                   /\ UNCHANGED <<command, flags, path, disk, pems, changes, read, profile,
                                  at, exit>>

RunValidated == /\ command = "validate" /\ at = <<"exit">> /\ exit = "0"
                /\ command' = IF disk.version = "v1" THEN "http" ELSE "start"
                /\ at' = <<"line">>
                /\ exit' = "none"
                /\ read' = NoRead
                /\ profile' = NoProfile
                /\ UNCHANGED <<flags, path, disk, manifest, pems, changes, validated>>

(* run(): parse the line, then find the file.                              *)
ParseLine == /\ at = <<"line">>
             /\ IF ~LineAccepted THEN Ends("2")
                ELSE IF Given("help") THEN Ends("0")
                ELSE IF command = "tunnel" THEN Goes(TunnelSteps)
                ELSE Goes(<<"select">>)
             /\ validated' = (command = "validate" \/ validated)
             /\ UNCHANGED <<Operator, read, profile>>

(* apply_optional_http_config, apply_required_multi_config and             *)
(* run_config_validate up to the first read of the file.                   *)
SelectAndLoad ==
  /\ at = <<"select">>
  /\ IF FileOptional THEN Goes(Steps) /\ UNCHANGED read
     ELSE IF PathSelected /\ Parses(disk) /\ VersionFits(disk)
          THEN Goes(<<"bootstrap">>) /\ read' = [NoRead EXCEPT !.discovered = disk]
          ELSE Ends("2") /\ UNCHANGED read
  /\ UNCHANGED <<Operator, profile, validated>>

(* bootstrap_multi_agent_config: without a reload section the document     *)
(* stands; with one the manifest is read, and then the file again.         *)
Uses(doc) == IF TunnelsAccepted(doc) /\ SharedAccepted(doc)
             THEN Goes(Steps) /\ profile' = [shared |-> doc, tunnels |-> doc]
             ELSE Ends("2") /\ UNCHANGED profile

Bootstrap ==
  /\ at = <<"bootstrap">>
  /\ LET found == read.discovered IN
       IF found.version = "v1" \/ found.reload = "none"
       THEN Uses(found) /\ UNCHANGED read
       ELSE /\ UNCHANGED profile
            /\ IF ReloadSectionAccepted(found)
               THEN Goes(<<"reread">>) /\ read' = [read EXCEPT !.listed = manifest]
               ELSE Ends("2") /\ UNCHANGED read
  /\ UNCHANGED <<Operator, validated>>

CandidateAccepted(doc) == /\ doc = read.listed
                          /\ Parses(doc)
                          /\ doc.version = "v2"
                          /\ doc.reload = read.discovered.reload

MutReread == /\ at = <<"reread">>
             /\ IF CandidateAccepted(disk) THEN Uses(read.discovered)
                ELSE Ends("2") /\ UNCHANGED profile
             /\ UNCHANGED <<Operator, read, validated>>

Reread == /\ at = <<"reread">>
          /\ IF CandidateAccepted(disk) THEN Uses(disk)
             ELSE Ends("2") /\ UNCHANGED profile
          /\ UNCHANGED <<Operator, read, validated>>

(* The checks that follow, one after the other.                            *)
Check == /\ Head(at) \notin {"line", "select", "bootstrap", "reread", "enroll_only",
                             "running", "valid", "exit"}
         /\ IF Accepted(Head(at)) THEN Goes(Tail(at)) ELSE Ends("2")
         /\ UNCHANGED <<Operator, read, profile, validated>>

(* --enroll-only runs the enrolment and exits; it needs the arguments.     *)
EnrollOnly == /\ Head(at) = "enroll_only"
              /\ \/ ~Given("enroll-only") /\ Goes(Tail(at))
                 \/ Given("enroll-only") /\ \E outcome \in {"0", "1"} : Ends(outcome)
              /\ UNCHANGED <<Operator, read, profile, validated>>

Valid == at = <<"valid">> /\ Ends("0") /\ UNCHANGED <<Operator, read, profile, validated>>

AgentConfigNext == \/ EditFlag
                   \/ RewriteFile
                   \/ PublishManifest
                   \/ RunValidated
                   \/ ParseLine
                   \/ SelectAndLoad
                   \/ Bootstrap
                   \/ Reread
                   \/ Check
                   \/ EnrollOnly
                   \/ Valid

-----------------------------------------------------------------------------
(* What config validate accepts, the command the file is for accepts too:  *)
(* run with the same flags over the same files it never exits with 2,      *)
(* although the two paths make their checks in different orders and in     *)
(* different functions (cli.rs:804-851 against 1088-1245 and 1397-1557).   *)
ValidateAgrees == (validated /\ command # "validate") => exit # "2"

(* A reloadable profile is one generation: shared settings and tunnels     *)
(* both come from the document the manifest listed, whatever was written   *)
(* between the first read of the file, the manifest and the second read    *)
(* (cli.rs:444-485).                                                       *)
OneGeneration ==
  (profile # NoProfile /\ read.listed # NoDocument) =>
    profile = [shared |-> read.listed, tunnels |-> read.listed]

(* However flags and file are combined, a running managed Agent uses       *)
(* mutual TLS and a complete hostname client, probes exactly when one of   *)
(* the two layers asks for it, and takes no probe option otherwise; an     *)
(* Agent without TLS only talks to this host; and one that enrols holds a  *)
(* manifest to publish to (cli.rs:576-748, 2592-2629, 3004-3069).          *)
RunningSound ==
  at = <<"running">> =>
    /\ Managed => AllOf(Identity \cup Hostname)
    /\ AnyOf(ProbeOptions) => VerifyPublicReachability /\ Managed
    /\ Has("reachability-failure-threshold") =>
         Value("reachability-monitor-interval-ms") = "ok"
    /\ PlaintextLoopback => ~Managed /\ Value("edge") # "public"
    /\ EnrollmentPresent => AllOf(Identity \cup {"tls-reload-manifest"})
    /\ command = "start" => profile # NoProfile /\ profile.tunnels.tunnels = "ok"

=============================================================================
