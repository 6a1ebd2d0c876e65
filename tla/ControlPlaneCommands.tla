------------------------- MODULE ControlPlaneCommands -------------------------
(***************************************************************************)
(* The commands of the Control Plane binary: what each one demands of its  *)
(* line, in which order it loads, opens, writes and binds, and the exit    *)
(* code it ends with (control-plane/src/bin/tunnelproxy-control-plane.rs,  *)
(* control-plane/src/runtime.rs).  Values are those of EdgeConfig.         *)
(* Every file, the database and every listener may fail at its step, the   *)
(* process may be killed between any two, and the operator may then run a  *)
(* command that writes files again, over what the earlier runs left.  The  *)
(* content of a file is the set of the attempts whose material it holds.   *)
(***************************************************************************)
EXTENDS Naturals, Sequences, FiniteSets, TLC

CONSTANTS MaxEdits,   \* how many flags the operator changes
          MaxAttempts \* the last attempt at a command; attempt 1 is long over

VARIABLES
  command,  \* the subcommand
  line,     \* its flags, with their values
  edits,    \* changes made so far
  at,       \* what it still has to do
  attempt,  \* the number of this run of the command
  disk,     \* the content of its output files, {} for a file that is not there
  temporary, \* the content of replace_file's temporary file
  rows,     \* the attempts that committed to the database
  before,   \* history: the public ring as this attempt found it
  bound,    \* the services whose listener is bound
  code      \* the exit code, "none", "panic" or "killed"

output == <<attempt, disk, temporary, rows, before>>
commandVars == <<command, line, edits, at, output, bound, code>>

-----------------------------------------------------------------------------
(* parse_serve's flags, by the service they configure.                     *)
ServeRequired == {"database", "tls-cert", "tls-key", "edge-client-ca"}
RouteFlags == {"https-route-listen", "https-route-tls-reload-manifest"}
HostnameRequired == {"hostname-listen", "hostname-base-domain", "hostname-agent-ca"}
HostnamePair == {"hostname-tls-cert", "hostname-tls-key"}
HostnameFlags == HostnameRequired \cup HostnamePair \cup
                 {"hostname-tls-reload-manifest", "max-hostname-clients",
                  "hostname-request-timeout-ms"}
EnrollmentRequired == {"enrollment-listen", "issuer-cert", "issuer-key",
                       "agent-server-ca"}
EnrollmentFlags == EnrollmentRequired \cup
                   {"agent-cert-validity-ms", "max-enrollment-clients",
                    "enrollment-request-timeout-ms", "enrollment-activation-grace-ms",
                    "enrollment-reconcile-interval-ms"}
OperationsFlags == {"ops-listen", "max-ops-connections", "ops-header-timeout-ms",
                    "ops-request-timeout-ms"}
ReloadManifests == {"tls-reload-manifest", "https-route-tls-reload-manifest",
                    "hostname-tls-reload-manifest"}
ReloadTuning == {"tls-reload-interval-ms", "tls-expiry-warning-ms"}
ServeFlags == ServeRequired \cup RouteFlags \cup HostnameFlags \cup EnrollmentFlags
              \cup OperationsFlags \cup ReloadManifests \cup ReloadTuning
              \cup {"listen", "max-edge-clients", "tls-handshake-timeout-ms",
                    "request-timeout-ms", "refresh-interval-ms"}

(* The other parsers: what each one requires.                              *)
ImportRequired == {"database", "snapshot"}
CreateTokenRequired == {"database", "agent-id", "tunnel-id", "output"}
CredentialTarget == {"database", "agent-id", "tunnel-id"}
RouteUpsertRequired == {"database", "hostname", "tunnel-id", "status"}
RouteRemoveRequired == {"database", "hostname"}
RouteListRequired == {"database"}
HostnameAllocateRequired == {"database", "base-domain", "tunnel-id"}
HostnameReleaseRequired == {"database", "tunnel-id"}
KeygenRequired == {"key-id", "private-key-output", "public-keyring-output"}
KeyRingPublishRequired == {"source-keyring", "keyring-output", "reload-manifest-output",
                           "generation"}
SignRequired == {"private-key", "url", "ttl-seconds"}

Required(c) ==
  CASE c = "serve" -> ServeRequired
    [] c = "import" -> ImportRequired
    [] c = "create-token" -> CreateTokenRequired
    [] c \in {"revoke-agent", "credential-status"} -> CredentialTarget
    [] c = "https-route-upsert" -> RouteUpsertRequired
    [] c = "https-route-remove" -> RouteRemoveRequired
    [] c = "https-route-list" -> RouteListRequired
    [] c = "https-hostname-allocate" -> HostnameAllocateRequired
    [] c = "https-hostname-release" -> HostnameReleaseRequired
    [] c = "signed-access-keygen" -> KeygenRequired
    [] c = "signed-access-keyring-publish" -> KeyRingPublishRequired
    [] c = "sign-access-url" -> SignRequired

Queries == {"credential-status", "https-route-list", "sign-access-url"}
Mutations == {"revoke-agent", "https-route-upsert", "https-route-remove",
              "https-hostname-allocate", "https-hostname-release"}
Commands == Queries \cup Mutations \cup
            {"serve", "import", "create-token", "signed-access-keygen",
             "signed-access-keyring-publish"}
FlagsOf(c) == CASE c = "serve" -> ServeFlags
                [] c = "create-token" -> Required(c) \cup {"ttl-ms"}
                [] c = "signed-access-keygen" -> Required(c) \cup {"existing-public-keyring"}
                [] OTHER -> Required(c)

(* "zero" and "bad" are values their parsers reject.                       *)
ValuesOf(f) == CASE f = "ops-listen" -> {"ok", "public"}
                 [] f = "existing-public-keyring" -> {"ok", "same", "bad"}
                 [] f \in {"max-ops-connections", "agent-cert-validity-ms",
                           "enrollment-activation-grace-ms"} -> {"ok", "big", "bad"}
                 [] OTHER -> {"ok", "bad"}

Given(f) == f \in DOMAIN line
Value(f) == IF Given(f) THEN line[f] ELSE "ok"
AnyOf(group) == \E f \in group : Given(f)
AllOf(group) == \A f \in group : Given(f)

(* The relations parse_serve checks after the flags.                       *)
ServeAccepted ==
  /\ AnyOf(ReloadTuning) => AnyOf(ReloadManifests)
  /\ Given("https-route-tls-reload-manifest") => Given("https-route-listen")
  /\ AnyOf(HostnameFlags) => Given("https-route-listen")
  /\ AnyOf(HostnamePair) => AllOf(HostnamePair)
  /\ AnyOf(EnrollmentFlags) => AllOf(EnrollmentRequired)
  /\ AnyOf(OperationsFlags) => Given("ops-listen")
  /\ AnyOf(HostnameFlags) => AllOf(HostnameRequired)

ParseAccepted == /\ \A f \in DOMAIN line : line[f] # "bad"
                 /\ AllOf(Required(command))
                 /\ command = "serve" => ServeAccepted

-----------------------------------------------------------------------------
(* run_server: the loaders, then ControlPlaneRuntime::bind_inner, with the *)
(* parts that were not asked for left out.  A step is what it does, the    *)
(* exit code its failure gives, and the output file it is about.           *)
FileStep(name, file) == [name |-> name, failure |-> "1", file |-> file]
Step(name, failure) == [name |-> name, failure |-> failure, file |-> "none"]
OnlyIf(given, steps) == IF given THEN steps ELSE <<>>

LoadServerTls == <<Step("load_tls", "2")>>
LoadRouteServer == OnlyIf(Given("https-route-listen"), <<Step("load_routes", "2")>>)
LoadEnrollmentServer == OnlyIf(AnyOf(EnrollmentFlags), <<Step("load_enrollment", "2")>>)
LoadHostnameServer == OnlyIf(AnyOf(HostnameFlags), <<Step("load_hostname", "2")>>)
LoadSteps == LoadServerTls \o LoadRouteServer \o LoadEnrollmentServer \o LoadHostnameServer

BindSteps == <<Step("validate", "2"), Step("open_database", "1"),
               Step("open_snapshot", "2"), Step("bind_snapshot", "1")>>
  \o OnlyIf(Given("https-route-listen"), <<Step("bind_routes", "1")>>)
  \o OnlyIf(AnyOf(EnrollmentFlags), <<Step("bind_enrollment", "1")>>)
  \o OnlyIf(AnyOf(HostnameFlags), <<Step("bind_hostname", "1")>>)
  \o OnlyIf(AnyOf(OperationsFlags), <<Step("bind_operations", "1")>>)

(* replace_file: the temporary file is written and synchronized, the old   *)
(* file removed, the temporary one renamed.                                *)
Replace(file) == <<FileStep("write", file), FileStep("remove", file), FileStep("rename", file)>>

(* The one-shot commands.  A commit either happens or rolls back; a token  *)
(* is stored before it is handed out; the key commands first refuse paths  *)
(* that would overwrite each other, then replace two files, the one        *)
(* readers follow last.                                                    *)
ImportSteps == <<Step("read_manifest", "2"), Step("open_database", "1"),
                 Step("refuse_version", "2"), Step("commit", "1")>>
MutKeygenSteps == <<Step("paths", "1"), Step("read_ring", "1"), Step("generate", "1")>>
                  \o Replace("key") \o Replace("ring")
KeygenSteps == <<Step("paths", "1"), Step("read_ring", "1"), Step("generate", "1")>>
               \o Replace("ring") \o Replace("key")
PublishSteps == <<Step("paths", "1"), Step("read_source", "1")>>
                \o Replace("ring") \o Replace("manifest")
TokenSteps == <<Step("open_database", "1"), Step("commit", "1")>> \o Replace("token")
RevokeSteps == <<Step("open_database", "1"), Step("commit", "1")>>
StatusSteps == <<Step("open_database", "1"), Step("query", "1")>>
RouteMutationSteps == <<Step("open_database", "1"), Step("commit", "1")>>
RouteListSteps == <<Step("open_database", "1"), Step("query", "1")>>
HostnameMutationSteps == <<Step("open_database", "1"), Step("commit", "1")>>
SignSteps == <<Step("read_key", "1"), Step("sign", "1")>>

StepsOf(c) == CASE c = "serve" -> LoadSteps \o BindSteps
                [] c = "import" -> ImportSteps
                [] c = "signed-access-keygen" -> KeygenSteps
                [] c = "signed-access-keyring-publish" -> PublishSteps
                [] c = "create-token" -> TokenSteps
                [] c = "sign-access-url" -> SignSteps
                [] c = "revoke-agent" -> RevokeSteps
                [] c = "credential-status" -> StatusSteps
                [] c \in {"https-route-upsert", "https-route-remove"} -> RouteMutationSteps
                [] c = "https-route-list" -> RouteListSteps
                [] OTHER -> HostnameMutationSteps

-----------------------------------------------------------------------------
ServeLines == {ServeRequired,
               ServeRequired \cup RouteFlags \cup HostnameRequired \cup
                 EnrollmentRequired \cup {"ops-listen", "tls-reload-manifest"}}

Outputs == {"ring", "key", "manifest", "token"}

CommandsInit == /\ command \in Commands
                /\ \E given \in IF command = "serve" THEN ServeLines
                                ELSE {Required(command)} :
                     line = [f \in given |-> "ok"]
                /\ edits = 0
                /\ at = <<Step("line", "2")>>
                /\ attempt = 2
                /\ \E earlier \in {{}, {1}} :
                     /\ disk = [f \in Outputs |-> earlier]
                     /\ rows = earlier
                     /\ before = earlier
                /\ temporary = {}
                /\ bound = {}
                /\ code = "none"

Edit == /\ at # <<>> /\ Head(at).name = "line"
        /\ edits < MaxEdits
        /\ \/ \E f \in FlagsOf(command) : \E v \in ValuesOf(f) : line' = (f :> v) @@ line
           \/ \E f \in DOMAIN line : line' = [g \in DOMAIN line \ {f} |-> line[g]]
        /\ edits' = edits + 1
        /\ UNCHANGED <<command, at, output, bound, code>>

Exit(c) == at' = <<>> /\ code' = c

ParseArgs == /\ at # <<>> /\ Head(at).name = "line"
             /\ IF ParseAccepted THEN at' = StepsOf(command) /\ UNCHANGED code ELSE Exit("2")
             /\ UNCHANGED <<command, line, edits, output, bound>>

(* What ControlPlaneRuntimeConfig::validate and EnrollmentServerConfig::   *)
(* validate refuse, AgentCertificateIssuer::from_pem, and                  *)
(* read_bounded_key_file for a ring that is not there.                     *)
Refuses(name) ==
  \/ name = "validate" /\ (Value("ops-listen") = "public"
                           \/ Value("max-ops-connections") = "big")
  \/ name = "load_enrollment" /\ Value("agent-cert-validity-ms") = "big"
  \/ name = "bind_enrollment" /\ Value("enrollment-activation-grace-ms") = "big"
  \/ name = "read_ring" /\ Value("existing-public-keyring") = "same" /\ disk["ring"] = {}

Panics(name) == name = "bind_hostname" /\ "routes" \notin bound

(* What replace_file is given: signed-access-keygen adds its key to the    *)
(* ring it was told to extend, a file of its own (with key 0) or the one   *)
(* it replaces.  A key id the ring already has is a failure of "generate". *)
Content(file) ==
  {attempt} \cup
    IF command = "signed-access-keygen" /\ file = "ring" /\ Given("existing-public-keyring")
    THEN IF Value("existing-public-keyring") = "same" THEN before ELSE {0}
    ELSE {}

Effect(step) ==
  /\ temporary' = CASE step.name = "write" -> Content(step.file)
                    [] step.name = "rename" -> {}
                    [] OTHER -> temporary
  /\ disk' = CASE step.name = "remove" -> [disk EXCEPT ![step.file] = {}]
               [] step.name = "rename" -> [disk EXCEPT ![step.file] = temporary]
               [] OTHER -> disk
  /\ rows' = IF step.name = "commit" THEN rows \cup {attempt} ELSE rows
  /\ UNCHANGED <<attempt, before>>

Listener(name) == CASE name = "bind_snapshot" -> {"snapshot"}
                    [] name = "bind_routes" -> {"routes"}
                    [] name = "bind_enrollment" -> {"enrollment"}
                    [] name = "bind_hostname" -> {"hostname"}
                    [] name = "bind_operations" -> {"operations"}
                    [] OTHER -> {}

Perform == /\ at # <<>> /\ Head(at).name # "line"
           /\ LET name == Head(at).name IN
                /\ ~Refuses(name)
                /\ IF Panics(name)
                   THEN Exit("panic") /\ UNCHANGED <<output, bound>>
                   ELSE /\ Effect(Head(at))
                        /\ bound' = bound \cup Listener(name)
                        /\ at' = Tail(at)
                        /\ code' = IF Tail(at) = <<>> /\ command # "serve" THEN "0" ELSE code
           /\ UNCHANGED <<command, line, edits>>

(* The step fails: what it opened or bound is dropped with the command,    *)
(* and replace_file removes its temporary file.                            *)
Fail == /\ at # <<>> /\ Head(at).name # "line"
        /\ Exit(Head(at).failure)
        /\ bound' = {} /\ temporary' = {}
        /\ UNCHANGED <<command, line, edits, attempt, disk, rows, before>>

Killed == /\ at # <<>> /\ Head(at).name # "line"
          /\ Exit("killed")
          /\ bound' = {}
          /\ UNCHANGED <<command, line, edits, output>>

(* The operator runs a command that writes files once more.  The temporary *)
(* file has a new name each time.                                          *)
Publishers == {"create-token", "signed-access-keygen", "signed-access-keyring-publish"}
RunAgain == /\ at = <<>> /\ command \in Publishers /\ attempt < MaxAttempts
            /\ at' = <<Step("line", "2")>> /\ code' = "none"
            /\ attempt' = attempt + 1 /\ before' = disk["ring"] /\ temporary' = {}
            /\ UNCHANGED <<command, line, edits, disk, rows, bound>>

CommandsNext == \/ Edit
                \/ ParseArgs
                \/ Perform
                \/ Fail
                \/ Killed
                \/ RunAgain

-----------------------------------------------------------------------------
(* A Control Plane that serves runs every service one of its flags belongs *)
(* to and no other, the hostname service always beside the route service   *)
(* whose catalogue it writes (the expect at runtime.rs:152 never fires),   *)
(* and keeps its operations listener on this host.                         *)
ServesAsTold ==
  /\ code # "panic"
  /\ (command = "serve" /\ at = <<>> /\ code = "none") =>
       /\ bound = {"snapshot"}
                  \cup (IF AnyOf(RouteFlags) THEN {"routes"} ELSE {})
                  \cup (IF AnyOf(EnrollmentFlags) THEN {"enrollment"} ELSE {})
                  \cup (IF AnyOf(HostnameFlags) THEN {"hostname"} ELSE {})
                  \cup (IF AnyOf(OperationsFlags) THEN {"operations"} ELSE {})
       /\ "hostname" \in bound => "routes" \in bound
       /\ AnyOf(ReloadTuning) => AnyOf(ReloadManifests)
       /\ Value("ops-listen") # "public"

(* A file is never ahead of the one that is replaced before it: with what  *)
(* an attempt wrote into it that attempt's other file is in place, and     *)
(* only a later attempt has removed or replaced that one.                  *)
NeverAhead(file, first) ==
  \A n \in disk[file] : IF disk[first] = {} THEN n < attempt ELSE \E m \in disk[first] : n <= m

(* However often a command that writes files fails or is killed and is run *)
(* again: no private key is on disk before its public key was in the ring, *)
(* and no manifest before the ring it names (the comment at bin:1014); a   *)
(* ring extended in place is gone or still holds the keys it had; a token  *)
(* file holds a token that was stored.  A run that succeeds leaves files   *)
(* that belong together, whatever it found, and one that exits 2 wrote     *)
(* nothing (bin lines 955-1022, enrollment_repository.rs:600-622).         *)
CommandsLeaveSound ==
  /\ command = "signed-access-keygen" =>
       /\ NeverAhead("key", "ring")
       /\ Value("existing-public-keyring") = "same" /\ disk["ring"] # {} => before \subseteq disk["ring"]
  /\ command = "signed-access-keyring-publish" => NeverAhead("manifest", "ring")
  /\ disk["token"] \subseteq rows
  /\ code = "2" => attempt \notin rows \cup UNION {disk[f] : f \in Outputs} /\ bound = {}
  /\ code = "0" =>
       /\ command \in Mutations \cup {"import", "create-token"} => attempt \in rows
       /\ command = "create-token" => disk["token"] = {attempt}
       /\ command = "signed-access-keygen" => disk["key"] = {attempt} /\ attempt \in disk["ring"]
       /\ command = "signed-access-keyring-publish" => disk["manifest"] = disk["ring"] /\ attempt \in disk["ring"]
=============================================================================
