----------------------------- MODULE Enrollment -----------------------------
(***************************************************************************)
(* Enrollment and renewal of one Agent credential: the Agent's token file, *)
(* journal and credential bundle, the exchanges with the enrollment        *)
(* service, and the rows and grants the Control Plane keeps in SQLite.     *)
(* Either side may stop between any two steps, an answer may be lost, a    *)
(* request may be served long after the Agent gave up on it, activation    *)
(* deadlines pass, and an operator may revoke at any moment.               *)
(*                                                                         *)
(* Request r stands for its id, key, CSR, certificate and fingerprint;     *)
(* token r is the renewal token r introduces and Boot the bootstrap token. *)
(***************************************************************************)
EXTENDS Naturals

CONSTANTS
  MaxRequests,      \* bound on the requests the Agent ever creates
  EnrollmentFaults  \* bound on the crashes of either side and the answers not awaited

Reqs == 1..MaxRequests
Nothing == 0
Boot == 0
Missing == MaxRequests + 1   \* a file that is not there

VARIABLES
  \* The Agent.
  proc,      \* "down", or what it was started for: "run" or "once"
  pc,        \* where rotate stands
  token,     \* the token file
  journal,   \* the pending request, Nothing without one
  files,     \* CA, certificate and key on disk; Missing when they are mixed
  manifest,  \* the request whose digests the manifest lists
  loaded,    \* the credential the running transport uses
  failed,    \* whether the last TLS reload failed
  created,   \* requests created so far
  \* Between them.
  msgs,      \* requests on their way; a dead one lost its reader
  reply,     \* the answer to the live one
  \* The Control Plane.
  srv,       \* the handler that holds the mutation gate, and its step
  row,       \* agent_credentials: the state of each request's credential
  auth, prev,  \* the token a row was issued for; the credential it replaces
  late,      \* rows whose activation deadline has passed
  boot,      \* the bootstrap token: "open", "consumed", "expired" unused or "revoked"
  grants,    \* the certificates of the durable snapshot
  served,    \* those of the snapshot the authority serves
  mishaps

agentVars == <<proc, pc, token, journal, files, manifest, loaded, failed, created>>
netVars == <<msgs, reply>>
cpVars == <<srv, row, auth, prev, late, boot, grants, served>>
enrollmentVars == <<agentVars, netVars, cpVars, mishaps>>

Message == [kind: {"enroll", "activate"}, req: Reqs, token: 0..MaxRequests, live: BOOLEAN]
NoAnswer == "none"
Idle == [at |-> "idle"]

TypeOK ==
  /\ proc \in {"down", "run", "once"}
  /\ pc \in {"idle", "begin", "issue", "publish", "commit", "reload", "activate",
             "swap", "clear"}
  /\ token \in 0..Missing /\ journal \in 0..MaxRequests /\ created \in 0..MaxRequests
  /\ files \in 0..Missing /\ manifest \in 0..MaxRequests /\ loaded \in 0..MaxRequests
  /\ failed \in BOOLEAN
  /\ msgs \subseteq Message
  /\ reply \in {NoAnswer, "issued", "activated", "expired", "rejected", "internal"}
  /\ srv = Idle \/ (srv.at \in {"preflighted", "durable"} /\ srv.msg \in Message)
  /\ row \in [Reqs -> {"none", "pending", "active", "retired", "revoked", "expired"}]
  /\ auth \in [Reqs -> 0..MaxRequests] /\ prev \in [Reqs -> 0..MaxRequests]
  /\ late \subseteq Reqs /\ boot \in {"open", "consumed", "expired", "revoked"}
  /\ grants \subseteq Reqs /\ served \subseteq Reqs /\ mishaps \in 0..EnrollmentFaults

-----------------------------------------------------------------------------
(* EnrollmentRepository: every operation is one SQLite transaction. *)

HoldsGrant == {"pending", "active"}

\* authenticate_token: Boot is good once and until it expires; a renewal token
\* is good while the credential that introduced it is Active.
Authentic(t) == IF t = Boot THEN boot = "open" ELSE t \in Reqs /\ row[t] = "active"

\* commit_issuance for a request without a row.
Insert(r, t) ==
  /\ row' = [row EXCEPT ![r] = "pending"]
  /\ auth' = [auth EXCEPT ![r] = t]
  /\ prev' = [prev EXCEPT ![r] = t]
  /\ grants' = grants \cup {r}
  /\ boot' = IF t = Boot THEN "consumed" ELSE boot

\* What an Enroll finds in the database: the stored answer of an exact retry
\* (verify_idempotent_fields, ensure_retryable_state), a refusal, or nothing.
Found(m) ==
  IF row[m.req] = "none"
  THEN IF Authentic(m.token) THEN "new" ELSE "rejected"
  ELSE IF auth[m.req] # m.token
  THEN "rejected"
  ELSE CASE row[m.req] \in HoldsGrant -> "issued"
         [] row[m.req] = "expired" -> "expired"
         [] OTHER -> "rejected"

\* activate: Pending becomes Active and its predecessor is retired.
ActivateRow(r) ==
  /\ row' = [q \in Reqs |-> IF q = r THEN "active"
                            ELSE IF prev[r] # Nothing /\ q = prev[r] THEN "retired" ELSE row[q]]
  /\ grants' = IF prev[r] # Nothing THEN grants \ {prev[r]} ELSE grants

\* What activate finds: an Active row is an exact retry.
ActivationFinds(r) ==
  CASE row[r] = "active" -> "activated"
    [] row[r] = "pending" -> IF r \in late THEN "expired" ELSE "activated"
    [] row[r] = "expired" -> "expired"
    [] OTHER -> "rejected"

\* The Pending rows reconcile_expired selects; all fit one batch.
Due == {r \in late : row[r] = "pending"}
\* expire_pending_credential, for one row or the batch.
ExpireRows(rs) ==
  /\ row' = [q \in Reqs |-> IF q \in rs THEN "expired" ELSE row[q]]
  /\ grants' = grants \ rs

-----------------------------------------------------------------------------
(* The enrollment service.  Handlers and the reconciler exclude each other *)
(* through the mutation gate; the operator's revocation does not take it.  *)

Accept(m) == srv = Idle /\ m \in msgs /\ msgs' = msgs \ {m}
\* Written to a connection that its reader gave up, an answer is lost.
Reply(m, a) == reply' = IF m.live THEN a ELSE reply

Preflight(m) ==
  /\ Accept(m) /\ m.kind = "enroll"
  /\ CASE Found(m) = "new" -> srv' = [at |-> "preflighted", msg |-> m] /\ UNCHANGED reply
       [] Found(m) = "issued" -> srv' = [at |-> "durable", msg |-> m] /\ UNCHANGED reply
       [] OTHER -> Reply(m, Found(m)) /\ UNCHANGED srv
  /\ UNCHANGED <<agentVars, row, auth, prev, late, boot, grants, served, mishaps>>

\* The commit authenticates again, inside its transaction.
MutCommitFinds(m) == "new"
CommitFinds(m) == Found(m)
Commit ==
  /\ srv # Idle /\ srv.at = "preflighted"
  /\ LET m == srv.msg IN
     IF CommitFinds(m) = "new"
     THEN /\ Insert(m.req, m.token)
          /\ srv' = [srv EXCEPT !.at = "durable"] /\ UNCHANGED reply
     ELSE /\ Reply(m, CommitFinds(m)) /\ srv' = Idle
          /\ UNCHANGED <<row, auth, prev, boot, grants>>
  /\ UNCHANGED <<agentVars, msgs, late, served, mishaps>>

\* The authority serves what was committed before the Agent hears of it.
Refreshed(g) == g

PublishSnapshot ==
  /\ srv # Idle /\ srv.at = "durable"
  /\ served' = Refreshed(grants)
  /\ Reply(srv.msg, IF srv.msg.kind = "enroll" THEN "issued" ELSE "activated")
  /\ srv' = Idle
  /\ UNCHANGED <<agentVars, msgs, row, auth, prev, late, boot, grants, mishaps>>

RefreshFails ==
  /\ srv # Idle /\ srv.at = "durable" /\ mishaps < EnrollmentFaults /\ mishaps' = mishaps + 1
  /\ Reply(srv.msg, "internal") /\ srv' = Idle
  /\ UNCHANGED <<agentVars, msgs, row, auth, prev, late, boot, grants, served>>

Activate(m) ==
  /\ Accept(m) /\ m.kind = "activate"
  /\ LET found == ActivationFinds(m.req) IN
     \/ /\ found = "activated" /\ srv' = [at |-> "durable", msg |-> m]
        /\ IF row[m.req] = "pending" THEN ActivateRow(m.req) ELSE UNCHANGED <<row, grants>>
        /\ UNCHANGED <<served, reply>>
     \/ /\ found = "expired" /\ ExpireRows({m.req}) /\ served' = grants'
        /\ Reply(m, found) /\ UNCHANGED srv
     \/ /\ found = "rejected" /\ Reply(m, found)
        /\ UNCHANGED <<srv, row, grants, served>>
  /\ UNCHANGED <<agentVars, auth, prev, late, boot, mishaps>>

Reconcile ==
  /\ srv = Idle
  /\ Due # {} /\ ExpireRows(Due) /\ served' = grants'
  /\ UNCHANGED <<agentVars, netVars, srv, auth, prev, late, boot, mishaps>>

DeadlinePasses(r) ==
  /\ row[r] = "pending" /\ r \notin late
  /\ late' = late \cup {r}
  /\ UNCHANGED <<agentVars, netVars, srv, row, auth, prev, boot, grants, served, mishaps>>

\* The expiry of the bootstrap token; once it is consumed nobody looks at it.
TokenExpires ==
  /\ boot = "open" /\ boot' = "expired"
  /\ UNCHANGED <<agentVars, netVars, srv, row, auth, prev, late, grants, served, mishaps>>

\* revoke_agent, run by the operator beside the service.
RevokeAgent ==
  /\ boot # "revoked"
  /\ boot' = "revoked"
  /\ row' = [r \in Reqs |-> IF row[r] \in HoldsGrant THEN "revoked" ELSE row[r]]
  /\ grants' = {}
  /\ UNCHANGED <<agentVars, netVars, srv, auth, prev, late, served, mishaps>>

\* The refresh loop of the Control Plane runtime.
Refresh == /\ served # grants /\ served' = grants
           /\ UNCHANGED <<agentVars, netVars, srv, row, auth, prev, late, boot, grants, mishaps>>

\* Connections end with the process; the authority starts from the database.
ServerCrash ==
  /\ mishaps < EnrollmentFaults /\ mishaps' = mishaps + 1
  /\ msgs' = {} /\ srv' = Idle /\ served' = grants
  /\ UNCHANGED <<agentVars, reply, row, auth, prev, late, boot, grants>>

-----------------------------------------------------------------------------
(* The Agent: rotate, one step per file or message. *)

Loadable == files = manifest /\ manifest # Nothing
Hangup == /\ msgs' = {[m EXCEPT !.live = FALSE] : m \in msgs}
          /\ srv' = IF srv = Idle THEN Idle ELSE [srv EXCEPT !.msg.live = FALSE]
dbVars == <<row, auth, prev, late, boot, grants, served>>
AgentAt(p) == proc # "down" /\ pc = p
Ends(p) == proc' = IF p = "run" THEN "run" ELSE "down"

\* `--enroll-only` rotates once; the runnable Agent needs a bundle it can load.
Start(mode) ==
  /\ proc = "down" /\ (mode = "run" => Loadable)
  /\ proc' = mode /\ pc' = "idle" /\ failed' = FALSE
  /\ loaded' = IF mode = "run" THEN manifest ELSE Nothing
  /\ UNCHANGED <<token, journal, files, manifest, created, netVars, cpVars, mishaps>>

\* rotate reads the token, then the journal, which it creates when there is
\* none: the certificate is expiring, or this is the first enrollment.
NewJournal == /\ created < MaxRequests /\ created' = created + 1
              /\ journal' = created + 1
Begin ==
  /\ AgentAt("idle") /\ token # Missing
  /\ IF journal = Nothing THEN NewJournal ELSE UNCHANGED <<journal, created>>
  /\ pc' = IF token = journal' THEN "clear" ELSE "begin"
  /\ UNCHANGED <<proc, token, files, manifest, loaded, failed, netVars, cpVars, mishaps>>

\* Without a token file rotate fails, which is terminal.
TokenUnreadable ==
  /\ AgentAt("idle") /\ token = Missing /\ proc' = "down"
  /\ UNCHANGED <<pc, token, journal, files, manifest, loaded, failed, created, netVars, cpVars, mishaps>>

Send(kind, t, next) ==
  /\ msgs' = msgs \cup {[kind |-> kind, req |-> journal, token |-> t, live |-> TRUE]}
  /\ reply' = NoAnswer /\ pc' = next
  /\ UNCHANGED <<proc, token, journal, files, loaded, failed, created, cpVars, mishaps>>
SendEnroll == AgentAt("begin") /\ Send("enroll", token, "issue") /\ UNCHANGED manifest

\* A timeout, a refused connection or Internal: rotate fails and is retried.
InService == msgs \cup (IF srv = Idle THEN {} ELSE {srv.msg})
ExchangeFails ==
  /\ AgentAt("issue") \/ AgentAt("activate")
  /\ reply \in {NoAnswer, "internal"}
  /\ IF \E m \in InService : m.live
     THEN mishaps < EnrollmentFaults /\ mishaps' = mishaps + 1 /\ Ends(proc)
     ELSE Ends(proc) /\ UNCHANGED mishaps
  /\ Hangup /\ pc' = "idle" /\ reply' = NoAnswer
  /\ UNCHANGED <<token, journal, files, manifest, loaded, failed, created, dbVars>>
\* A connection closed without an answer is UnexpectedResponse: terminal.
ConnectionClosed ==
  /\ AgentAt("issue") \/ AgentAt("activate")
  /\ reply = NoAnswer /\ ~\E m \in InService : m.live
  /\ proc' = "down" /\ pc' = "idle"
  /\ UNCHANGED <<token, journal, files, manifest, loaded, failed, created, netVars, cpVars, mishaps>>

\* RequestExpired replaces the journal; any other refusal is terminal.
MutReplaceJournal == UNCHANGED <<journal, created>>
ReplaceJournal == NewJournal
EnrollRefused ==
  /\ AgentAt("issue") \/ AgentAt("activate")
  /\ \/ /\ reply = "expired" /\ ReplaceJournal /\ Ends(proc)
     \/ /\ reply = "rejected" /\ proc' = "down" /\ UNCHANGED <<journal, created>>
  /\ pc' = "idle" /\ reply' = NoAnswer
  /\ UNCHANGED <<token, files, manifest, loaded, failed, msgs, cpVars, mishaps>>

Step(from, to) == /\ AgentAt(from) /\ pc' = to
                  /\ UNCHANGED <<proc, created, msgs, cpVars, mishaps>>

\* publish_agent_credential_bundle: the files one by one, the manifest last.
Issued == /\ reply = "issued" /\ reply' = NoAnswer /\ Step("issue", "publish")
          /\ files' = Missing /\ UNCHANGED <<token, journal, manifest, loaded, failed>>
FilesWritten == /\ Step("publish", "commit") /\ files' = journal
                /\ manifest' \in {manifest, Nothing}   \* replace_file removes before it renames
                /\ UNCHANGED <<token, journal, loaded, failed, reply>>
ManifestNext == IF proc = "run" THEN "reload" ELSE "activate"
ManifestWritten == /\ AgentAt("commit") /\ manifest' = journal
                   /\ IF ManifestNext = "reload"
                      THEN /\ Step("commit", "reload")
                           /\ UNCHANGED <<token, journal, files, loaded, failed, reply>>
                      ELSE Send("activate", journal, "activate")

\* The TLS reload runtime picks up a bundle whose digests match.
Load == IF Loadable THEN loaded' = manifest /\ failed' = FALSE
                    ELSE failed' = TRUE /\ UNCHANGED loaded
TlsReload == /\ proc = "run" /\ Load
             /\ UNCHANGED <<proc, pc, token, journal, files, manifest, created, netVars, cpVars, mishaps>>
ReloadSeen == /\ AgentAt("reload") /\ loaded = journal /\ ~failed
              /\ Send("activate", journal, "activate") /\ UNCHANGED manifest
ActivationTimeout == /\ AgentAt("reload") /\ (loaded # journal \/ failed) /\ pc' = "idle"
                     /\ UNCHANGED <<proc, token, journal, files, manifest, loaded, failed, created, netVars, cpVars, mishaps>>

\* write_token removes the file and renames the new one into place; only then
\* is the journal removed.
MutActivated == /\ reply = "activated" /\ reply' = NoAnswer /\ Step("activate", "clear")
                /\ UNCHANGED <<token, journal, files, manifest, loaded, failed>>
Activated == /\ reply = "activated" /\ reply' = NoAnswer /\ Step("activate", "swap")
             /\ token' = Missing /\ UNCHANGED <<journal, files, manifest, loaded, failed>>
TokenWritten == /\ Step("swap", "clear") /\ token' = journal
                /\ UNCHANGED <<journal, files, manifest, loaded, failed, reply>>
JournalRemoved ==
  /\ AgentAt("clear") /\ pc' = "idle" /\ journal' = Nothing /\ Ends(proc)
  /\ UNCHANGED <<token, files, manifest, loaded, failed, created, netVars, cpVars, mishaps>>

AgentCrash ==
  /\ proc # "down" /\ mishaps < EnrollmentFaults /\ mishaps' = mishaps + 1
  /\ proc' = "down" /\ pc' = "idle" /\ loaded' = Nothing /\ reply' = NoAnswer /\ Hangup
  /\ journal' \in IF reply = "expired" THEN {journal, Nothing} ELSE {journal}  \* mid replacement
  /\ UNCHANGED <<token, files, manifest, failed, created, dbVars>>

EnrollmentInit ==
  /\ proc = "down" /\ pc = "idle" /\ token = Boot /\ journal = Nothing
  /\ files = Nothing /\ manifest = Nothing /\ loaded = Nothing /\ failed = FALSE /\ created = 0
  /\ msgs = {} /\ reply = NoAnswer /\ srv = Idle
  /\ row = [r \in Reqs |-> "none"] /\ auth = [r \in Reqs |-> 0] /\ prev = [r \in Reqs |-> 0]
  /\ late = {} /\ boot = "open" /\ grants = {} /\ served = {} /\ mishaps = 0

ServerStep == (\E m \in msgs : Preflight(m) \/ Activate(m)) \/ Commit \/ PublishSnapshot
AgentStep == \/ Begin \/ SendEnroll \/ EnrollRefused \/ Issued \/ FilesWritten \/ ManifestWritten
             \/ ReloadSeen \/ Activated \/ TokenWritten \/ JournalRemoved
EnrollmentNext ==
  \/ ServerStep \/ Reconcile \/ TokenExpires \/ RevokeAgent \/ Refresh \/ ServerCrash
  \/ \E r \in Reqs : DeadlinePasses(r)
  \/ \E mode \in {"run", "once"} : Start(mode)
  \/ AgentStep \/ ExchangeFails \/ ConnectionClosed \/ TokenUnreadable \/ RefreshFails \/ TlsReload \/ ActivationTimeout \/ AgentCrash

\* Requests that arrive are served and the gate (a FIFO mutex) lets the
\* reconciler in; an Agent process takes its next step, and its TLS reload polls
\* within the activation timeout, which is the longer one.  Nobody has to start
\* the Agent again when it has ended.
EnrollmentFairness ==
  /\ WF_enrollmentVars(ServerStep) /\ SF_enrollmentVars(Reconcile)
  /\ WF_enrollmentVars(AgentStep /\ journal # Nothing) /\ WF_enrollmentVars(ExchangeFails)
  /\ WF_enrollmentVars(ActivationTimeout) /\ SF_enrollmentVars(TlsReload /\ pc = "reload")
EnrollmentSpec == EnrollmentInit /\ [][EnrollmentNext]_enrollmentVars /\ EnrollmentFairness

-----------------------------------------------------------------------------
\* Every certificate the durable snapshot authorizes belongs to a Pending or
\* Active credential, and every such credential is authorized: issuance,
\* activation, expiry and revocation change rows and grants together
\* (enrollment_repository.rs, replace_snapshot in each transaction).
GrantsMatchRows == grants = {r \in Reqs : row[r] \in HoldsGrant}

\* A rotation never leaves the Agent without a credential nor with two: once a
\* predecessor is retired exactly one credential is Active, until the Agent is
\* revoked, whatever was retried, lost or served late (activate).
OneCredentialSurvives ==
  LET actives == {r \in Reqs : row[r] = "active"} IN
  /\ \A q, r \in actives : q = r
  /\ boot # "revoked" /\ (\E r \in Reqs : row[r] = "retired") => actives # {}

\* Nothing is authorized for an Agent after its revocation, although the
\* operator's transaction may fall between preflight and commit of an issuance
\* (revoke_agent, authenticate_token in commit_issuance).
RevocationFinal == boot = "revoked" => grants = {}

\* Rows and grants of an Agent's credentials change together, a rotation leaves
\* exactly one, and a revocation leaves none (commit_issuance, activate,
\* revoke_agent).
CredentialsConsistent == GrantsMatchRows /\ OneCredentialSurvives /\ RevocationFinal

\* A credential the Agent may load and that is still good in the database is
\* already in the snapshot the authority serves: the service refreshes the
\* authority before it answers Issued (serve_connection).
AuthorizedBeforeUse ==
  manifest # Nothing /\ row[manifest] \in HoldsGrant => manifest \in served

\* The bootstrap token expired unused, or was spent on a credential that was
\* never activated: the Agent needs a new one.
BootstrapLost == boot = "expired" \/ \E r \in Reqs : row[r] = "expired" /\ auth[r] = Boot

\* After a crash of either side the disk of the Agent still holds what finishes
\* the rotation, as long as its bootstrap token is not lost: the service accepts
\* what token and journal present next, the expiry of a bootstrap token it has
\* taken included.  A crash in the middle of write_token leaves no token file and
\* rotate then fails, but the journal holds the token of the Active credential
\* (rotate, load_or_create_pending, write_token).
Recoverable ==
  boot # "revoked" /\ ~BootstrapLost =>
    IF token = Missing THEN journal # Nothing /\ row[journal] = "active"
    ELSE \/ Authentic(token) /\ (journal = Nothing \/ row[journal] \in {"none", "expired", "pending"})
         \/ journal # Nothing /\ row[journal] \in HoldsGrant /\ token \in {auth[journal], journal}

\* Crashes and late answers lose no credential that was activated: what the Agent
\* may load is authorized by the snapshot served, and its disk holds what the
\* service accepts next (serve_connection, load_or_create_pending, write_token).
RotationRecoverable == AuthorizedBeforeUse /\ Recoverable

\* A rotation that was begun ends with the removal of the journal, although the
\* Agent may crash and be started again, unless it stays down for good, is
\* revoked, its bootstrap token is lost, its token file was lost in the middle of
\* its replacement, or the bound on requests is used up.
RotationSettles ==
  journal # Nothing ~> \/ journal = Nothing \/ boot = "revoked" \/ BootstrapLost \/ token = Missing
                    \/ row[MaxRequests] = "expired" \/ [](proc = "down")
=============================================================================
