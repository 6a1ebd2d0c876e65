---------------------------- MODULE Distribution ----------------------------
(***************************************************************************)
(* How authority reaches the Edge.  The Control Plane keeps two versioned  *)
(* documents in SQLite, the authorization snapshot and the HTTPS route     *)
(* catalog.  Commands and services commit to the database; the daemon      *)
(* reloads on a timer and publishes on a latest-value channel; one task    *)
(* per connected Edge pushes what is published; the Edge caches snapshots  *)
(* on disk, publishes to its own tasks, reconnects, and gives up when it   *)
(* could not confirm its document for too long.                            *)
(*                                                                         *)
(* The two documents travel by separate connections through code of the    *)
(* same shape, and share only the two processes.  A behaviour follows one  *)
(* of them (kind), with the differences of the code: only snapshots carry  *)
(* a digest and are cached, an expired snapshot stops the Edge while an    *)
(* expired catalog only stops routing, and only catalogs have a service    *)
(* that changes them on request of an Agent.  What the other document does *)
(* to the processes is a crash.  A snapshot is abstracted to the set of    *)
(* tunnels it grants, a catalog to its hostname-to-tunnel map and the      *)
(* table of managed hostnames.                                             *)
(***************************************************************************)
EXTENDS Naturals, FiniteSets, FiniteSetsExt, Sequences

CONSTANTS Hosts,          \* public hostnames
          Tunnels,        \* tunnel identities
          None,           \* no value
          MaxCommits,     \* bound: writes to the database
          MaxFaults,      \* bound: crashes, lost connections and timeouts
          MaxEdgeClients, \* max_edge_clients of the server's configuration
          MaxWire         \* bound: messages buffered by one connection

ASSUME BoundsAssumption == {MaxCommits, MaxFaults, MaxEdgeClients, MaxWire} \subseteq Nat

VARIABLES
  kind,      \* the document: "snapshot" or "route"
  db,        \* SQLite: the version and the rows
  committed, \* history: every (version, document) ever committed
  cp,        \* Control Plane process: "down", "start" or "up"
  pub,       \* what its publisher holds
  touched,   \* something was published since the server was bound
  loading,   \* the load that holds the refresh gate
  task,      \* the serve_edge task of the Edge's connection
  dead,      \* snapshot tasks whose Edge is gone and that hold a permit
  wire,      \* messages under way to the Edge
  edge,      \* Edge process: "down", "boot" or "up"
  link,      \* what its client is doing
  hand,      \* the snapshot being stored
  app,       \* what the Edge's publisher holds
  health,    \* "Live", "Stale" or "Expired"
  gens,      \* cache generations on the Edge's disk
  old,       \* authenticated_at is older than the maximum stale age
  high,      \* history: highest snapshot version the Edge ever applied
  ask,       \* hostname request at the Control Plane
  answer,    \* its last answer
  commits, faults

NoDocument == [v |-> 0, doc |-> None]
NoLoad == [by |-> "none", at |-> "none", v |-> 0, digest |-> None, committed |-> 0]
NoTask == [st |-> "none", asked |-> 0, dirty |-> FALSE]

store == <<db, committed, commits>>
daemon == <<cp, pub, touched, loading>>
net == <<task, wire, dead>>
client == <<edge, link, hand, app, health, gens, old, high>>
names == <<ask, answer>>
vars == <<kind, store, daemon, net, client, names, faults>>

\* What is published of the rows: the managed_https_hostnames table stays in
\* the database.
Document(rows) == IF kind = "route" THEN rows.routes ELSE rows

Init ==
  /\ kind \in {"snapshot", "route"}
  /\ db = [v |-> 1, rows |-> IF kind = "route"
                             THEN [routes |-> [h \in Hosts |-> None],
                                   managed |-> [t \in Tunnels |-> None]]
                             ELSE Tunnels]
  /\ committed = {[v |-> 1, doc |-> Document(db.rows)]}
  /\ cp = "down" /\ pub = NoDocument /\ touched = FALSE /\ loading = NoLoad
  /\ task = NoTask /\ wire = <<>> /\ dead = 0
  /\ edge = "down" /\ link = "none" /\ hand = None /\ app = NoDocument
  /\ health = "Stale" /\ gens = {} /\ old = FALSE /\ high = 0
  /\ ask = None /\ answer = None
  /\ commits = 0 /\ faults = 0

-----------------------------------------------------------------------------
(* The database: one immediate transaction per write *)

\* The transaction writes the rows and the head together.
Write(v, rows) ==
  /\ commits < MaxCommits
  /\ commits' = commits + 1
  /\ db' = [v |-> v, rows |-> rows]
  /\ committed' = committed \cup {[v |-> v, doc |-> Document(rows)]}

Routes == db.rows.routes
Managed == db.rows.managed
IsManaged(h) == \E t \in Tunnels : Managed[t] = h

\* import, revoke-agent and the transactions of enrollment: a higher version
\* with any content.  A lower version, or an equal one with other content, is
\* refused; equal content changes nothing.
CommitSnapshot ==
  /\ kind = "snapshot"
  /\ \E rows \in SUBSET Tunnels : Write(db.v + 1, rows)
  /\ UNCHANGED <<kind, daemon, net, client, names, faults>>

\* A managed hostname is refused, an equal record is Unchanged.
Upserts(h, t) == ~IsManaged(h) /\ Routes[h] # t

Upsert(h, t) ==
  /\ kind = "route" /\ Upserts(h, t)
  /\ Write(db.v + 1, [db.rows EXCEPT !.routes[h] = t])
  /\ UNCHANGED <<kind, daemon, net, client, names, faults>>

Removes(h) == ~IsManaged(h) /\ Routes[h] # None

Remove(h) ==
  /\ kind = "route" /\ Removes(h)
  /\ Write(db.v + 1, [db.rows EXCEPT !.routes[h] = None])
  /\ UNCHANGED <<kind, daemon, net, client, names, faults>>

\* An unused random hostname; a tunnel that has one keeps it.
AllocateManaged(t, h) ==
  /\ Managed[t] = None /\ Routes[h] = None
  /\ Write(db.v + 1, [routes |-> [Routes EXCEPT ![h] = t], managed |-> [Managed EXCEPT ![t] = h]])

ReleaseManaged(t) ==
  /\ Managed[t] # None
  /\ Write(db.v + 1, [routes |-> [Routes EXCEPT ![Managed[t]] = None],
                      managed |-> [Managed EXCEPT ![t] = None]])

\* https-hostname-allocate and https-hostname-release run in a process of
\* their own, without the gate of the daemon.
OperatorHostname(t) ==
  /\ kind = "route"
  /\ (\E h \in Hosts : AllocateManaged(t, h)) \/ ReleaseManaged(t)
  /\ UNCHANGED <<kind, daemon, net, client, names, faults>>

-----------------------------------------------------------------------------
(* The Control Plane: loading and publishing *)

\* The daemon returns: its listeners and connection tasks are gone.
StopControlPlane ==
  /\ cp' = "down" /\ pub' = NoDocument /\ touched' = FALSE /\ loading' = NoLoad
  /\ task' = NoTask /\ dead' = 0
  /\ ask' = None
  /\ UNCHANGED <<wire, answer>>

StartControlPlane ==
  /\ cp = "down"
  /\ cp' = "start"
  /\ UNCHANGED <<kind, store, pub, touched, loading, net, client, names, faults>>

ControlPlaneCrash ==
  /\ cp # "down" /\ faults < MaxFaults
  /\ faults' = faults + 1
  /\ StopControlPlane
  /\ UNCHANGED <<kind, store, client>>

\* A load takes the gate and reads the head: the version, and for snapshots
\* the digest of the rows.
BeginLoad(by) ==
  /\ loading = NoLoad
  /\ loading' = [by |-> by, at |-> "rows", v |-> db.v, digest |-> Document(db.rows),
                 committed |-> 0]

\* The daemon opens its authority ("start") or the interval fires ("up").
RefreshLoad ==
  /\ cp # "down"
  /\ BeginLoad(cp)
  /\ UNCHANGED <<kind, store, cp, pub, touched, net, client, names, faults>>

\* An enrollment handler refreshes after its own transaction.
EnrollmentLoad ==
  /\ cp = "up" /\ kind = "snapshot" /\ db.v > pub.v
  /\ BeginLoad("enrollment")
  /\ UNCHANGED <<kind, store, cp, pub, touched, net, client, names, faults>>

\* publish_durable_current reads the head after the hostname's transaction.
HostnameLoad ==
  /\ loading.at = "head"
  /\ loading' = [loading EXCEPT !.at = "rows", !.v = db.v, !.digest = Routes]
  /\ UNCHANGED <<kind, store, cp, pub, touched, net, client, names, faults>>

\* The rows are a second statement, outside any transaction; the digest of a
\* snapshot shows a commit in between.
Corrupt == kind = "snapshot" /\ Document(db.rows) # loading.digest

\* A publisher refuses a lower version, and an equal one with other content.
PublishError(current, candidate) ==
  \/ candidate.v < current.v
  \/ candidate.v = current.v /\ candidate.doc # current.doc

\* Every receiver of the watch channel sees a change; a snapshot task whose
\* Edge is gone wakes up and may find out when it writes.
Publish(candidate) ==
  /\ pub' = candidate
  /\ touched' = TRUE
  /\ task' = [task EXCEPT !.dirty = task.st # "none"]
  /\ dead' \in 0..dead

\* What the hostname service answers after its load.
Answered(ok) ==
  IF loading.by = "hostname"
  THEN /\ ask' = None
       /\ answer' = IF ok THEN [kind |-> "ok", v |-> loading.committed]
                          ELSE [kind |-> "Internal"]
  ELSE UNCHANGED names

\* A failed load ends the daemon when its supervisor asked for it.
LoadFails ==
  IF loading.by \in {"start", "up"}
  THEN StopControlPlane
  ELSE /\ loading' = NoLoad
       /\ Answered(FALSE)
       /\ UNCHANGED <<cp, pub, touched, net>>

LoadSucceeds(candidate) ==
  /\ IF loading.by = "start"
     THEN cp' = "up" /\ pub' = candidate /\ UNCHANGED <<touched, task, dead>>
     ELSE /\ cp' = cp
          /\ IF candidate = pub THEN UNCHANGED <<pub, touched, task, dead>> ELSE Publish(candidate)
  /\ loading' = NoLoad
  /\ Answered(TRUE)
  /\ wire' = wire

FinishLoad ==
  LET candidate == [v |-> loading.v, doc |-> Document(db.rows)]
      fails == Corrupt \/ (loading.by # "start" /\ PublishError(pub, candidate))
  IN /\ loading.at = "rows"
     /\ (fails /\ LoadFails) \/ (~fails /\ LoadSucceeds(candidate))
     /\ UNCHANGED <<kind, store, client, faults>>

-----------------------------------------------------------------------------
(* Managed hostnames on request of an Agent *)

Request(what, t) ==
  /\ cp = "up" /\ kind = "route" /\ ask = None
  /\ ask' = [kind |-> what, tunnel |-> t]
  /\ answer' = None
  /\ UNCHANGED <<kind, store, daemon, net, client, faults>>

Waiting == ask # None /\ loading.by # "hostname"

\* The snapshot published at that moment does not grant the tunnel.
Unauthorized ==
  /\ Waiting
  /\ ask' = None /\ answer' = [kind |-> "Unauthorized"]
  /\ UNCHANGED <<kind, store, daemon, net, client, faults>>

MutHostnameCommit ==
  /\ Waiting /\ loading = NoLoad
  /\ IF ask.kind = "allocate"
     THEN \/ \E h \in Hosts : AllocateManaged(ask.tunnel, h)
          \/ Managed[ask.tunnel] # None /\ UNCHANGED store
     ELSE \/ ReleaseManaged(ask.tunnel)
          \/ Managed[ask.tunnel] = None /\ UNCHANGED store
  /\ ask' = None /\ answer' = [kind |-> "ok", v |-> db'.v]
  /\ UNCHANGED <<kind, daemon, net, client, faults>>

\* The transaction, under the gate.  A retry finds the hostname it allocated,
\* a repeated release finds nothing.
HostnameCommit ==
  /\ Waiting /\ loading = NoLoad
  /\ IF ask.kind = "allocate"
     THEN \/ \E h \in Hosts : AllocateManaged(ask.tunnel, h)
          \/ Managed[ask.tunnel] # None /\ UNCHANGED store
     ELSE \/ ReleaseManaged(ask.tunnel)
          \/ Managed[ask.tunnel] = None /\ UNCHANGED store
  /\ loading' = [by |-> "hostname", at |-> "head", v |-> 0, digest |-> None,
                 committed |-> db'.v]
  /\ UNCHANGED <<kind, cp, pub, touched, net, client, names, faults>>

\* No free hostname in MAX_ALLOCATION_ATTEMPTS, or a full catalog: rolled back.
HostnameRefused ==
  /\ Waiting /\ loading = NoLoad
  /\ ask.kind = "allocate" /\ Managed[ask.tunnel] = None
  /\ \A h \in Hosts : Routes[h] # None
  /\ ask' = None /\ answer' = [kind |-> "Capacity"]
  /\ UNCHANGED <<kind, store, daemon, net, client, faults>>

-----------------------------------------------------------------------------
(* The distribution server: one serve_edge task per connection *)

\* The first answer compares the version the Edge sent with the current one.
Response ==
  CASE task.asked = pub.v -> [kind |-> "UpToDate", v |-> pub.v, doc |-> None]
    [] task.asked < pub.v -> [kind |-> "Document", v |-> pub.v, doc |-> pub.doc]
    [] task.asked > pub.v -> [kind |-> "ClientAhead", v |-> pub.v, doc |-> None]

Respond ==
  /\ task.st = "request"
  /\ wire' = Append(wire, Response)
  /\ task' = IF Response.kind = "ClientAhead" THEN NoTask ELSE [task EXCEPT !.st = "push"]
  /\ UNCHANGED <<kind, store, daemon, dead, client, names, faults>>

\* changed() returns and the current document is written: versions published
\* in between are skipped.
Push ==
  /\ task.st = "push" /\ task.dirty /\ Len(wire) < MaxWire
  /\ wire' = Append(wire, [kind |-> "Document", v |-> pub.v, doc |-> pub.doc])
  /\ task' = [task EXCEPT !.dirty = FALSE]
  /\ UNCHANGED <<kind, store, daemon, dead, client, names, faults>>

\* The Edge does not read for request_timeout: the task ends.
PushTimeout ==
  /\ task.st = "push" /\ task.dirty /\ Len(wire) >= MaxWire
  /\ faults < MaxFaults
  /\ faults' = faults + 1
  /\ task' = NoTask
  /\ UNCHANGED <<kind, store, daemon, dead, wire, client, names>>

\* The Edge's end of the connection is gone.  A route task reads its stream
\* and ends; a snapshot task ends at its next write, which may be far away.
Abandon ==
  /\ task' = NoTask /\ wire' = <<>>
  /\ IF kind = "route" \/ task.st = "none" THEN dead' = dead
     ELSE dead' \in {dead + 1} \cup (IF task.st = "request" \/ task.dirty THEN {dead} ELSE {})

-----------------------------------------------------------------------------
(* The Edge: client, cache and the snapshot-aware runtime *)

\* A client error that is not retried ends the whole Edge runtime.
StopEdge ==
  /\ edge' = "down" /\ link' = "none" /\ hand' = None /\ app' = NoDocument
  /\ health' = "Stale"
  /\ old' = (old /\ kind = "snapshot")
  /\ Abandon
  /\ UNCHANGED <<gens, high>>

StartEdge ==
  /\ edge = "down"
  /\ edge' = "boot"
  /\ UNCHANGED <<kind, store, daemon, net, link, hand, app, health, gens, old, high, names, faults>>

EdgeCrash ==
  /\ edge # "down" /\ faults < MaxFaults
  /\ faults' = faults + 1
  /\ StopEdge
  /\ UNCHANGED <<kind, store, daemon, names>>

Booting == edge = "boot"
Running == edge = "up"

MutMayConnect == link = "none" /\ (Booting \/ (Running /\ ~old))

\* A running client looks at its deadline before it connects.
MayConnect == link = "none" /\ (Booting \/ (Running /\ (~old \/ health = "Expired")))

\* connect_and_subscribe up to the written Subscribe.  Bootstrap sends 0.
Connect ==
  /\ MayConnect /\ cp = "up" /\ dead < MaxEdgeClients
  /\ task' = [st |-> "request", dirty |-> touched, asked |-> app.v]
  /\ link' = "subscribed"
  /\ wire' = <<>>
  /\ UNCHANGED <<kind, store, daemon, dead, edge, hand, app, health, gens, old, high, names, faults>>

\* At capacity the server drops the socket: TlsAuthentication, not retried.
Refused ==
  /\ MayConnect /\ cp = "up" /\ dead >= MaxEdgeClients
  /\ StopEdge
  /\ UNCHANGED <<kind, store, daemon, names, faults>>

\* load_unlocked: the highest generation, if it is young enough.
Newest == CHOOSE g \in gens : \A o \in gens : o.v <= g.v
CacheUsable == kind = "snapshot" /\ gens # {} /\ ~old

\* A snapshot bootstrap that cannot reach the service uses the cache.
Fallback ==
  /\ CacheUsable
  /\ edge' = "up" /\ link' = "none" /\ app' = Newest /\ health' = "Stale"
  /\ high' = Max({high, Newest.v})
  /\ UNCHANGED <<hand, gens, old>>

\* Connect error, connect timeout or TLS timeout.  A running client waits and
\* tries again, which changes nothing.
Unreachable ==
  /\ Booting /\ link = "none"
  /\ \/ cp # "up" /\ faults' = faults
     \/ cp = "up" /\ faults < MaxFaults /\ faults' = faults + 1
  /\ \/ Fallback /\ UNCHANGED net
     \/ ~CacheUsable /\ StopEdge
  /\ UNCHANGED <<kind, store, daemon, names>>

\* The answer does not come in time: only the snapshot client tries again.
SubscribeTimeout ==
  /\ link = "subscribed" /\ faults < MaxFaults
  /\ faults' = faults + 1
  /\ \/ Booting /\ Fallback /\ Abandon
     \/ /\ Running /\ kind = "snapshot"
        /\ link' = "none" /\ Abandon
        /\ UNCHANGED <<edge, hand, app, health, gens, old, high>>
     \/ ~(Running /\ kind = "snapshot") /\ ~(Booting /\ CacheUsable) /\ StopEdge
  /\ UNCHANGED <<kind, store, daemon, names>>

\* A bootstrap takes the document it got; later ones go through publish.
ApplyError(d) == Running /\ PublishError(app, d)

\* The Edge's publisher; the source is Live.
Apply(d) ==
  /\ app' = d /\ edge' = "up" /\ link' = "open" /\ health' = "Live"
  /\ high' = IF kind = "snapshot" THEN Max({high, d.v}) ELSE high

\* The messages a client accepts; the others end it.
Acceptable(m) ==
  \/ m.kind = "Document"
  \/ m.kind = "UpToDate" /\ link = "subscribed" /\ Running /\ m.v = app.v

Confirmed(m) == IF m.kind = "Document" THEN [v |-> m.v, doc |-> m.doc] ELSE app

MutReceiveSnapshot ==
  LET d == Confirmed(Head(wire))
  IN /\ kind = "snapshot" /\ Acceptable(Head(wire)) /\ ~ApplyError(d)
     /\ app' = d /\ edge' = "up" /\ health' = "Live" /\ high' = Max({high, d.v})
     /\ hand' = d /\ link' = "store"
     /\ wire' = Tail(wire)
     /\ UNCHANGED <<gens, old, task, dead>>

\* A snapshot goes through the cache first.
ReceiveSnapshot ==
  /\ kind = "snapshot" /\ Acceptable(Head(wire))
  /\ hand' = Confirmed(Head(wire)) /\ link' = "store"
  /\ wire' = Tail(wire)
  /\ UNCHANGED <<edge, app, health, gens, old, high, task, dead>>

ReceiveCatalog ==
  LET d == Confirmed(Head(wire))
  IN /\ kind = "route" /\ Acceptable(Head(wire)) /\ ~ApplyError(d)
     /\ Apply(d) /\ old' = FALSE
     /\ wire' = Tail(wire)
     /\ UNCHANGED <<hand, gens, task, dead>>

ReceiveRejected ==
  LET m == Head(wire)
  IN /\ ~Acceptable(m) \/ (kind = "route" /\ ApplyError(Confirmed(m)))
     /\ StopEdge

Receive ==
  /\ edge # "down" /\ link \in {"subscribed", "open"} /\ wire # <<>>
  /\ ReceiveSnapshot \/ ReceiveCatalog \/ ReceiveRejected
  /\ UNCHANGED <<kind, store, daemon, names, faults>>

\* store_sync refuses what is older than the cache or conflicts with it.
StoreError == \E g \in gens : PublishError(g, hand)

\* The generation is written, synced and renamed into place, with the time it
\* was authenticated.
Persist ==
  /\ link' = "sweep" /\ old' = FALSE
  /\ gens' = gens \cup {hand}
  /\ UNCHANGED <<edge, hand, app, health, high, net>>

Store ==
  /\ link = "store"
  /\ (StoreError /\ StopEdge) \/ (~StoreError /\ Persist)
  /\ UNCHANGED <<kind, store, daemon, names, faults>>

\* The other generations are removed afterwards.
Sweep ==
  /\ link = "sweep"
  /\ gens' = {hand} /\ link' = "publish"
  /\ UNCHANGED <<kind, store, daemon, net, edge, hand, app, health, old, high, names, faults>>

\* persist_and_publish: only a stored snapshot is published.
PublishStored ==
  /\ link = "publish"
  /\ \/ ApplyError(hand) /\ StopEdge
     \/ ~ApplyError(hand) /\ Apply(hand) /\ hand' = None /\ UNCHANGED <<gens, old, net>>
  /\ UNCHANGED <<kind, store, daemon, names, faults>>

\* The stream ends.  A snapshot keeps the time of its last message, a catalog
\* counts from the disconnect.
Disconnected ==
  /\ link' = "none" /\ health' = "Stale"
  /\ old' = (old /\ kind = "snapshot")
  /\ UNCHANGED <<edge, hand, app, gens, high, net>>

\* A client that waits for its first answer does not retry an end of stream.
StreamEnds ==
  /\ edge # "down" /\ link \in {"subscribed", "open"}
  /\ wire = <<>> /\ task.st = "none"
  /\ (link = "open" /\ Disconnected) \/ (link = "subscribed" /\ StopEdge)
  /\ UNCHANGED <<kind, store, daemon, names, faults>>

\* The connection breaks with what it carried.
ConnectionLost ==
  /\ task.st # "none" /\ faults < MaxFaults
  /\ faults' = faults + 1
  /\ Abandon
  /\ UNCHANGED <<kind, store, daemon, client, names>>

\* The maximum stale age passes since the last message (snapshot and its
\* cache generation) or since the disconnect (catalog).
Ages ==
  /\ ~old
  /\ \/ kind = "snapshot" /\ gens # {}
     \/ kind = "route" /\ Running /\ link \in {"none", "subscribed"}
  /\ old' = TRUE
  /\ UNCHANGED <<kind, store, daemon, net, edge, link, hand, app, health, gens, high, names, faults>>

\* An expired catalog stays published; connecting goes on.
ExpireCatalog ==
  /\ health # "Expired" /\ health' = "Expired"
  /\ link' = "none" /\ Abandon
  /\ UNCHANGED <<edge, hand, app, gens, old, high>>

\* CacheExpired ends the Edge; a connection attempt under way is dropped.
Expire ==
  /\ Running /\ link \in {"none", "subscribed"} /\ old
  /\ (kind = "snapshot" /\ StopEdge) \/ (kind = "route" /\ ExpireCatalog)
  /\ UNCHANGED <<kind, store, daemon, names, faults>>

-----------------------------------------------------------------------------
ControlPlane ==
  \/ StartControlPlane \/ RefreshLoad \/ EnrollmentLoad \/ HostnameLoad \/ FinishLoad
  \/ Unauthorized \/ HostnameCommit \/ HostnameRefused \/ Respond \/ Push

Edge ==
  \/ StartEdge \/ Connect \/ Refused \/ Unreachable \/ Receive
  \/ Store \/ Sweep \/ PublishStored \/ StreamEnds \/ Expire

Environment ==
  \/ CommitSnapshot \/ ControlPlaneCrash \/ EdgeCrash
  \/ \E h \in Hosts : Remove(h) \/ (\E t \in Tunnels : Upsert(h, t))
  \/ \E t \in Tunnels : OperatorHostname(t) \/ Request("allocate", t) \/ Request("release", t)
  \/ PushTimeout \/ SubscribeTimeout \/ ConnectionLost \/ Ages

Next == ControlPlane \/ Edge \/ Environment

\* The service manager restarts both daemons; the interval keeps firing; the
\* gate is fair, so a load is not kept out by the other callers for ever; a
\* pending deadline is met before it passes once the other side is there.
Fairness ==
  /\ WF_vars(StartControlPlane) /\ SF_vars(RefreshLoad)
  /\ WF_vars(FinishLoad) /\ WF_vars(HostnameLoad)
  /\ WF_vars(Respond) /\ WF_vars(Push) /\ WF_vars(Edge)

Spec == Init /\ [][Next]_vars /\ Fairness

-----------------------------------------------------------------------------
(* Properties *)

\* Every snapshot the Control Plane publishes, the Edge caches, holds in its
\* hands or authorizes by is one that was committed: a load that raced a
\* commit (PublishError, Corrupt) or an interrupted store never makes up a
\* version with the grants of another.
AppliedCommitted ==
  kind = "snapshot" =>
    (({pub, app, hand} \ {NoDocument, None}) \cup gens) \subseteq committed

\* An Edge never authorizes by an older snapshot than one it applied before,
\* whatever crashed in between and wherever it started from: the snapshot is
\* in the cache before it is published (persist_and_publish).
NoRollback == Running /\ kind = "snapshot" => app.v >= high

\* A Live Edge that has nothing to read, whose task has nothing to push, holds
\* the version the Control Plane publishes, and for snapshots its content (a
\* torn load may publish a catalog under a version twice): no update is lost
\* between the answer to Subscribe and the first changed() of serve_edge, nor
\* when versions are skipped.
LiveIsCurrent ==
  Running /\ health = "Live" /\ link = "open" /\ task.st = "push" /\ ~task.dirty /\ wire = <<>>
    => app.v = pub.v /\ (kind = "snapshot" => app = pub)

\* An Edge whose source is Live has a connection; one that started from its
\* cache, lost its stream or let its catalog expire says so.
HealthHonest == health = "Live" => Running /\ link \notin {"none", "subscribed"}

\* Success told to an Agent is published, not merely committed, in spite of
\* operators' commands and refreshes running at the same time
\* (allocate_managed_hostname, release_managed_hostname).
AnswerPublished == answer # None /\ cp = "up" => (answer.kind = "ok" => pub.v >= answer.v)

\* A managed hostname routes to the tunnel it was allocated to, until it is
\* released: no upsert or removal takes it away (is_managed_hostname).
ManagedRouted ==
  kind = "route" => \A t \in Tunnels : Managed[t] # None => Routes[Managed[t]] = t

\* An Edge authorizes only by documents that were committed, never by an older
\* one than before, and a Live Edge with nothing under way holds what the
\* Control Plane publishes (serve_edge, persist_and_publish).
EdgeFollows == AppliedCommitted /\ NoRollback /\ LiveIsCurrent

\* What is reported is so: a Live Edge has a connection, success told to an
\* Agent is published, and a managed hostname stays routed to its tunnel
\* (SnapshotHealth, allocate_managed_hostname).
ReportsHold == HealthHonest /\ AnswerPublished /\ ManagedRouted

\* Once commits and faults end, the Edge is up, Live, and holds the committed
\* document, from whatever mixture of crashed processes, half-written caches,
\* expired deadlines and torn loads it came; unless every permit of the
\* snapshot server is held for an Edge connection that is gone.
Converges ==
  <>[](\/ Running /\ health = "Live" /\ app = [v |-> db.v, doc |-> Document(db.rows)]
       \/ dead >= MaxEdgeClients)

=============================================================================
