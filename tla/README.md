# TunnelProxy in TLA+

TunnelProxy lets a private TCP or HTTP service be reached through a public *Edge*.
An *Agent* beside the service dials out to the Edge and registers a tunnel, and the
two multiplex many logical streams over that one connection. A *Control Plane*
decides which Agent may serve which tunnel and which public hostname leads to it,
and distributes both decisions to the Edges as versioned documents.

This directory holds specifications of these processes, the TLC configurations that
check them on small instances, and TLAPS proofs of their main safety properties for
every value of the constants. `PROJECT.json` maps every definition to the source
lines it stands for and lists components, runs, mutants, hazards, findings and
theorems. Paths below are relative to `src/crates/`, without the `src/` of each crate.

## The system and the modules

The modules are grouped by what a reader of the code would look for. A step of a
model is what the code does between two points where another task, process or
operator can interfere: an await, a lock, a channel operation, a file operation, a
transaction. Payloads are reduced to what the code branches on, telemetry and text
are left out, and time is a choice: a timer that is armed may fire.

### The tunnel

| Module | Code | State and actions |
|---|---|---|
| `FairQueue` | `common/bounded_fair_queue.rs` | operators `Push`, `Pop`: a FIFO per key, the rotation of active keys, a length |
| `SessionWriter` | `writer_actor` and its producers, `edge/multiplex.rs`, `agent/multiplex.rs` | stream tasks that open, wait for the acknowledgement or not (`AwaitAck`), acquire a permit and enqueue; the loop's control frames; the writer's drain, try, pop, select, write, fail, finish |
| `OrderedRelay` | what the writer promises | one FIFO per stream and one for control frames, nothing lost before a graceful finish, nothing starved. `SessionWriter` refines it (`ImplementsRelay`) |
| `EdgeRegistry` | `run_until_shutdown`, `run_accepted_session`, `EdgeSessionRouter` in `edge/multiplex.rs`; claims in `edge/agent_transport.rs`, `edge/tls.rs` | permits, authorization, tunnel claim, publication and withdrawal under the gate (one step per map, as each has its own lock), router calls (admission and lookup, then the queueing, with the wait for the session map between), reconciliation of a snapshot, shutdown with its lossy `BeginDrain` and its aborts |
| `AgentLink` | handshakes of both `agent_transport.rs`, reconnect loop of `agent/runtime.rs` | HELLO, REGISTER, REGISTERED/ERROR over connections that are cut at any time, with the deadlines of both sides, the claim an old connection still holds, backoff |
| `EdgeSession` | `run_edge_session`, `run_ingress_stream` | the loop's arms and where it blocks on the control channel, the stream table, inbound, control and event channels at their capacities, heartbeat, drain, teardown |
| `AgentSession` | `run_multiplexed_inner`, `run_local_stream` in `agent/multiplex.rs` | the same on the Agent: decode, connect, acknowledge, relay, flow control, answers that wait for room, the drain and its deadline |
| `FrameCodec` | `protocol/codec.rs` | bytes that arrive in pieces, `decode` calls dropped at any read, truncation in a header or a payload |
| `RawIngress` | `edge/raw_ingress.rs`, `edge/admission.rs` | `add_route` step by step, route tasks, connection tasks with permits and per-address counts, remove, drain, wait, shutdown |

### The HTTPS side of the Edge

| Module | Code | State and actions |
|---|---|---|
| `HttpsIngress` | `edge/http_ingress.rs`, `request_history.rs` | accept loop, TLS step, HTTP/1.1 and HTTP/2 supervisors, request futures with their deadline and the open timeout of the router, WebSocket and CONNECT relays with their session permits, history, drain and forced stop |
| `HttpRateLimit` | `edge/http_rate_limit.rs` | token buckets per process and per address, with clock stamps that reach the mutex out of order |
| `HttpRequestPolicy` | `prepare_request` and the header rewriting of `http_ingress.rs` | a request that starts well-formed and is changed one thing at a time; what is accepted and what is forwarded |
| `SignedAccess` | `common/signed_access.rs`, `signed_access_reload.rs` | signing, verification with lifetime and skew, and the reload of the key ring through two files |

### The Control Plane and what it hands out

| Module | Code | State and actions |
|---|---|---|
| `Distribution` | `control-plane/{repository,lib,snapshot_service,snapshot_cache,https_route_*,hostname_service}.rs`, `edge/snapshot_runtime.rs` | commits, two-statement loads under the gate, publication, one task per connected Edge, the Edge's cache generations, reconnects, staleness and expiry, managed hostnames, crashes of either process |
| `Enrollment` | `control-plane/enrollment_*.rs`, `agent/enrollment.rs`, `common/credential_bundle.rs`, `generation_reload.rs`, `tls_reload.rs` | one-time tokens and their expiry, issuance (preflight, commit, refresh), activation, renewal, the Agent's token, journal and bundle files, late and lost answers, activation deadlines, revocation |
| `ControlPlaneCommands` | the binary and `control-plane/runtime.rs` | what each command demands of its line, and its durable steps, failing or killed between any two; a file is replaced by write, remove and rename, and a command that writes files may be run again over what the last run left |

### The processes

| Module | Code | State and actions |
|---|---|---|
| `AgentProcess`, `AgentReload` | `agent/{cli,runtime,multi_runtime,public_reachability,local_target}.rs` | startup, one runtime per tunnel with its status word, reachability, main's `select!` and the awaits after it, exit codes; the live reload of targets |
| `AgentConfig` | `agent/cli.rs` | the command, its flags and file, the digest-bound second read, every loader's checks |
| `EdgeConfig` | `edge/bin/tunnelproxy-edge.rs`, `edge/runtime.rs` | the flags, by what their parsers and checks tell apart, and every check between the command line and a bound listener |
| `Supervision` | `edge/runtime.rs`, `edge/snapshot_runtime.rs`, `control-plane/runtime.rs`, both binaries | each branch of each supervising `select!` as a script of withdraw, trigger and await steps, beside tasks that may fail |
| `OperationsServer` | the three `operations.rs` | accept loop, connection limit, readiness, drain |
| `ProcessLog` | `common/process_logging.rs` | threads that emit without waiting, the worker, the guard's deadline |

How they fit together. `EdgeRegistry` sees of a session the commands it answers,
`EdgeSession` sees of the registry the commands it sends, and `SessionWriter` sees of
both the frames they queue. `AgentSession` may be sent anything by the Edge except a
reused stream id, which is what `IdsNeverReused` of `EdgeSession` shows.
`EdgeRegistry` takes from `Distribution` that published versions only grow.
`HttpsIngress` takes a request's verdict from `HttpRequestPolicy` and
`HttpRateLimit` and its stream from `EdgeSession`. `Supervision` treats as leaves
the servers whose ends the other modules show.

`MC*` modules hold the instances. Where one explores several components that share no
state, a variable chooses the component at the start and the others keep their
initial state: a behaviour of one of them is a behaviour of that component, and the
states add up instead of multiplying. Some components are further split into
scenarios in the same way (two Agents that compete for a tunnel, or one Agent that
serves two router calls); the module's head says which.

## Runs

| Run | Instance | Shows |
|---|---|---|
| `SessionWriter` | 2 streams, 3 permits, 1 control slot, burst 1 | `QueueServes`: every permit is in one place, and while a stream waits, no other is served twice before it. `OpenBeforeData`: DATA follows its OPEN_STREAM. `ImplementsRelay`: the abstract relay, safety and liveness |
| `AgentAckOrder` | 1 stream, 2 permits, 2 control slots, burst 8 | **violated**, finding 1 |
| `EdgeRegistry` | 2 connections of 1 tunnel, 2 router calls, 1 new snapshot; 3 links, 2 mishaps | `RegistrySound`: exclusive claims, agreeing maps, authorized routes. `EnqueueAuthorized`: a stream is handed only to the session that holds its tunnel, under a snapshot no older than the applied one, and after admission stopped only if it was past the check. `RegistryLive`: revoked sessions leave, callers are answered, shutdown ends. `LinkAgrees`: both ends mean the same session. `LinkRecovers`: an authorized Agent comes back |
| `StaleReconcile` | 1 connection, 2 new snapshots | **violated**, finding 2 |
| `EdgeSession` | 2 ids, 1 slot, capacities 1; 2 heartbeats beside one stream, or two streams; every frame, but no half-close of the second stream while the first one's task runs | `SessionSound`: slots recoverable, callers answered, PONGs expected. `SessionEnds`: ids never reused, a drain ends with the last stream, nothing outlives the session, a teardown that fits completes |
| `EdgeTeardown` | the same, 1 heartbeat, OPEN and DATA | **violated**, finding 3 |
| `Tunnel` | 2 routes with room for 1, 2 connections of 1 address; 2 ids, 1 slot, capacities 1; header and payload of 2 bytes, 2 frames | `IngressSound`: the table is true, permits and counts are exact, shutdown is final. `IngressLive`: waiters, drains and shutdown return. `AgentStreamsSound`: no stream is forgotten on one side. `AgentSessionEnds`: a shutdown signal ends the session. `DecodeExact`: what was sent comes out |
| `HttpsEdge` | 2 connections and 2 requests with 1 session permit; 2 threads and 2 addresses with 1 tracked; 2 changes to a request; 3 key pairs, 2 generations | `SessionsExact`, `RequestsAccounted`, `ShutdownReleases`; `RateLimitSound`; `AcceptedSound`; `AccessSound`, `RingFollows` |
| `ControlPlane` | 1 hostname, 1 tunnel, 2 commits, 2 faults, 2 permits; 3 requests, 2 faults; 2 edits of a command line, 2 runs over the files of an earlier one | `EdgeFollows`: only committed documents, no rollback, a quiet Live Edge is current. `ReportsHold`: health, answers and managed hostnames are as told. `EdgeConverges`. `CredentialsConsistent`, `RotationRecoverable`, `RotationSettles`. `CommandsSound`: services as flagged; no file ahead of the one it refers to, however often a command is cut off and run again |
| `Agent` | single tunnel in each mode, a profile of 2 tunnels, a monitored one; 2 attempts, threshold 2; 1 change to flags or file | `OrderlyShutdown`, `DrainSticks`, `ReachabilityMatchesStreak`, `ExitHonest`, `ShutdownExits`, `ConfigurationSound` |
| `TargetReload` | 1 tunnel, 2 generations | **violated**, finding 4 |
| `Processes` | every kind of process with 2 faults; 2 connections with limit 1; 2 threads with 2 events; 2 edits of a command line | `StopSound`: tasks stop in order after readiness is withdrawn, and exit 0 means a clean stop that was asked for. `ProcessEnds`. `OperationsSound`, `DrainKeepsEvents`. `EdgeFlagsSound`: public listeners have their policies, and an option of a part that is off stops the start |

Every property has a mutant in `PROJECT.json`: a plausible slip in one mapped
definition (a dropped guard, a missing reset, a swapped order) under which TLC finds
the property violated in the same run.

Why the bounds are enough. Each is the smallest at which the case the property is
about occurs. Two streams show unfair service, and three permits put a frame in the
channel, the fair queue and the encoder at once; sequence numbers modulo 2 tell a
frame from its neighbour. Two connections of one tunnel are the smallest takeover,
and three links let an Agent's third attempt meet both the claim and the answer of an
earlier one. One slot and two ids start the second stream while the first one's task
may still run, and every channel of capacity one fills. Where ids are
interchangeable (the two Agents, the two router calls and the unused links of
`EdgeRegistry`) a fixed one comes first, which loses no behaviour but its renaming. Room for one route of two
lets the second come while the first leaves. A header and a payload of two bytes can
be cut before, inside and after each. Two commits let a load see the head of one and
the rows of the other; two faults let a process crash while it recovers; two permits
let one be held for an Edge that is gone. Three requests are an enrollment and two
renewals, so that an old credential exists beside a new one and its successor. Two
edits of a command line break one check and hide it behind another. A run over the
files of an earlier one, and one more over what that left, is the smallest case in
which a repaired set of files is told from a mixed one (`MaxAttempts` 3). The proofs remove
the bounds for the safety properties listed below; the liveness properties rest on
the instances.

Deadlock is checked where the program must not stop: `Agent` and `TargetReload`,
whose end is an explicit step. The other systems may come to rest (a finished writer,
a returned session, an Edge without commits).

## Fairness

Weak fairness unless said otherwise. Nothing is assumed of clients, of operators, of
the network delivering anything, or of a peer process beyond what is named here.

- `SessionWriter`, `OrderedRelay`: the writer task is polled, and the transport takes
  each frame or fails.
- `EdgeRegistry`: connection tasks, the main loop and waiters for the gate move on
  (the gate is a fair tokio mutex); the opening phase of a stream ends by its timeout;
  a session's teardown ends, which is `EdgeSession`'s subject and, by finding 3, not
  unconditional.
- `AgentLink`: both processes run, their timers fire, backoff ends, and TCP or the
  heartbeat reports a cut.
- `EdgeSession`, `AgentSession`: loop, writer and stream tasks are polled; writes to
  the ingress socket and to the local service return; a `select!` takes its ready arms
  at random, so an arm that is ready again and again is taken (strong fairness for
  a task's inbound arm, and for events at the Edge).
- `RawIngress`: route tasks, connection tasks, waiters and the shutdown call are
  polled; an open call is bounded by `stream_open_timeout`. The steps of `add_route`
  may never come, since its caller may drop it, except that there is no await between
  insert and spawn. Streams need not close.
- `HttpsIngress`: the loop's own steps and those a timer bounds (TLS, header-read and
  request deadlines, drain timeout). Relays and bodies are not bounded.
- `SignedAccess`: the reload task's interval fires.
- `Distribution`: a service manager restarts both daemons; the refresh interval keeps
  firing and gets the gate (strong fairness, the gate is a fair mutex); server tasks
  and the Edge's client are polled.
- `Enrollment`: requests are served, reconciliation gets the gate (strong), an Agent
  process takes its next step, an exchange ends by its timeout, and the TLS reloader
  sees the new bundle before the activation timeout if it is tried often enough
  (strong). Nothing starts the Agent again: the repository names no supervisor for it,
  and `RotationSettles` has an Agent that stays down as an exception.
- `AgentProcess`: a future that main polls moves, and its timeouts bound every wait.
- `Supervision`: every supervisor and every task that was told to stop moves.
- `OperationsServer`, `ProcessLog`: the drain timeout and the guard's deadline pass.

## Findings

1. **`AgentAckOrder`**, `agent/multiplex.rs:480`. After eight control frames in a row
   the Agent's writer serves DATA, which may belong to a stream whose acknowledging
   OPEN_STREAM is still in the control channel. The Edge resets that stream. The Edge's
   own producers wait for the acknowledgement, and for them the order is proved
   (`EdgeOpensFirst`).
2. **`StaleReconcile`**, `edge/multiplex.rs:725`. A reconciliation reads its snapshot
   before it takes the gate; a session published meanwhile under a newer snapshot is
   closed by the older one.
3. **`EdgeTeardown`**, `edge/multiplex.rs:1017`. The event channel is sized for the
   stream table, but flow control can leave more stream tasks than entries. At teardown
   nobody reads the events, the tasks block, and the writer and the session wait for
   them.
4. **`TargetReload`**, `agent/cli.rs:1634`. The future that reloads a profile's local
   targets is not a branch of main's `select!`; it is polled for the first time when
   the shutdown has begun.

## Proofs

TLAPS proves the following for every value of the constants. Each theorem has the form
`Spec => []P`, or `Spec => [][A]_vars` for action properties, and rests on an
inductive invariant: it holds initially, every step of `Next` keeps it (one lemma or
step per action), and it implies `P`. Every invariant was checked by TLC before it was
proved. The assumptions are the named `ASSUME`s of the modules (capacities are
positive, sets of streams and connections finite, `TunnelOf` a function into the
tunnels) and the hypotheses a theorem states (a constant that stands for "no value" is
not a connection, a tunnel or an id; a bound is a number).

- **`SessionWriterProofs`**: types, `AdmissionBound`, `FairQueueConsistent`,
  `ControlBurstBound`, and `OpenBeforeData` under `AwaitAck`. The invariant ties the
  queue's length to its permits, says where in its loop the writer stands while a burst
  runs, and that a task past its acknowledgement has its OPEN_STREAM written.
  `QueueServes` for any number of streams: permits add up, and a stream that waits was
  passed at most once by any other, and by none that is still ahead of it in the
  rotation (`TurnInv`).
  `RelayImplemented`: the writer implements `OrderedRelay` but for its fairness; each
  step maps to a step of the relay or to none, because the frames of a stream in the
  channel, the fair queue and the encoder, taken in this order, are its outstanding
  frames (`RelayInv`).
- **`EdgeRegistryProofs`**: `OneClaimPerTunnel`, `RegistryConsistent`,
  `RoutesAuthorized`, hence `RegistrySound`, and `EnqueueAuthorized`. The properties
  speak of the registry while the gate is free; the invariant adds who may hold the
  gate and what the holder has done between the two writes of a publication, a
  withdrawal and a reconciliation, and that a fetched snapshot is never older than the
  applied one. A call between its lookup and its queueing holds the gate, so the session
  it found is still bound to its tunnel (`BoundInv`), and no second call is there with it.
- **`EdgeSessionProofs`**: every capacity, `SlotsRecoverable`, `CallersAnswered`,
  `PongExpected`, hence `SessionSound`, and `IdsNeverReused`. Ids from `nextId` on are
  unused and the map is empty once the loop is gone; a PING is in one place only, from
  the loop's hand to the Agent's. Every step has one of four shapes (`StepShape`).
  Beside it, `LinkAgrees` for any number of connections between an Agent and the Edge.
  An end of a connection is open exactly while its owner works with it (`EndsInv`); the
  claim belongs to the task that took it; a REGISTERED under way on a connection whose
  Edge end is open names that connection's session, and ERROR unauthorized is under way
  only to an Agent that is (`ReplyInv`).
- **`RawIngressProofs`**: the route limit, `TableMatchesTasks`, `ShutdownFinal`,
  `NoSpuriousStop`, `AdmissionExact`, hence `IngressSound`. The invariant says which
  calls and tasks exist together, what the table holds in each phase of a shutdown,
  that `Removed` is reported before the entry goes, and that a task leaves only when
  its connections have; counters are exact because each step moves at most one
  connection in or out of each counted set.
- **`AdmissionProofs`**: `AgentStreamsSound` for any ids and capacities: an unread
  Closed event belongs to a finished task (`MappedInv`), and of a task that ends, or
  that flow control unmapped, the Edge has heard or the loop holds the frame that tells
  it (`HeardInv`). `SessionStaysBounded`: control, event and inbound channels and the
  stream map keep their capacities; every step changes each by at most one element
  (`SessionStepShape`). `RateLimitSound` for any rates, bursts, addresses, threads and
  number of requests. Its invariant `RateInv` keeps an account of each bucket: what was
  admitted since a window began, and what is left in the bucket, never exceed the burst
  and what the rate has earned up to the last refill. The account of an address
  outlives its bucket: while it is not tracked, every stamp that may still arrive is
  late enough to have earned the full bucket it will be given.
- **`AgentProofs`**: `DecodeExact` for any header size, payload limit and number
  of frames. From any byte on, the wire carries the rest of its frame and then the
  next one (`WireInv`); while the connection is open it carries frames to their end
  (`OpenInv`); header buffer and pending payload hold exactly the first bytes of the
  current frame, and the wire goes on at the byte after them, whichever call was
  dropped (`DecoderInv`). `OrderlyShutdown`, `ExitHonest`, `ReachabilityMatchesStreak`
  and `DrainSticks` of the Agent process, for any tunnels, retry limit and threshold.
  `ProcInv` relates the runtime to its tunnels (`RuntimeInv`); says that before the
  shutdown is signalled no future but the OS signal ends well (`SignalInv`) and what
  startup has done (`StartInv`); and that afterwards every tunnel is stopped or
  draining and whatever has not ended is still to be awaited, operations last
  (`AwaitInv`).
- **`EnrollmentProofs`**: `CredentialsConsistent` and `RotationRecoverable` for any
  number of requests, crashes, lost and late answers. Only the journal's request may be
  undecided and what it replaces is the one active credential (`RowsInv`); where
  `rotate` stands tells what became of that request (`AgentInv`), so does an answer
  (`AnswerInv`), and at most one request in the service has a caller that waits
  (`MessageInv`); what the Agent may load is served (`ServedInv`); and the token is the
  one the row accepts, in every state of the row (`RecoverInv`). The bootstrap token may
  expire at any time: a request the service has taken is not affected (`SpentBoot`), and
  one it has not taken needs a new token, which is where the theorem stops. A crash in
  `write_token` that leaves no token file finds the journal in place and its row Active.
- **`DistributionProofs`**: `EdgeFollows` and `ReportsHold` for any hostnames, tunnels
  and permits, and any number of commits, crashes, timeouts and lost connections. A
  version is committed once, with one document (`StoreInv`); a load holds a version
  that was current, and what an Agent was told is neither newer than the database nor,
  while the daemon is up, than what is published (`LoadInv`, `AnswerInv`); what the
  Edge holds, caches or has under way was committed (`HeldInv`); the cache has a newest
  generation, at least as new as anything ever applied (`CacheInv`), which is why a
  restart from it is no rollback; and what a task wrote last is what is published
  unless it has more to write (`TaskInv`), which is why no update is lost between the
  answer to Subscribe and the first change.

Only model-checked. Liveness and everything that needs `ENABLED` is beyond the prover;
this includes the fairness of `OrderedRelay`, so `ImplementsRelay` is proved for its
safety part and checked as a whole. `AcceptedSound`, `CommandsSound`,
`ConfigurationSound` and `EdgeFlagsSound` are about what one request, command or
configuration, drawn from a finite set, is judged to be: case analyses that TLC
enumerates within the named number of edits. `SessionsExact`, `RequestsAccounted`,
`AccessSound`, `StopSound`, `OperationsSound` and `DrainKeepsEvents` have no proofs.

## Observations

Met while modelling; kept here because no run is about them, or because the model
states what the code does where a document promises a little more.

Sessions and links
- Agent drain: when the loop breaks for another reason than the deadline (the peer
  closes during a drain), the join loop (`agent/multiplex.rs:334`) does not look at the
  drain deadline again; a task in `local.write_all` (408) then holds the shutdown,
  against the comment at 147-148. The Agent's teardown also shares the event channel
  of finding 3.
- Both session loops stop decoding while they wait for room in their control channel
  (`edge/multiplex.rs:1056`); that both do so at once over full sockets is not excluded
  by the code. Each loop is checked against a transport that takes what the writer has
  or fails.
- On an early error return of `run_edge_session` the detached writer keeps its half of
  the socket until its senders are gone; `AgentLink` closes it at once. Inside a
  session the Agent has no timer of its own and relies on TCP to report a cut.
- The Agent's biased `select!` may leave Closed events unread under a constant stream
  of inbound frames; `AgentSession` assumes no fairness for reading them.

Edge
- `ShutdownFinal` is stated as the code has it: a forced raw-ingress `shutdown` counts
  every remaining entry as aborted but aborts only tasks whose handle `add_route` has
  stored; one without was told to stop and ends with its last stream.
- Handled timeouts, 413 answers and handshake errors do not count in
  `rejected_websocket`; after an accept error connections are not signalled; the
  deadline of a request does not cover the streaming of its response body
  (`http_ingress.rs:3338-3375`, `docs/ARCHITECTURE.md:572-574`).
- A key-ring reload that finds nothing changed does not clear `reload_failed`. A peer
  bucket may be forgotten before it is full again (`peer_idle_ttl` is not compared with
  the refill time); the bound of `RateLimitSound` per address has that as a premise.
- Three flags are related to no mode and may be given in vain: `--agent-id` with snapshot
  authorization, `--tunnel-id` with dynamic routes as well, and
  `--tls-handshake-timeout-ms` without TLS. `EdgeFlagsSound` is about all other options.
- A request whose stream is not opened in time is answered 504 and recorded as
  `local_unavailable`, one whose own deadline passes 504 and `timeout`
  (`http_ingress.rs:1883-1917`); `RequestsAccounted` allows both for a 504.
- `--tls-reload-interval-ms` beside only `--public-tls-reload-manifest` is refused
  (`bin/tunnelproxy-edge.rs:1525-1531`).
- In the snapshot-aware runtime the branch for the end of the snapshot client does not
  await the route task, and the signal branch returns early on an error.

Control Plane
- A load reads the head and the rows in two statements; a snapshot's digest shows a
  commit in between, a route catalog has none, so two contents may be published under
  one version. `LiveIsCurrent` is therefore stated by version for catalogs.
- A snapshot task whose Edge is gone keeps its permit until its next write
  (`snapshot_service.rs:355`); at `max_edge_clients` a returning Edge is refused with an
  error it does not retry. `EdgeConverges` has exactly that state as an exception.
- `replace_file` removes the old file before it renames the new one
  (`credential_bundle.rs:101-104`). A crash of the Agent in between leaves no token
  file: `rotate` fails before it reads the journal, in which the token still is
  (`RotationRecoverable`); `RotationSettles` has this state as an exception. A crash
  while a bundle is replaced leaves one that does not load; `run` then fails at start,
  and `--enroll-only` (`agent/cli.rs:1108-1138`) is what completes the rotation.
- The key commands of the Control Plane replace their files the same way. Killed in
  between they leave a ring without its manifest, or an old manifest over a new ring or
  over none; the manifest names the ring by digest, so a reader refuses the pair
  (`AccessSound`, `RingFollows`), and an Edge that starts then does not come up. What
  `CommandsSound` promises is that no manifest or private key is ahead of its ring and
  that the next successful run leaves files that belong together.
- `run_server` returns without triggering its tasks when the OS listener fails;
  readiness and draining are two atomics; the snapshot version metric may go back.
  An invalid enrollment configuration exits 1 after listeners were bound, not 2.

Agent
- A reconnect sets the reachability state to Pending and leaves the count of failures,
  and a probe that began before it may then write the state (`runtime.rs:515`).
  `ReachabilityMatchesStreak` says that state and count agree, not that the Pending of a
  new session stays until it was probed.
- `--config ""` on `http` counts as no file; operations flags without `--ops-listen`
  are ignored.

Logging
- An event accepted between the worker's last `try_recv` and the drop of the receiver
  is never written; `DrainKeepsEvents` is about what the channel held when admission
  closed.

## Not modelled

- The single-stream transport, the Forwarder and the echo listener: predecessors that
  no binary starts.
- The document, handshake and enrollment formats, PEM and TLS handling, certificate
  building, signatures: byte layout, library code and cryptography. A digest is the
  content it is taken of, a signature the key and claims it covers.
- hyper's framing, metrics rendering, log formatting, watch channels that only
  observers read, status counters, rejection counters of raw ingress, a second
  concurrent `shutdown` of it, the Agent's one-shot hostname subcommands.
- Two Edges at one Control Plane and two Agents in one enrollment: they share only the
  permits and the database's transactions, which the environment of `Distribution` and
  `Enrollment` stands for.
