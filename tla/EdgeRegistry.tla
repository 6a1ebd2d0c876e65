---------------------------- MODULE EdgeRegistry ----------------------------
(***************************************************************************)
(* The Edge's registry of live Agent sessions (crates/edge/src/            *)
(* multiplex.rs): connection tasks that authorize, claim their tunnel,     *)
(* publish their session and withdraw it (run_accepted_session); the       *)
(* runtime loop that accepts, reconciles authorization snapshots and shuts *)
(* down (run_until_shutdown); and router calls that open streams           *)
(* (EdgeSessionRouter).  They share the session and tunnel maps, each      *)
(* behind its own lock, and one authorization gate that orders             *)
(* publication, withdrawal, stream enqueue and reconciliation.             *)
(*                                                                         *)
(* A step is what runs between two awaits that another task can observe.   *)
(* A connection gets a fresh TransportSessionId, so it stands for its      *)
(* session, and it registers one principal (certificate, Agent, Tunnel), so *)
(* a snapshot is the set of connections whose principal it grants: those   *)
(* of one Agent are granted together in some behaviours, apart in others.  *)
(***************************************************************************)
EXTENDS Naturals, Sequences, FiniteSets

CONSTANTS Conns,           \* Agent connections, each with its session id
          Tunnels,         \* TunnelIds
          Opens,           \* router calls
          None,            \* no session
          TunnelOf,        \* the tunnel a connection registers
          MaxSessions,     \* max_agent_sessions
          CommandCapacity, \* session_command_capacity
          MaxVersion       \* bound on the snapshot versions published

ASSUME ConnsAssumption == IsFiniteSet(Conns) /\ None \notin Conns
ASSUME TunnelOfAssumption == TunnelOf \in [Conns -> Tunnels]
ASSUME MaxSessionsAssumption == MaxSessions \in Nat \ {0}
ASSUME CommandCapacityAssumption == CommandCapacity \in Nat \ {0}
ASSUME MaxVersionAssumption == MaxVersion \in Nat

VARIABLES
    grants,     \* connections granted by each published version
    current,    \* version the publisher holds
    notified,   \* the subscription has an unseen change
    run,        \* where the runtime loop stands
    fetched,    \* version the loop is reconciling
    applied,    \* version of the published EdgeAuthorizationStatus
    notify,     \* sessions the loop still has to send a command to
    target,     \* session whose full queue the loop waits for
    signalled,  \* shutdown was requested
    accepting,  \* accepting_streams
    gate,       \* the authorization gate is held
    conn,       \* where each connection task stands
    basis,      \* snapshot_version each connection registered under
    draining,   \* connections whose session loop saw BeginDrain
    queue,      \* command channel of each session
    claims,     \* TunnelRegistrationClaims
    sessions,   \* SessionRegistry
    tunnels,    \* TunnelRegistry
    open,       \* where each router call stands
    at          \* session a router call was resolved to

snapshotVars == <<grants, current, notified>>
runVars      == <<run, fetched, applied, notify, target, signalled, accepting>>
connVars     == <<conn, basis, draining, queue>>
mapVars      == <<claims, sessions, tunnels>>
openVars     == <<open, at>>
vars == <<snapshotVars, runVars, gate, connVars, mapVars, openVars>>

Granted(c, v) == c \in grants[v]

Active == {c \in Conns : conn[c] \notin {"idle", "done"}}

\* The command receiver lives from before publication until run_edge_session
\* returns; it is read only while the session loop runs.
ReceiverAlive(c) == conn[c] \in {"checked", "inserted", "live", "closing"}

\* Streams of a session: router calls its loop has accepted.
StreamsOf(c) == {o \in Opens : at[o] = c /\ open[o] \in {"opening", "open"}}

Commands == {"drain", "revoke"} \cup Opens

Init ==
    /\ \E g \in SUBSET Conns :
          grants = [v \in 0 .. MaxVersion |-> IF v = 0 THEN g ELSE {}]
    /\ current = 0
    /\ notified = FALSE
    /\ run = "loop"
    /\ fetched = 0
    /\ applied = 0
    /\ notify = {}
    /\ target = None
    /\ signalled = FALSE
    /\ accepting = TRUE
    /\ gate = FALSE
    /\ conn = [c \in Conns |-> "idle"]
    /\ basis = [c \in Conns |-> 0]
    /\ draining = {}
    /\ queue = [c \in Conns |-> <<>>]
    /\ claims = {}
    /\ sessions = {}
    /\ tunnels = [t \in Tunnels |-> None]
    /\ open = [o \in Opens |-> "idle"]
    /\ at = [o \in Opens |-> None]

-----------------------------------------------------------------------------
(* The snapshot publisher.                                                 *)

\* publish with a higher version; lower and equal ones change nothing.
Publish ==
    /\ current < MaxVersion
    /\ \E g \in SUBSET Conns : grants' = [grants EXCEPT ![current + 1] = g]
    /\ current' = current + 1
    /\ notified' = TRUE
    /\ UNCHANGED <<runVars, gate, connVars, mapVars, openVars>>

\* set_source_health wakes the subscribers with the same snapshot.
SetSourceHealth ==
    /\ ~notified
    /\ notified' = TRUE
    /\ UNCHANGED <<grants, current, runVars, gate, connVars, mapVars, openVars>>

-----------------------------------------------------------------------------
(* Connection tasks: run_accepted_session.                                 *)

Goto(c, s) == conn' = [conn EXCEPT ![c] = s]

\* The task is over and its AgentSession dropped.
Return(c) == Goto(c, "done") /\ basis' = [basis EXCEPT ![c] = 0]

\* The loop accepts a socket while a session permit is free.
Accept(c) ==
    /\ run = "loop" /\ ~signalled
    /\ conn[c] = "idle"
    /\ Cardinality(Active) < MaxSessions
    /\ Goto(c, "handshake")
    /\ UNCHANGED <<snapshotVars, runVars, gate, basis, draining, queue, mapVars, openVars>>

\* TLS or handshake failure, its timeout, or a refused registration.
HandshakeFails(c) ==
    /\ conn[c] = "handshake"
    /\ Goto(c, "done")
    /\ UNCHANGED <<snapshotVars, runVars, gate, basis, draining, queue, mapVars, openVars>>

\* REGISTER is authorized by the snapshot of that moment.
Authorize(c) ==
    /\ conn[c] = "handshake"
    /\ Granted(c, current)
    /\ basis' = [basis EXCEPT ![c] = current]
    /\ Goto(c, "authorized")
    /\ UNCHANGED <<snapshotVars, runVars, gate, draining, queue, mapVars, openVars>>

\* A claim that does not look for an earlier one.
ClaimUnchecked(c) ==
    /\ conn[c] = "authorized"
    /\ claims' = claims \cup {TunnelOf[c]}
    /\ Goto(c, "claimed")
    /\ UNCHANGED <<snapshotVars, runVars, gate, basis, draining, queue, sessions, tunnels,
                   openVars>>

\* The tunnel is claimed, or the registration ends with TunnelAlreadyConnected.
Claim(c) ==
    /\ conn[c] = "authorized"
    /\ IF TunnelOf[c] \in claims
         THEN Return(c) /\ UNCHANGED claims
         ELSE Goto(c, "claimed") /\ claims' = claims \cup {TunnelOf[c]} /\ UNCHANGED basis
    /\ UNCHANGED <<snapshotVars, runVars, gate, draining, queue, sessions, tunnels, openVars>>

\* REGISTERED is written, or the write or the whole handshake times out.
SendRegistered(c) ==
    /\ conn[c] = "claimed"
    /\ \E s \in {"registered", "leaving"} : Goto(c, s)
    /\ UNCHANGED <<snapshotVars, runVars, gate, basis, draining, queue, mapVars, openVars>>

\* Under the gate the principal is authorized again; a refusal leaves at once.
Reauthorize(c) ==
    /\ conn[c] = "registered" /\ ~gate
    /\ IF Granted(c, current)
         THEN Goto(c, "checked") /\ gate' = TRUE
         ELSE Goto(c, "leaving") /\ UNCHANGED gate
    /\ UNCHANGED <<snapshotVars, runVars, basis, draining, queue, mapVars, openVars>>

InsertSession(c) ==
    /\ conn[c] = "checked"
    /\ sessions' = sessions \cup {c}
    /\ Goto(c, "inserted")
    /\ UNCHANGED <<snapshotVars, runVars, gate, basis, draining, queue, claims, tunnels,
                   openVars>>

InsertTunnel(c) ==
    /\ conn[c] = "inserted"
    /\ tunnels' = [tunnels EXCEPT ![TunnelOf[c]] = c]
    /\ gate' = FALSE
    /\ Goto(c, "live")
    /\ UNCHANGED <<snapshotVars, runVars, basis, draining, queue, claims, sessions, openVars>>

\* The session is over: under the gate, unbind the tunnel if it is still ours.
RemoveTunnel(c) ==
    /\ conn[c] = "ended" /\ ~gate
    /\ gate' = TRUE
    /\ tunnels' = IF tunnels[TunnelOf[c]] = c
                  THEN [tunnels EXCEPT ![TunnelOf[c]] = None] ELSE tunnels
    /\ Goto(c, "unbound")
    /\ UNCHANGED <<snapshotVars, runVars, basis, draining, queue, claims, sessions, openVars>>

RemoveSession(c) ==
    /\ conn[c] = "unbound"
    /\ sessions' = sessions \ {c}
    /\ gate' = FALSE
    /\ Goto(c, "leaving")
    /\ UNCHANGED <<snapshotVars, runVars, basis, draining, queue, claims, tunnels, openVars>>

\* The task returns: the AgentSession is dropped and with it the claim.
Leave(c) ==
    /\ conn[c] = "leaving"
    /\ claims' = claims \ {TunnelOf[c]}
    /\ Return(c)
    /\ UNCHANGED <<snapshotVars, runVars, gate, draining, queue, sessions, tunnels, openVars>>

-----------------------------------------------------------------------------
(* run_edge_session, as the registry sees it.                              *)

\* The loop's receiver is dropped with the commands it still holds: their
\* callers see SessionClosing.
DropQueue(c) ==
    /\ queue' = [queue EXCEPT ![c] = <<>>]
    /\ open' = [o \in Opens |-> IF open[o] = "queued" /\ at[o] = c
                               THEN "answered" ELSE open[o]]

\* EOF from the Agent ends the loop; the function returns when its writer has.
Disconnect(c) ==
    /\ conn[c] = "live"
    /\ Goto(c, "closing")
    /\ UNCHANGED <<snapshotVars, runVars, gate, basis, draining, queue, mapVars, openVars>>

\* A heartbeat timeout, a protocol error or a dead writer returns at once.
SessionFails(c) ==
    /\ conn[c] = "live"
    /\ Goto(c, "ended")
    /\ DropQueue(c)
    /\ UNCHANGED <<snapshotVars, runVars, gate, basis, draining, mapVars, at>>

\* The writer task has ended and run_edge_session returns.
SessionEnds(c) ==
    /\ conn[c] = "closing"
    /\ Goto(c, "ended")
    /\ DropQueue(c)
    /\ UNCHANGED <<snapshotVars, runVars, gate, basis, draining, mapVars, at>>

\* SessionCommand::Open: refused while draining, at the stream limit or when
\* stream ids are exhausted, else a stream task takes it over.
ReceiveOpen(c) ==
    /\ conn[c] = "live"
    /\ queue[c] # <<>> /\ Head(queue[c]) \in Opens
    /\ queue' = [queue EXCEPT ![c] = Tail(@)]
    /\ \E s \in (IF c \in draining THEN {"answered"} ELSE {"opening", "answered"}) :
          open' = [open EXCEPT ![Head(queue[c])] = s]
    /\ UNCHANGED <<snapshotVars, runVars, gate, conn, basis, draining, mapVars, at>>

\* SessionCommand::BeginDrain: the loop ends when no stream is left.
ReceiveDrain(c) ==
    /\ conn[c] = "live"
    /\ queue[c] # <<>> /\ Head(queue[c]) = "drain"
    /\ queue' = [queue EXCEPT ![c] = Tail(@)]
    /\ draining' = draining \cup {c}
    /\ IF StreamsOf(c) = {} THEN Goto(c, "closing") ELSE UNCHANGED conn
    /\ UNCHANGED <<snapshotVars, runVars, gate, basis, mapVars, openVars>>

\* SessionCommand::RevokeAuthorization: active streams fail closed.
ReceiveRevoke(c) ==
    /\ conn[c] = "live"
    /\ queue[c] # <<>> /\ Head(queue[c]) = "revoke"
    /\ queue' = [queue EXCEPT ![c] = Tail(@)]
    /\ Goto(c, "closing")
    /\ UNCHANGED <<snapshotVars, runVars, gate, basis, draining, mapVars, openVars>>

\* The Agent acknowledges a stream.
StreamOpens(o) ==
    /\ open[o] = "opening" /\ conn[at[o]] = "live"
    /\ open' = [open EXCEPT ![o] = "open"]
    /\ UNCHANGED <<snapshotVars, runVars, gate, connVars, mapVars, at>>

\* A stream ends, answering its caller if it has not yet: refused, timed out,
\* finished, or its session loop is gone.  A draining loop ends with the last.
StreamEnds(o) ==
    /\ open[o] \in {"opening", "open"}
    /\ open' = [open EXCEPT ![o] = "answered"]
    /\ LET c == at[o] IN
         IF conn[c] = "live" /\ c \in draining /\ StreamsOf(c) = {o}
           THEN Goto(c, "closing") ELSE UNCHANGED conn
    /\ UNCHANGED <<snapshotVars, runVars, gate, basis, draining, queue, mapVars, at>>

-----------------------------------------------------------------------------
(* Router calls: open_tunnel_io_tracked and open_stream_tracked.           *)

\* Under the gate, resolve the tunnel to its session and load accepting_streams:
\* TunnelNotConnected, RuntimeDraining, or the call keeps the gate and waits for
\* the session map.
OpenTunnel(o) ==
    /\ open[o] = "idle" /\ ~gate
    /\ \E t \in Tunnels :
         IF tunnels[t] = None \/ ~accepting
           THEN open' = [open EXCEPT ![o] = "answered"] /\ UNCHANGED <<gate, at>>
           ELSE /\ open' = [open EXCEPT ![o] = "resolved"]
                /\ at' = [at EXCEPT ![o] = tunnels[t]]
                /\ gate' = TRUE
    /\ UNCHANGED <<snapshotVars, runVars, connVars, mapVars>>

\* The same with a session id learnt at some earlier time.
OpenSession(o) ==
    /\ open[o] = "idle" /\ ~gate
    /\ \E c \in Conns :
         /\ conn[c] \notin {"idle", "handshake", "authorized", "claimed"}
         /\ IF ~accepting
              THEN open' = [open EXCEPT ![o] = "answered"] /\ UNCHANGED <<gate, at>>
              ELSE /\ open' = [open EXCEPT ![o] = "resolved"]
                   /\ at' = [at EXCEPT ![o] = c]
                   /\ gate' = TRUE
    /\ UNCHANGED <<snapshotVars, runVars, connVars, mapVars>>

HasRoom(c) == Len(queue[c]) < CommandCapacity

\* An enqueue that trusts the binding it resolved.
EnqueueUnchecked(o) ==
    /\ open[o] = "resolved"
    /\ gate' = FALSE
    /\ IF ReceiverAlive(at[o]) /\ HasRoom(at[o])
         THEN /\ queue' = [queue EXCEPT ![at[o]] = Append(@, o)]
              /\ open' = [open EXCEPT ![o] = "queued"]
         ELSE /\ open' = [open EXCEPT ![o] = "answered"]
              /\ UNCHANGED queue
    /\ UNCHANGED <<snapshotVars, runVars, conn, basis, draining, mapVars, at>>

\* The rest of enqueue_io, once it has the session map: SessionNotFound,
\* SessionBusy, SessionClosing, or the command is queued, although the runtime
\* may have stopped admission since it was loaded; then the gate is dropped.
EnqueueIo(o) ==
    /\ open[o] = "resolved"
    /\ gate' = FALSE
    /\ IF at[o] \in sessions /\ ReceiverAlive(at[o]) /\ HasRoom(at[o])
         THEN /\ queue' = [queue EXCEPT ![at[o]] = Append(@, o)]
              /\ open' = [open EXCEPT ![o] = "queued"]
         ELSE /\ open' = [open EXCEPT ![o] = "answered"]
              /\ UNCHANGED queue
    /\ UNCHANGED <<snapshotVars, runVars, conn, basis, draining, mapVars, at>>

-----------------------------------------------------------------------------
(* The runtime loop: run_until_shutdown.                                   *)

\* next_snapshot_update: the latest snapshot, read without the gate.
FetchSnapshot ==
    /\ run = "loop" /\ ~signalled /\ notified
    /\ run' = "fetched"
    /\ fetched' = current
    /\ notified' = FALSE
    /\ UNCHANGED <<grants, current, applied, notify, target, signalled, accepting,
                   gate, connVars, mapVars, openVars>>

\* reconcile_authorization_snapshot under the gate: unbind the tunnels of the
\* sessions the fetched snapshot does not authorize...
PruneTunnels ==
    /\ run = "fetched" /\ ~gate
    /\ gate' = TRUE
    /\ notify' = {c \in sessions : ~Granted(c, fetched)}
    /\ tunnels' = [t \in Tunnels |-> IF tunnels[t] \in notify' THEN None ELSE tunnels[t]]
    /\ run' = "pruned"
    /\ UNCHANGED <<snapshotVars, fetched, applied, target, signalled, accepting,
                   connVars, claims, sessions, openVars>>

\* ...then remove the sessions, publish the status and drop the gate.
PruneSessions ==
    /\ run = "pruned"
    /\ sessions' = sessions \ notify
    /\ applied' = fetched
    /\ gate' = FALSE
    /\ run' = "notify"
    /\ UNCHANGED <<snapshotVars, fetched, notify, target, signalled, accepting,
                   connVars, claims, tunnels, openVars>>

\* RevokeAuthorization goes to one session after the other; the send waits for
\* room in a full queue and gives up only when the receiver is gone.
PickRevoked ==
    /\ run = "notify" /\ target = None
    /\ \E c \in notify : target' = c
    /\ UNCHANGED <<snapshotVars, run, fetched, applied, notify, signalled, accepting,
                   gate, connVars, mapVars, openVars>>

SendRevoke ==
    /\ run = "notify" /\ target # None
    /\ IF ReceiverAlive(target)
         THEN HasRoom(target) /\ queue' = [queue EXCEPT ![target] = Append(@, "revoke")]
         ELSE UNCHANGED queue
    /\ notify' = notify \ {target}
    /\ target' = None
    /\ UNCHANGED <<snapshotVars, run, fetched, applied, signalled, accepting, gate,
                   conn, basis, draining, mapVars, openVars>>

ReconcileDone ==
    /\ run = "notify" /\ notify = {}
    /\ run' = "loop"
    /\ UNCHANGED <<snapshotVars, fetched, applied, notify, target, signalled, accepting,
                   gate, connVars, mapVars, openVars>>

Signal ==
    /\ ~signalled
    /\ signalled' = TRUE
    /\ UNCHANGED <<snapshotVars, run, fetched, applied, notify, target, accepting,
                   gate, connVars, mapVars, openVars>>

\* The loop ends between two iterations; stream admission stops first.
StopAccepting ==
    /\ run = "loop" /\ signalled
    /\ accepting' = FALSE
    /\ run' = "collect"
    /\ UNCHANGED <<snapshotVars, fetched, applied, notify, target, signalled, gate,
                   connVars, mapVars, openVars>>

\* The senders are read without the gate: a session published later gets no
\* BeginDrain.
CollectSenders ==
    /\ run = "collect"
    /\ notify' = sessions
    /\ run' = "begin_drain"
    /\ UNCHANGED <<snapshotVars, fetched, applied, target, signalled, accepting, gate,
                   connVars, mapVars, openVars>>

\* try_send(BeginDrain): lost when the queue is full or its receiver gone.
SendDrain ==
    /\ run = "begin_drain"
    /\ \E c \in notify :
         /\ notify' = notify \ {c}
         /\ queue' = IF ReceiverAlive(c) /\ HasRoom(c)
                     THEN [queue EXCEPT ![c] = Append(@, "drain")] ELSE queue
    /\ UNCHANGED <<snapshotVars, run, fetched, applied, target, signalled, accepting,
                   gate, conn, basis, draining, mapVars, openVars>>

\* The listener is dropped and drain_tasks waits for the connection tasks.
AwaitTasks ==
    /\ run = "begin_drain" /\ notify = {}
    /\ run' = "drain"
    /\ UNCHANGED <<snapshotVars, fetched, applied, notify, target, signalled, accepting,
                   gate, connVars, mapVars, openVars>>

\* A deadline that only watches the sessions that were told to drain.
DrainDeadlineIfTold ==
    /\ run = "drain" /\ Active \cap draining # {}
    /\ run' = "forced"
    /\ UNCHANGED <<snapshotVars, fetched, applied, notify, target, signalled, accepting,
                   gate, connVars, mapVars, openVars>>

DrainDeadline ==
    /\ run = "drain" /\ Active # {}
    /\ run' = "forced"
    /\ UNCHANGED <<snapshotVars, fetched, applied, notify, target, signalled, accepting,
                   gate, connVars, mapVars, openVars>>

\* abort_all: a task stops at its next suspension and drops what it owns, the
\* gate and its claim included; its registry entries stay behind.
Abort(c) ==
    /\ run = "forced"
    /\ c \in Active
    /\ gate' = (gate /\ conn[c] \notin {"checked", "inserted", "unbound"})
    /\ claims' = IF conn[c] \in {"handshake", "authorized"} THEN claims
                 ELSE claims \ {TunnelOf[c]}
    /\ Return(c)
    /\ DropQueue(c)
    /\ UNCHANGED <<snapshotVars, runVars, draining, sessions, tunnels, at>>

\* All tasks are gone: the maps are cleared and the runtime returns.
ClearRegistry ==
    /\ run \in {"drain", "forced"} /\ Active = {}
    /\ sessions' = {}
    /\ tunnels' = [t \in Tunnels |-> None]
    /\ run' = "stopped"
    /\ UNCHANGED <<snapshotVars, fetched, applied, notify, target, signalled, accepting,
                   gate, connVars, claims, openVars>>

-----------------------------------------------------------------------------
(* Steps a task takes by itself, without the gate and with it.             *)
ConnStep(c) ==
    \/ HandshakeFails(c) \/ Authorize(c) \/ Claim(c) \/ SendRegistered(c)
    \/ InsertSession(c) \/ InsertTunnel(c) \/ RemoveSession(c) \/ Leave(c)
    \/ ReceiveOpen(c) \/ ReceiveDrain(c) \/ ReceiveRevoke(c) \/ SessionEnds(c)

GateStep(c) == Reauthorize(c) \/ RemoveTunnel(c)

LoopStep ==
    \/ FetchSnapshot \/ PruneSessions \/ PickRevoked \/ SendRevoke
    \/ ReconcileDone \/ StopAccepting \/ CollectSenders \/ SendDrain
    \/ AwaitTasks \/ DrainDeadline \/ ClearRegistry

Next ==
    \/ Publish \/ SetSourceHealth \/ Signal \/ LoopStep \/ PruneTunnels
    \/ \E c \in Conns :
          \/ Accept(c) \/ ConnStep(c) \/ GateStep(c) \/ Disconnect(c)
          \/ SessionFails(c) \/ Abort(c)
    \/ \E o \in Opens :
          \/ OpenTunnel(o) \/ OpenSession(o) \/ EnqueueIo(o)
          \/ StreamOpens(o) \/ StreamEnds(o)

StreamMustEnd(o) ==
    open[o] = "opening" \/ (open[o] = "open" /\ conn[at[o]] # "live")

\* Tasks are polled; the gate is a tokio Mutex, which queues its waiters, so a
\* waiter that finds it free again and again gets it.  A stream that is not
\* open yet has its open timeout; an open one ends when its session loop has.
Fairness ==
    /\ WF_vars(LoopStep) /\ SF_vars(PruneTunnels)
    /\ \A c \in Conns : WF_vars(ConnStep(c)) /\ SF_vars(GateStep(c)) /\ WF_vars(Abort(c))
    /\ \A o \in Opens :
          /\ WF_vars(EnqueueIo(o))
          /\ WF_vars(StreamMustEnd(o) /\ StreamEnds(o))

Spec == Init /\ [][Next]_vars /\ Fairness

-----------------------------------------------------------------------------
(* Properties.                                                             *)

ConnStates == {"idle", "handshake", "authorized", "claimed", "registered", "checked",
               "inserted", "live", "closing", "ended", "unbound", "leaving", "done"}

\* Types of the state of the registry, its tasks and the router calls; a command
\* channel never holds more than session_command_capacity.
TypeOK ==
    /\ grants \in [0 .. MaxVersion -> SUBSET Conns]
    /\ current \in 0 .. MaxVersion /\ fetched \in 0 .. MaxVersion
    /\ applied \in 0 .. MaxVersion
    /\ notified \in BOOLEAN /\ signalled \in BOOLEAN /\ accepting \in BOOLEAN
    /\ gate \in BOOLEAN
    /\ run \in {"loop", "fetched", "pruned", "notify", "collect", "begin_drain",
                "drain", "forced", "stopped"}
    /\ notify \in SUBSET Conns /\ target \in Conns \cup {None}
    /\ conn \in [Conns -> ConnStates]
    /\ basis \in [Conns -> 0 .. MaxVersion]
    /\ draining \in SUBSET Conns
    /\ queue \in [Conns -> Seq(Commands)]
    /\ \A c \in Conns : Len(queue[c]) <= CommandCapacity
    /\ claims \in SUBSET Tunnels
    /\ sessions \in SUBSET Conns
    /\ tunnels \in [Tunnels -> Conns \cup {None}]
    /\ open \in [Opens -> {"idle", "resolved", "queued", "opening", "open", "answered"}]
    /\ at \in [Opens -> Conns \cup {None}]

ClaimStates == {"claimed", "registered", "checked", "inserted", "live", "closing",
                "ended", "unbound", "leaving"}

\* TunnelRegistrationClaims holds exactly the tunnels of the connections that
\* claimed one and have not returned, and no two of them share a tunnel: the
\* claim is released on every exit, aborts included, and never earlier.
OneClaimPerTunnel ==
    /\ claims = {TunnelOf[c] : c \in {d \in Conns : conn[d] \in ClaimStates}}
    /\ \A c, d \in Conns :
          conn[c] \in ClaimStates /\ conn[d] \in ClaimStates /\ TunnelOf[c] = TunnelOf[d]
            => c = d

\* Before a forced shutdown cuts tasks off, whenever the gate is free the two
\* maps name the same sessions, each bound to its own tunnel, and each still
\* owned by a connection task that will withdraw it; so an InsertTunnel never
\* replaces a binding (the debug_assert of run_accepted_session).
RegistryConsistent ==
    run \notin {"forced", "stopped"} =>
        /\ ~gate =>
             /\ \A t \in Tunnels : tunnels[t] # None =>
                   tunnels[t] \in sessions /\ TunnelOf[tunnels[t]] = t
             /\ \A c \in sessions :
                   /\ tunnels[TunnelOf[c]] = c
                   /\ conn[c] \in {"live", "closing", "ended"}
        /\ \A c \in Conns : conn[c] = "inserted" => tunnels[TunnelOf[c]] = None

\* A session in the registry is authorized by a snapshot at least as new as
\* the one the Edge reports as applied: a grant revoked by an applied snapshot
\* does not race back into routing.
RoutesAuthorized ==
    \A c \in sessions : \E v \in applied .. current : Granted(c, v)

\* Between its resolution and its queueing a router call waits for the session
\* map (enqueue_io).  What happens meanwhile cannot misdirect it: the session
\* that gets it still is the one its tunnel is bound to, and a snapshot no older
\* than the applied one grants it.  Admission may stop in that window, and then
\* this call is the last: no other one is past the check.
EnqueueAuthorized ==
    [][\A o \in Opens : open[o] = "resolved" /\ open'[o] = "queued" =>
          /\ tunnels[TunnelOf[at[o]]] = at[o]
          /\ \E v \in applied .. current : Granted(at[o], v)
          /\ ~accepting => \A p \in Opens : open'[p] # "resolved"]_vars

\* A session that the current snapshot does not authorize leaves the registry,
\* unless a newer snapshot grants it again.
RevokedUnrouted ==
    \A c \in Conns :
        (c \in sessions /\ ~Granted(c, current)) ~>
            (c \notin sessions \/ Granted(c, current))

\* Every router call that got the gate is answered.
OpenAnswered ==
    \A o \in Opens :
        (open[o] \in {"resolved", "queued", "opening"}) ~> (open[o] \in {"open", "answered"})

\* A requested shutdown completes, although BeginDrain may be lost.
ShutdownCompletes == signalled ~> (run = "stopped")

\* A superseded snapshot does not roll the Edge back: the sessions that a
\* reconciliation removes did not register under a newer snapshot than the one
\* it applies.
NoRollback ==
    [][run = "pruned" /\ run' = "notify" =>
          \A c \in sessions \ sessions' : basis[c] <= fetched]_vars

\* The registry is sound at every interleaving of registrations, revocations
\* and teardowns: one claim per tunnel, two maps that agree, and only sessions
\* an applied or newer snapshot grants (the registry gate of agent_transport).
RegistrySound == OneClaimPerTunnel /\ RegistryConsistent /\ RoutesAuthorized

\* Nothing waits forever on the registry: revoked sessions leave it, router
\* calls are answered and a shutdown completes (run_until_shutdown).
RegistryLive == RevokedUnrouted /\ OpenAnswered /\ ShutdownCompletes
=============================================================================
