----------------------------- MODULE RawIngress -----------------------------
(***************************************************************************)
(* Raw ingress routes of the Edge (crates/edge/src/raw_ingress.rs and      *)
(* admission.rs): RawIngressRouteManager with its table of routes, one     *)
(* task per route (run_route) that owns the listener, one task per routed  *)
(* connection (spawn_routed_connection), and the callers of add_route,     *)
(* remove_route, drain_route, wait_until_removed and shutdown.             *)
(*                                                                         *)
(* The router is the environment: an open call is answered at some time,   *)
(* an open stream may last forever, and the session that some routes       *)
(* target may disconnect.  Time is abstract: a deadline may pass at any    *)
(* moment.  Rejection counters are left out; a rejected connection changes *)
(* nothing else.                                                           *)
(***************************************************************************)
EXTENDS Naturals, FiniteSets

CONSTANTS Routes,         \* add_route calls; each names the route it creates
          SessionRoutes,  \* those whose target is a transport session
          PublicRoutes,   \* those exposed publicly, which admit per source address
          Conns,          \* routed connections (reused once released)
          Peers,          \* source addresses
          LastRouteId,    \* the largest route id; u64::MAX in the code
          MaxRoutes,      \* max_routes
          MaxConns,       \* max_concurrent_connections of a route
          MaxPerIp        \* max_connections_per_ip of a public route

ASSUME RoutesAssumption == 
    IsFiniteSet(Routes) /\ SessionRoutes \subseteq Routes /\ PublicRoutes \subseteq Routes
ASSUME ConnsAssumption == IsFiniteSet(Conns)
ASSUME LimitsAssumption ==
    /\ LastRouteId \in Nat \ {0} /\ MaxRoutes \in Nat \ {0}
    /\ MaxConns \in Nat \ {0} /\ MaxPerIp \in Nat \ {0}

VARIABLES
    table,      \* keys of ManagerState::routes
    stored,     \* those whose entry holds the task's JoinHandle
    shutdown,   \* the shutdown call; shutting_down is its leaving "up"
    aborting,   \* handles the shutdown call took out of the table
    routeIds,   \* the counter of route ids
    call,       \* where each add_route call stands
    task,       \* where each route task stands
    looked,     \* routes whose current poll has passed the stop flag and the target
    stop,       \* the route's stop flag (watch)
    status,     \* the route's reported state (watch)
    active,     \* the route's reported active_connections
    permits,    \* free permits of the route's semaphore
    perIp,      \* PeerAdmission of the route: connections per address
    conn, at, peer,     \* each connection task, its route and its address
    connected,  \* the session that SessionRoutes target is connected
    drainer,    \* a drain_route caller of each route
    waiter      \* a wait_until_removed caller of each route

managerVars == <<table, stored, shutdown, aborting, routeIds>>
routeVars == <<call, task, looked, stop, status>>
countVars == <<active, permits, perIp>>
connVars == <<conn, at, peer>>
callerVars == <<drainer, waiter>>
vars == <<managerVars, routeVars, countVars, connVars, connected, callerVars>>

None == "none"
Running == {"accepting", "draining", "removing"}
ConnsOf(r) == {c \in Conns : conn[c] # "free" /\ at[c] = r}

\* Every sender of the route's status watch is gone.
SendersGone(r) == task[r] \in {"gone", "aborted"} /\ ConnsOf(r) = {}

Init ==
    /\ table = {} /\ stored = {} /\ shutdown = "up" /\ aborting = {} /\ routeIds = 0
    /\ call = [r \in Routes |-> "none"] /\ task = [r \in Routes |-> "none"]
    /\ looked = {}
    /\ stop = [r \in Routes |-> FALSE] /\ status = [r \in Routes |-> "active"]
    /\ active = [r \in Routes |-> 0] /\ permits = [r \in Routes |-> MaxConns]
    /\ perIp = [r \in Routes |-> [p \in Peers |-> 0]]
    /\ conn = [c \in Conns |-> "free"]
    /\ at = [c \in Conns |-> None] /\ peer = [c \in Conns |-> None]
    /\ connected = TRUE
    /\ drainer = [r \in Routes |-> "idle"] /\ waiter = [r \in Routes |-> "idle"]

-----------------------------------------------------------------------------
(* add_route.                                                              *)

Reach(r, c) == call' = [call EXCEPT ![r] = c]

\* The first look at shutting_down, and at the target session.
BeginAdd(r) ==
    /\ call[r] = "none" /\ shutdown = "up"
    /\ r \in SessionRoutes => connected
    /\ Reach(r, "binding")
    /\ UNCHANGED <<managerVars, task, looked, stop, status, countVars, connVars, connected, callerVars>>

\* The listener is bound and the route gets its id, or one of the two fails.
BindRoute(r) ==
    /\ call[r] = "binding"
    /\ \/ routeIds < LastRouteId /\ routeIds' = routeIds + 1 /\ Reach(r, "named")
       \/ UNCHANGED routeIds /\ Reach(r, "failed")
    /\ UNCHANGED <<table, stored, shutdown, aborting, task, looked, stop, status, countVars, connVars,
                   connected, callerVars>>

HasRouteRoom == Cardinality(table) < MaxRoutes

\* The entry is inserted without a handle, unless a shutdown began meanwhile.
InsertRoute(r) ==
    /\ call[r] = "named"
    /\ IF shutdown = "up" /\ HasRouteRoom
         THEN table' = table \cup {r} /\ Reach(r, "inserted")
         ELSE UNCHANGED table /\ Reach(r, "failed")
    /\ UNCHANGED <<stored, shutdown, aborting, routeIds, task, looked, stop, status, countVars,
                   connVars, connected, callerVars>>

SpawnRoute(r) ==
    /\ call[r] = "inserted"
    /\ Reach(r, "spawned")
    /\ task' = [task EXCEPT ![r] = "accepting"]
    /\ UNCHANGED <<managerVars, looked, stop, status, countVars, connVars, connected, callerVars>>

\* The handle is stored if the entry is still there.
StoreHandle(r) ==
    /\ call[r] = "spawned"
    /\ Reach(r, "added")
    /\ stored' = IF r \in table THEN stored \cup {r} ELSE stored
    /\ UNCHANGED <<table, shutdown, aborting, routeIds, task, looked, stop, status, countVars,
                   connVars, connected, callerVars>>

-----------------------------------------------------------------------------
(* run_route.                                                              *)

\* The loop is left and the listener dropped.
LeaveLoop(r, s) ==
    /\ task[r] = "accepting"
    /\ task' = [task EXCEPT ![r] = "draining"]
    /\ status' = [status EXCEPT ![r] = s]
    /\ looked' = looked \ {r}
    /\ UNCHANGED <<managerVars, call, stop, countVars, connVars, connected, callerVars>>

\* The stop flag is set, or its sender is gone with the entry.
StopSeen(r) ==
    r \notin looked /\ (stop[r] \/ r \notin table) /\ LeaveLoop(r, "draining")

TargetGone(r) ==
    r \notin looked /\ r \in SessionRoutes /\ ~connected /\ LeaveLoop(r, "disconnected")

\* The select is biased: a poll looks at the stop flag, then at the target, and
\* only then at the listener.
LooksFirst(r) ==
    /\ task[r] = "accepting" /\ r \notin looked
    /\ ~stop[r] /\ r \in table
    /\ r \in SessionRoutes => connected
    /\ looked' = looked \cup {r}
    /\ UNCHANGED <<managerVars, call, task, stop, status, countVars, connVars, connected, callerVars>>

\* Nothing to accept, or a connection that is refused.
PollEnds(r) ==
    /\ r \in looked /\ task[r] = "accepting"
    /\ looked' = looked \ {r}
    /\ UNCHANGED <<managerVars, call, task, stop, status, countVars, connVars, connected, callerVars>>

AcceptFails(r) == r \in looked /\ LeaveLoop(r, status[r])

\* PeerAdmission::try_acquire; a loopback route has no PeerAdmission.
PeerAdmits(r, p) == r \in PublicRoutes => perIp[r][p] < MaxPerIp
CountPeer(r, p) ==
    perIp' = IF r \in PublicRoutes THEN [perIp EXCEPT ![r][p] = @ + 1] ELSE perIp

\* A rejection per address that keeps the route's permit.
AcceptLeaksPermit(r, c, p) ==
    /\ r \in looked /\ task[r] = "accepting" /\ conn[c] = "free"
    /\ looked' = looked \ {r}
    /\ permits[r] > 0
    /\ permits' = [permits EXCEPT ![r] = @ - 1]
    /\ IF PeerAdmits(r, p)
         THEN /\ CountPeer(r, p)
              /\ active' = [active EXCEPT ![r] = @ + 1]
              /\ conn' = [conn EXCEPT ![c] = "opening"]
              /\ at' = [at EXCEPT ![c] = r] /\ peer' = [peer EXCEPT ![c] = p]
         ELSE UNCHANGED <<perIp, active, connVars>>
    /\ UNCHANGED <<managerVars, call, task, stop, status, connected, callerVars>>

\* A connection is admitted by the route's semaphore and by its address; both
\* permits move into its task.
AcceptConn(r, c, p) ==
    /\ r \in looked /\ task[r] = "accepting" /\ conn[c] = "free"
    /\ looked' = looked \ {r}
    /\ permits[r] > 0 /\ PeerAdmits(r, p)
    /\ permits' = [permits EXCEPT ![r] = @ - 1]
    /\ CountPeer(r, p)
    /\ active' = [active EXCEPT ![r] = @ + 1]
    /\ conn' = [conn EXCEPT ![c] = "opening"]
    /\ at' = [at EXCEPT ![c] = r] /\ peer' = [peer EXCEPT ![c] = p]
    /\ UNCHANGED <<managerVars, call, task, stop, status, connected, callerVars>>

\* The last connection task was joined.
RouteEmpty(r) ==
    /\ task[r] = "draining" /\ ConnsOf(r) = {}
    /\ task' = [task EXCEPT ![r] = "removing"]
    /\ status' = [status EXCEPT ![r] = "removed"]
    /\ UNCHANGED <<managerVars, call, looked, stop, countVars, connVars, connected, callerVars>>

\* The task takes the manager's lock and removes its own entry.
RouteRemoved(r) ==
    /\ task[r] = "removing"
    /\ task' = [task EXCEPT ![r] = "gone"]
    /\ table' = table \ {r} /\ stored' = stored \ {r}
    /\ UNCHANGED <<shutdown, aborting, routeIds, call, looked, stop, status, countVars, connVars,
                   connected, callerVars>>

-----------------------------------------------------------------------------
(* A routed connection.                                                    *)

ConnTo(c, from, to) == conn[c] = from /\ conn' = [conn EXCEPT ![c] = to]

\* The router answers the open call.
ConnOpens(c) ==
    /\ \E s \in {"open", "closing"} : ConnTo(c, "opening", s)
    /\ UNCHANGED <<managerVars, routeVars, countVars, at, peer, connected, callerVars>>

\* wait_closed returns.
ConnCloses(c) ==
    /\ ConnTo(c, "open", "closing")
    /\ UNCHANGED <<managerVars, routeVars, countVars, at, peer, connected, callerVars>>

ConnCounted(c) ==
    /\ ConnTo(c, "closing", "counted")
    /\ active' = [active EXCEPT ![at[c]] = IF @ = 0 THEN 0 ELSE @ - 1]
    /\ UNCHANGED <<managerVars, routeVars, permits, perIp, at, peer, connected, callerVars>>

\* PeerAdmissionPermit::drop.
ReleasePeer(c) == perIp' = [perIp EXCEPT ![at[c]][peer[c]] = IF @ = 0 THEN 0 ELSE @ - 1]

ConnDropsPeer(c) ==
    /\ ConnTo(c, "counted", "unpeered")
    /\ ReleasePeer(c)
    /\ UNCHANGED <<managerVars, routeVars, active, permits, at, peer, connected, callerVars>>

ConnDropsPermit(c) ==
    /\ ConnTo(c, "unpeered", "free")
    /\ permits' = [permits EXCEPT ![at[c]] = @ + 1]
    /\ at' = [at EXCEPT ![c] = None] /\ peer' = [peer EXCEPT ![c] = None]
    /\ UNCHANGED <<managerVars, routeVars, active, perIp, connected, callerVars>>

\* The JoinSet of an aborted route aborts the connection at its await.  The order
\* of the two releases cannot be observed: the route admits no more.
ConnAborted(c) ==
    /\ conn[c] \in {"opening", "open"} /\ task[at[c]] = "aborted"
    /\ conn' = [conn EXCEPT ![c] = "unpeered"]
    /\ ReleasePeer(c)
    /\ UNCHANGED <<managerVars, routeVars, active, permits, at, peer, connected, callerVars>>

SessionDisconnects ==
    /\ connected /\ connected' = FALSE
    /\ UNCHANGED <<managerVars, routeVars, countVars, connVars, callerVars>>

-----------------------------------------------------------------------------
(* remove_route, drain_route and wait_until_removed.                       *)

\* The flag is sent after the lock is released: the step is the sending, which
\* changes nothing for a route that has gone meanwhile.
RemoveRoute(r) ==
    /\ r \in table
    /\ stop' = [stop EXCEPT ![r] = TRUE]
    /\ UNCHANGED <<managerVars, call, task, looked, status, countVars, connVars, connected, callerVars>>

DrainCall(r) ==
    /\ drainer[r] = "idle" /\ r \in table
    /\ stop' = [stop EXCEPT ![r] = TRUE]
    /\ drainer' = [drainer EXCEPT ![r] = "waiting"]
    /\ UNCHANGED <<managerVars, call, task, looked, status, countVars, connVars, connected, waiter>>

\* The route was removed, its status watch is closed, or the deadline passed.
DrainReturns(r) ==
    /\ drainer[r] = "waiting"
    /\ \/ drainer' = [drainer EXCEPT ![r] = "idle"]
       \/ /\ status[r] # "removed" /\ SendersGone(r)
          /\ drainer' = [drainer EXCEPT ![r] = "stopped"]
    /\ UNCHANGED <<managerVars, routeVars, countVars, connVars, connected, waiter>>

WaitCall(r) ==
    /\ waiter[r] = "idle" /\ r \in table
    /\ waiter' = [waiter EXCEPT ![r] = "waiting"]
    /\ UNCHANGED <<managerVars, routeVars, countVars, connVars, connected, drainer>>

\* There is no deadline here.
WaitReturns(r) ==
    /\ waiter[r] = "waiting"
    /\ status[r] = "removed" \/ SendersGone(r)
    /\ waiter' = [waiter EXCEPT ![r] =
                    IF status[r] # "removed" /\ r \in table THEN "stopped" ELSE "idle"]
    /\ UNCHANGED <<managerVars, routeVars, countVars, connVars, connected, drainer>>

-----------------------------------------------------------------------------
(* shutdown.                                                               *)

BeginShutdown ==
    /\ shutdown = "up" /\ shutdown' = "draining"
    /\ stop' = [r \in Routes |-> stop[r] \/ r \in table]
    /\ UNCHANGED <<table, stored, aborting, routeIds, call, task, looked, status, countVars, connVars,
                   connected, callerVars>>

ShutdownDrained ==
    /\ shutdown = "draining" /\ table = {}
    /\ shutdown' = "drained"
    /\ UNCHANGED <<table, stored, aborting, routeIds, routeVars, countVars, connVars,
                   connected, callerVars>>

\* The drain deadline passed: the table is emptied and its handles taken.
ShutdownDeadline ==
    /\ shutdown = "draining"
    /\ shutdown' = "forcing"
    /\ aborting' = stored
    /\ table' = {} /\ stored' = {}
    /\ UNCHANGED <<routeIds, routeVars, countVars, connVars, connected, callerVars>>

\* Handles that are awaited and not aborted.
AbortRouteNever(r) == FALSE /\ UNCHANGED vars

AbortRoute(r) ==
    /\ shutdown = "forcing" /\ r \in aborting
    /\ task[r] \in Running
    /\ task' = [task EXCEPT ![r] = "aborted"]
    /\ looked' = looked \ {r}
    /\ UNCHANGED <<managerVars, call, stop, status, countVars, connVars, connected, callerVars>>

ShutdownForced ==
    /\ shutdown = "forcing"
    /\ \A r \in aborting : task[r] \notin Running
    /\ shutdown' = "forced"
    /\ UNCHANGED <<table, stored, aborting, routeIds, routeVars, countVars, connVars,
                   connected, callerVars>>

-----------------------------------------------------------------------------
RouteStep(r) ==
    \/ StopSeen(r) \/ TargetGone(r) \/ PollEnds(r) \/ RouteEmpty(r) \/ RouteRemoved(r)
AddStep(r) == BindRoute(r) \/ InsertRoute(r) \/ SpawnRoute(r) \/ StoreHandle(r)
ConnStep(c) ==
    ConnOpens(c) \/ ConnCounted(c) \/ ConnDropsPeer(c) \/ ConnDropsPermit(c) \/ ConnAborted(c)
ShutdownStep ==
    \/ ShutdownDrained \/ ShutdownDeadline \/ ShutdownForced
    \/ \E r \in Routes : AbortRoute(r)

Next ==
    \/ \E r \in Routes :
          \/ BeginAdd(r) \/ AddStep(r) \/ RouteStep(r) \/ LooksFirst(r) \/ AcceptFails(r)
          \/ RemoveRoute(r) \/ DrainCall(r) \/ DrainReturns(r) \/ WaitCall(r) \/ WaitReturns(r)
          \/ \E c \in Conns, p \in Peers : AcceptConn(r, c, p)
    \/ \E c \in Conns : ConnStep(c) \/ ConnCloses(c)
    \/ SessionDisconnects \/ BeginShutdown \/ ShutdownStep

\* Tasks are polled, and stream_open_timeout bounds an open call.  A route inserted
\* in the table is spawned without an await between; the other steps of add_route
\* may never come, as its caller may drop it.  Streams need not close.
Fairness ==
    /\ \A r \in Routes :
          WF_vars(RouteStep(r)) /\ WF_vars(SpawnRoute(r)) /\ WF_vars(WaitReturns(r))
    /\ \A c \in Conns : WF_vars(ConnStep(c))
    /\ WF_vars(ShutdownStep)

Spec == Init /\ [][Next]_vars /\ Fairness

-----------------------------------------------------------------------------
(* Properties.                                                             *)

\* Types of the manager, the routes and the connections; the table keeps to
\* max_routes.
TypeOK ==
    /\ table \subseteq Routes /\ stored \subseteq Routes /\ aborting \subseteq Routes
    /\ Cardinality(table) <= MaxRoutes
    /\ shutdown \in {"up", "draining", "forcing", "drained", "forced"}
    /\ routeIds \in 0 .. LastRouteId
    /\ call \in [Routes -> {"none", "binding", "named", "inserted", "spawned", "added", "failed"}]
    /\ task \in [Routes -> {"none", "gone", "aborted"} \cup Running]
    /\ looked \subseteq Routes /\ stop \in [Routes -> BOOLEAN]
    /\ status \in [Routes -> {"active", "draining", "disconnected", "removed"}]
    /\ active \in [Routes -> Nat] /\ permits \in [Routes -> Nat]
    /\ perIp \in [Routes -> [Peers -> Nat]]
    /\ conn \in [Conns -> {"free", "opening", "open", "closing", "counted", "unpeered"}]
    /\ at \in [Conns -> Routes \cup {None}] /\ peer \in [Conns -> Peers \cup {None}]
    /\ connected \in BOOLEAN
    /\ drainer \in [Routes -> {"idle", "waiting", "stopped"}]
    /\ waiter \in [Routes -> {"idle", "waiting", "stopped"}]

\* The connections that hold an admission of address p, and those not yet
\* reported closed.
OfPeer(r, p) == {c \in ConnsOf(r) : peer[c] = p /\ conn[c] # "unpeered"}
Unreported(r) == {c \in ConnsOf(r) : conn[c] \in {"opening", "open", "closing"}}

\* No admission is leaked or given twice, whether a connection is refused,
\* closes or is aborted: the permits of a route and its connections add up to
\* its limit, PeerAdmission counts exactly the connections of each address, and
\* active_connections, until an abort freezes it, those not yet reported closed.
AdmissionExact ==
    \A r \in Routes :
        /\ permits[r] + Cardinality(ConnsOf(r)) = MaxConns
        /\ r \in PublicRoutes => \A p \in Peers :
              perIp[r][p] <= MaxPerIp /\ perIp[r][p] = Cardinality(OfPeer(r, p))
        /\ task[r] # "aborted" => active[r] = Cardinality(Unreported(r))

\* The table tells the truth until a shutdown is forced: a running route is
\* listed, so it can be observed, removed and drained, and a listed route runs
\* or is about to be spawned by its add_route call.
TableMatchesTasks ==
    shutdown \notin {"forcing", "forced"} =>
        \A r \in Routes : r \in table <=> call[r] = "inserted" \/ task[r] \in Running

\* A graceful shutdown leaves no route and no connection behind and no add_route
\* in flight can bring one back; after a forced one only a route whose handle
\* its add_route call had not stored yet still runs, and it was told to stop.
ShutdownFinal ==
    /\ shutdown = "drained" =>
          \A r \in Routes : task[r] \notin Running /\ call[r] # "inserted" /\ ConnsOf(r) = {}
    /\ shutdown = "forced" =>
          \A r \in Routes : task[r] \in Running => r \notin aborting /\ stop[r]

\* RouteTaskStopped is reported only for a route that a forced shutdown cut
\* off: wait_until_removed never reports it, drain_route not before.
NoSpuriousStop ==
    \A r \in Routes :
        /\ waiter[r] # "stopped"
        /\ drainer[r] = "stopped" => task[r] = "aborted"

\* A requested shutdown returns, although streams may never close.
ShutdownReturns == (shutdown = "draining") ~> (shutdown \in {"drained", "forced"})

\* A route that was told to stop leaves the table once its streams are closed.
StoppedRouteLeaves ==
    \A r \in Routes : (stop[r] /\ r \in table) ~> (r \notin table \/ ConnsOf(r) # {})

\* Nobody waits forever for a route whose task is over, even if the task was
\* aborted with streams open.
WaitersReturn ==
    \A r \in Routes :
        (waiter[r] = "waiting" /\ task[r] \in {"gone", "aborted"}) ~> (waiter[r] # "waiting")

\* Admissions, table, tasks and callers of the raw ingress agree at every
\* interleaving, the forced shutdown included (RawIngressManager).
IngressSound == AdmissionExact /\ TableMatchesTasks /\ ShutdownFinal /\ NoSpuriousStop

\* Nothing waits forever on a route: a shutdown returns, a stopped route leaves
\* the table, and a waiter is released (drain_route, wait_until_removed).
IngressLive == ShutdownReturns /\ StoppedRouteLeaves /\ WaitersReturn
=============================================================================
