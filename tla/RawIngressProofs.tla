-------------------------- MODULE RawIngressProofs --------------------------
(***************************************************************************)
(* Proofs about the raw ingress routes: types and the route limit, the     *)
(* truth of the table, what a shutdown leaves behind, and the answers of   *)
(* drain_route and wait_until_removed.                                     *)
(***************************************************************************)
EXTENDS RawIngress, FiniteSetTheorems, TLAPS

Forced == shutdown \in {"forcing", "forced"}

\* A handle is stored, and later aborted, only by a finished add_route, and a
\* task exists exactly from its spawn on.
HandlesInv ==
    /\ stored \subseteq table
    /\ \A r \in stored \cup aborting : call[r] = "added"
    /\ \A r \in Routes : call[r] \in {"spawned", "added"} <=> task[r] # "none"

\* The table against the tasks through the phases of a shutdown.
TableInv ==
    /\ Forced => table = {}
    /\ ~Forced => aborting = {} /\ \A r \in Routes : task[r] # "aborted"
    /\ ~Forced => \A r \in Routes : r \in table <=> call[r] = "inserted" \/ task[r] \in Running
    /\ shutdown = "drained" => table = {}
    /\ shutdown = "forced" => \A r \in aborting : task[r] \notin Running
    /\ shutdown # "up" =>
          \A r \in Routes : (call[r] = "inserted" \/ task[r] \in Running) => stop[r]

\* A task that emptied its route has reported it.
ReportInv == \A r \in Routes : task[r] \in {"removing", "gone"} => status[r] = "removed"

\* A connection belongs to a route whose task may still hold it.
ConnInv ==
    \A c \in Conns : conn[c] # "free" =>
        /\ at[c] \in Routes /\ peer[c] \in Peers
        /\ task[at[c]] \in {"accepting", "draining", "aborted"}

RouteInv == TypeOK /\ HandlesInv /\ TableInv /\ ReportInv /\ ConnInv /\ NoSpuriousStop
-----------------------------------------------------------------------------
(* One step.                                                               *)

\* TypeOK without the limit on routes.
TypeFacts ==
    /\ table \subseteq Routes /\ stored \subseteq Routes /\ aborting \subseteq Routes
    /\ shutdown \in {"up", "draining", "forcing", "drained", "forced"}
    /\ routeIds \in 0 .. LastRouteId
    /\ call \in [Routes -> {"none", "binding", "named", "inserted", "spawned", "added", "failed"}]
    /\ task \in [Routes -> {"none", "gone", "aborted"} \cup Running]
    /\ looked \subseteq Routes /\ stop \in [Routes -> BOOLEAN]
    /\ status \in [Routes -> {"active", "draining", "disconnected", "removed"}]

CountFacts ==
    /\ active \in [Routes -> Nat] /\ permits \in [Routes -> Nat]
    /\ perIp \in [Routes -> [Peers -> Nat]]

ConnFacts ==
    /\ conn \in [Conns -> {"free", "opening", "open", "closing", "counted", "unpeered"}]
    /\ at \in [Conns -> Routes \cup {None}] /\ peer \in [Conns -> Peers \cup {None}]

CallerFacts ==
    /\ connected \in BOOLEAN
    /\ drainer \in [Routes -> {"idle", "waiting", "stopped"}]
    /\ waiter \in [Routes -> {"idle", "waiting", "stopped"}]

\* The parts of TypeOK.
LEMMA TypeParts ==
    TypeOK <=> /\ TypeFacts /\ CountFacts /\ ConnFacts /\ CallerFacts
               /\ Cardinality(table) <= MaxRoutes
BY DEF TypeOK, TypeFacts, CountFacts, ConnFacts, CallerFacts

\* The same of the next state.
LEMMA TypePartsNext ==
    TypeOK' <=> /\ TypeFacts' /\ CountFacts' /\ ConnFacts' /\ CallerFacts'
                /\ Cardinality(table)' <= MaxRoutes
BY DEF TypeOK, TypeFacts, CountFacts, ConnFacts, CallerFacts

\* Every step keeps the types of the manager's and the routes' state.
LEMMA TypeFactsStep ==
    ASSUME TypeFacts, [Next]_vars
    PROVE  TypeFacts'
<1>1. ASSUME NEW r \in Routes, BeginAdd(r) PROVE TypeFacts'
  BY <1>1, LimitsAssumption DEF BeginAdd, Reach, TypeFacts, Running, vars, managerVars,
      routeVars, countVars, connVars, callerVars
<1>2. ASSUME NEW r \in Routes, BindRoute(r) PROVE TypeFacts'
  BY <1>2, LimitsAssumption DEF BindRoute, Reach, TypeFacts, Running, vars, managerVars,
      routeVars, countVars, connVars, callerVars
<1>3. ASSUME NEW r \in Routes, InsertRoute(r) PROVE TypeFacts'
  BY <1>3, LimitsAssumption DEF InsertRoute, Reach, HasRouteRoom, TypeFacts, Running, vars,
      managerVars, routeVars, countVars, connVars, callerVars
<1>4. ASSUME NEW r \in Routes, SpawnRoute(r) PROVE TypeFacts'
  BY <1>4, LimitsAssumption DEF SpawnRoute, Reach, TypeFacts, Running, vars, managerVars,
      routeVars, countVars, connVars, callerVars
<1>5. ASSUME NEW r \in Routes, StoreHandle(r) PROVE TypeFacts'
  BY <1>5, LimitsAssumption DEF StoreHandle, Reach, TypeFacts, Running, vars, managerVars,
      routeVars, countVars, connVars, callerVars
<1>6. ASSUME NEW r \in Routes, StopSeen(r) PROVE TypeFacts'
  BY <1>6, LimitsAssumption DEF StopSeen, LeaveLoop, TypeFacts, Running, vars, managerVars,
      routeVars, countVars, connVars, callerVars
<1>7. ASSUME NEW r \in Routes, TargetGone(r) PROVE TypeFacts'
  BY <1>7, LimitsAssumption DEF TargetGone, LeaveLoop, TypeFacts, Running, vars, managerVars,
      routeVars, countVars, connVars, callerVars
<1>8. ASSUME NEW r \in Routes, LooksFirst(r) PROVE TypeFacts'
  BY <1>8, LimitsAssumption DEF LooksFirst, TypeFacts, Running, vars, managerVars, routeVars,
      countVars, connVars, callerVars
<1>9. ASSUME NEW r \in Routes, PollEnds(r) PROVE TypeFacts'
  BY <1>9, LimitsAssumption DEF PollEnds, TypeFacts, Running, vars, managerVars, routeVars,
      countVars, connVars, callerVars
<1>10. ASSUME NEW r \in Routes, AcceptFails(r) PROVE TypeFacts'
  BY <1>10, LimitsAssumption DEF AcceptFails, LeaveLoop, TypeFacts, Running, vars, managerVars,
      routeVars, countVars, connVars, callerVars
<1>11. ASSUME NEW r \in Routes, NEW c \in Conns, NEW p \in Peers, AcceptConn(r, c,
    p) PROVE TypeFacts'
  BY <1>11, LimitsAssumption DEF AcceptConn, PeerAdmits, CountPeer, TypeFacts, Running, vars,
      managerVars, routeVars, countVars, connVars, callerVars
<1>12. ASSUME NEW r \in Routes, RouteEmpty(r) PROVE TypeFacts'
  BY <1>12, LimitsAssumption DEF RouteEmpty, ConnsOf, TypeFacts, Running, vars, managerVars,
      routeVars, countVars, connVars, callerVars
<1>13. ASSUME NEW r \in Routes, RouteRemoved(r) PROVE TypeFacts'
  BY <1>13, LimitsAssumption DEF RouteRemoved, TypeFacts, Running, vars, managerVars, routeVars,
      countVars, connVars, callerVars
<1>14. ASSUME NEW c \in Conns, ConnOpens(c) PROVE TypeFacts'
  BY <1>14, LimitsAssumption DEF ConnOpens, ConnTo, TypeFacts, Running, vars, managerVars,
      routeVars, countVars, connVars, callerVars
<1>15. ASSUME NEW c \in Conns, ConnCloses(c) PROVE TypeFacts'
  BY <1>15, LimitsAssumption DEF ConnCloses, ConnTo, TypeFacts, Running, vars, managerVars,
      routeVars, countVars, connVars, callerVars
<1>16. ASSUME NEW c \in Conns, ConnCounted(c) PROVE TypeFacts'
  BY <1>16, LimitsAssumption DEF ConnCounted, ConnTo, TypeFacts, Running, vars, managerVars,
      routeVars, countVars, connVars, callerVars
<1>17. ASSUME NEW c \in Conns, ConnDropsPeer(c) PROVE TypeFacts'
  BY <1>17, LimitsAssumption DEF ConnDropsPeer, ConnTo, ReleasePeer, TypeFacts, Running, vars,
      managerVars, routeVars, countVars, connVars, callerVars
<1>18. ASSUME NEW c \in Conns, ConnDropsPermit(c) PROVE TypeFacts'
  BY <1>18, LimitsAssumption DEF ConnDropsPermit, ConnTo, TypeFacts, Running, vars, managerVars,
      routeVars, countVars, connVars, callerVars
<1>19. ASSUME NEW c \in Conns, ConnAborted(c) PROVE TypeFacts'
  BY <1>19, LimitsAssumption DEF ConnAborted, ReleasePeer, TypeFacts, Running, vars, managerVars,
      routeVars, countVars, connVars, callerVars
<1>20. ASSUME SessionDisconnects PROVE TypeFacts'
  BY <1>20, LimitsAssumption DEF SessionDisconnects, TypeFacts, Running, vars, managerVars,
      routeVars, countVars, connVars, callerVars
<1>21. ASSUME NEW r \in Routes, RemoveRoute(r) PROVE TypeFacts'
  BY <1>21, LimitsAssumption DEF RemoveRoute, TypeFacts, Running, vars, managerVars, routeVars,
      countVars, connVars, callerVars
<1>22. ASSUME NEW r \in Routes, DrainCall(r) PROVE TypeFacts'
  BY <1>22, LimitsAssumption DEF DrainCall, TypeFacts, Running, vars, managerVars, routeVars,
      countVars, connVars, callerVars
<1>23. ASSUME NEW r \in Routes, DrainReturns(r) PROVE TypeFacts'
  BY <1>23, LimitsAssumption DEF DrainReturns, SendersGone, TypeFacts, Running, vars,
      managerVars, routeVars, countVars, connVars, callerVars
<1>24. ASSUME NEW r \in Routes, WaitCall(r) PROVE TypeFacts'
  BY <1>24, LimitsAssumption DEF WaitCall, TypeFacts, Running, vars, managerVars, routeVars,
      countVars, connVars, callerVars
<1>25. ASSUME NEW r \in Routes, WaitReturns(r) PROVE TypeFacts'
  BY <1>25, LimitsAssumption DEF WaitReturns, SendersGone, TypeFacts, Running, vars, managerVars,
      routeVars, countVars, connVars, callerVars
<1>26. ASSUME BeginShutdown PROVE TypeFacts'
  BY <1>26, LimitsAssumption DEF BeginShutdown, TypeFacts, Running, vars, managerVars, routeVars,
      countVars, connVars, callerVars
<1>27. ASSUME ShutdownDrained PROVE TypeFacts'
  BY <1>27, LimitsAssumption DEF ShutdownDrained, TypeFacts, Running, vars, managerVars,
      routeVars, countVars, connVars, callerVars
<1>28. ASSUME ShutdownDeadline PROVE TypeFacts'
  BY <1>28, LimitsAssumption DEF ShutdownDeadline, TypeFacts, Running, vars, managerVars,
      routeVars, countVars, connVars, callerVars
<1>29. ASSUME NEW r \in Routes, AbortRoute(r) PROVE TypeFacts'
  BY <1>29, LimitsAssumption DEF AbortRoute, TypeFacts, Running, vars, managerVars, routeVars,
      countVars, connVars, callerVars
<1>30. ASSUME ShutdownForced PROVE TypeFacts'
  BY <1>30, LimitsAssumption DEF ShutdownForced, TypeFacts, Running, vars, managerVars,
      routeVars, countVars, connVars, callerVars
<1>31. CASE UNCHANGED vars
  BY <1>31 DEF TypeFacts, Running, vars, managerVars, routeVars, countVars, connVars, callerVars
<1> QED BY Zenon, <1>1, <1>2, <1>3, <1>4, <1>5, <1>6, <1>7, <1>8, <1>9, <1>10, <1>11, <1>12, <1>13,
    <1>14, <1>15, <1>16, <1>17, <1>18, <1>19, <1>20, <1>21, <1>22, <1>23, <1>24, <1>25, <1>26,
        <1>27, <1>28, <1>29, <1>30, <1>31 DEF Next, RouteStep, AddStep, ConnStep, ShutdownStep

\* Releasing the admission of an address keeps the counts natural numbers.
LEMMA ReleaseType ==
    ASSUME CountFacts, NEW c, at[c] \in Routes, peer[c] \in Peers, ReleasePeer(c)
    PROVE  perIp' \in [Routes -> [Peers -> Nat]]
<1> DEFINE n == perIp[at[c]][peer[c]]
           m == IF n = 0 THEN 0 ELSE n - 1
<1>1. n \in Nat
  BY DEF CountFacts
<1>2. m \in Nat
  BY <1>1
<1>3. perIp' = [perIp EXCEPT ![at[c]] = [perIp[at[c]] EXCEPT ![peer[c]] = m]]
  BY DEF ReleasePeer, CountFacts
<1> HIDE DEF m
<1>4. [perIp[at[c]] EXCEPT ![peer[c]] = m] \in [Peers -> Nat]
  BY <1>2 DEF CountFacts
<1> QED BY <1>3, <1>4 DEF CountFacts

\* Every step keeps the counters natural numbers.
LEMMA CountFactsStep ==
    ASSUME CountFacts, ConnFacts, ConnInv, [Next]_vars
    PROVE  CountFacts'
<1>1. ASSUME NEW r \in Routes, BeginAdd(r) PROVE CountFacts'
  BY <1>1, LimitsAssumption DEF BeginAdd, Reach, CountFacts, ConnFacts, ConnInv, vars,
      managerVars, routeVars, countVars, connVars, callerVars
<1>2. ASSUME NEW r \in Routes, BindRoute(r) PROVE CountFacts'
  BY <1>2, LimitsAssumption DEF BindRoute, Reach, CountFacts, ConnFacts, ConnInv, vars,
      managerVars, routeVars, countVars, connVars, callerVars
<1>3. ASSUME NEW r \in Routes, InsertRoute(r) PROVE CountFacts'
  BY <1>3, LimitsAssumption DEF InsertRoute, Reach, HasRouteRoom, CountFacts, ConnFacts, ConnInv,
      vars, managerVars, routeVars, countVars, connVars, callerVars
<1>4. ASSUME NEW r \in Routes, SpawnRoute(r) PROVE CountFacts'
  BY <1>4, LimitsAssumption DEF SpawnRoute, Reach, CountFacts, ConnFacts, ConnInv, vars,
      managerVars, routeVars, countVars, connVars, callerVars
<1>5. ASSUME NEW r \in Routes, StoreHandle(r) PROVE CountFacts'
  BY <1>5, LimitsAssumption DEF StoreHandle, Reach, CountFacts, ConnFacts, ConnInv, vars,
      managerVars, routeVars, countVars, connVars, callerVars
<1>6. ASSUME NEW r \in Routes, StopSeen(r) PROVE CountFacts'
  BY <1>6, LimitsAssumption DEF StopSeen, LeaveLoop, CountFacts, ConnFacts, ConnInv, vars,
      managerVars, routeVars, countVars, connVars, callerVars
<1>7. ASSUME NEW r \in Routes, TargetGone(r) PROVE CountFacts'
  BY <1>7, LimitsAssumption DEF TargetGone, LeaveLoop, CountFacts, ConnFacts, ConnInv, vars,
      managerVars, routeVars, countVars, connVars, callerVars
<1>8. ASSUME NEW r \in Routes, LooksFirst(r) PROVE CountFacts'
  BY <1>8, LimitsAssumption DEF LooksFirst, CountFacts, ConnFacts, ConnInv, vars, managerVars,
      routeVars, countVars, connVars, callerVars
<1>9. ASSUME NEW r \in Routes, PollEnds(r) PROVE CountFacts'
  BY <1>9, LimitsAssumption DEF PollEnds, CountFacts, ConnFacts, ConnInv, vars, managerVars,
      routeVars, countVars, connVars, callerVars
<1>10. ASSUME NEW r \in Routes, AcceptFails(r) PROVE CountFacts'
  BY <1>10, LimitsAssumption DEF AcceptFails, LeaveLoop, CountFacts, ConnFacts, ConnInv, vars,
      managerVars, routeVars, countVars, connVars, callerVars
<1>11. ASSUME NEW r \in Routes, NEW c \in Conns, NEW p \in Peers, AcceptConn(r, c,
    p) PROVE CountFacts'
  BY <1>11, LimitsAssumption DEF AcceptConn, PeerAdmits, CountPeer, CountFacts, ConnFacts,
      ConnInv, vars, managerVars, routeVars, countVars, connVars, callerVars
<1>12. ASSUME NEW r \in Routes, RouteEmpty(r) PROVE CountFacts'
  BY <1>12, LimitsAssumption DEF RouteEmpty, ConnsOf, CountFacts, ConnFacts, ConnInv, vars,
      managerVars, routeVars, countVars, connVars, callerVars
<1>13. ASSUME NEW r \in Routes, RouteRemoved(r) PROVE CountFacts'
  BY <1>13, LimitsAssumption DEF RouteRemoved, CountFacts, ConnFacts, ConnInv, vars, managerVars,
      routeVars, countVars, connVars, callerVars
<1>14. ASSUME NEW c \in Conns, ConnOpens(c) PROVE CountFacts'
  BY <1>14, LimitsAssumption DEF ConnOpens, ConnTo, CountFacts, ConnFacts, ConnInv, vars,
      managerVars, routeVars, countVars, connVars, callerVars
<1>15. ASSUME NEW c \in Conns, ConnCloses(c) PROVE CountFacts'
  BY <1>15, LimitsAssumption DEF ConnCloses, ConnTo, CountFacts, ConnFacts, ConnInv, vars,
      managerVars, routeVars, countVars, connVars, callerVars
<1>16. ASSUME NEW c \in Conns, ConnCounted(c) PROVE CountFacts'
  <2>1. at[c] \in Routes
    BY <1>16 DEF ConnCounted, ConnTo, ConnInv
  <2>2. active[at[c]] \in Nat /\ (IF active[at[c]] = 0 THEN 0 ELSE active[at[c]] - 1) \in Nat
    BY <2>1 DEF CountFacts
  <2>3. /\ active' = [active EXCEPT ![at[c]] = IF active[at[c]] = 0 THEN 0 ELSE active[at[c]] - 1]
        /\ permits' = permits /\ perIp' = perIp
    BY <1>16 DEF ConnCounted
  <2> QED BY <2>1, <2>2, <2>3 DEF CountFacts
<1>17. ASSUME NEW c \in Conns, ConnDropsPeer(c) PROVE CountFacts'
  <2>1. at[c] \in Routes /\ peer[c] \in Peers
    BY <1>17 DEF ConnDropsPeer, ConnTo, ConnInv
  <2>2. /\ ReleasePeer(c) /\ permits' = permits /\ active' = active
    BY <1>17 DEF ConnDropsPeer
  <2> QED BY <2>1, <2>2, ReleaseType DEF CountFacts
<1>18. ASSUME NEW c \in Conns, ConnDropsPermit(c) PROVE CountFacts'
  BY <1>18, LimitsAssumption DEF ConnDropsPermit, ConnTo, CountFacts, ConnFacts, ConnInv, vars,
      managerVars, routeVars, countVars, connVars, callerVars
<1>19. ASSUME NEW c \in Conns, ConnAborted(c) PROVE CountFacts'
  <2>1. at[c] \in Routes /\ peer[c] \in Peers
    BY <1>19 DEF ConnAborted, ConnInv
  <2>2. /\ ReleasePeer(c) /\ permits' = permits /\ active' = active
    BY <1>19 DEF ConnAborted
  <2> QED BY <2>1, <2>2, ReleaseType DEF CountFacts
<1>20. ASSUME SessionDisconnects PROVE CountFacts'
  BY <1>20, LimitsAssumption DEF SessionDisconnects, CountFacts, ConnFacts, ConnInv, vars,
      managerVars, routeVars, countVars, connVars, callerVars
<1>21. ASSUME NEW r \in Routes, RemoveRoute(r) PROVE CountFacts'
  BY <1>21, LimitsAssumption DEF RemoveRoute, CountFacts, ConnFacts, ConnInv, vars, managerVars,
      routeVars, countVars, connVars, callerVars
<1>22. ASSUME NEW r \in Routes, DrainCall(r) PROVE CountFacts'
  BY <1>22, LimitsAssumption DEF DrainCall, CountFacts, ConnFacts, ConnInv, vars, managerVars,
      routeVars, countVars, connVars, callerVars
<1>23. ASSUME NEW r \in Routes, DrainReturns(r) PROVE CountFacts'
  BY <1>23, LimitsAssumption DEF DrainReturns, SendersGone, CountFacts, ConnFacts, ConnInv, vars,
      managerVars, routeVars, countVars, connVars, callerVars
<1>24. ASSUME NEW r \in Routes, WaitCall(r) PROVE CountFacts'
  BY <1>24, LimitsAssumption DEF WaitCall, CountFacts, ConnFacts, ConnInv, vars, managerVars,
      routeVars, countVars, connVars, callerVars
<1>25. ASSUME NEW r \in Routes, WaitReturns(r) PROVE CountFacts'
  BY <1>25, LimitsAssumption DEF WaitReturns, SendersGone, CountFacts, ConnFacts, ConnInv, vars,
      managerVars, routeVars, countVars, connVars, callerVars
<1>26. ASSUME BeginShutdown PROVE CountFacts'
  BY <1>26, LimitsAssumption DEF BeginShutdown, CountFacts, ConnFacts, ConnInv, vars,
      managerVars, routeVars, countVars, connVars, callerVars
<1>27. ASSUME ShutdownDrained PROVE CountFacts'
  BY <1>27, LimitsAssumption DEF ShutdownDrained, CountFacts, ConnFacts, ConnInv, vars,
      managerVars, routeVars, countVars, connVars, callerVars
<1>28. ASSUME ShutdownDeadline PROVE CountFacts'
  BY <1>28, LimitsAssumption DEF ShutdownDeadline, CountFacts, ConnFacts, ConnInv, vars,
      managerVars, routeVars, countVars, connVars, callerVars
<1>29. ASSUME NEW r \in Routes, AbortRoute(r) PROVE CountFacts'
  BY <1>29, LimitsAssumption DEF AbortRoute, CountFacts, ConnFacts, ConnInv, vars, managerVars,
      routeVars, countVars, connVars, callerVars
<1>30. ASSUME ShutdownForced PROVE CountFacts'
  BY <1>30, LimitsAssumption DEF ShutdownForced, CountFacts, ConnFacts, ConnInv, vars,
      managerVars, routeVars, countVars, connVars, callerVars
<1>31. CASE UNCHANGED vars
  BY Zenon, <1>31 DEF CountFacts, ConnFacts, ConnInv, vars, managerVars, routeVars, countVars, connVars,
      callerVars
<1> QED BY Zenon, <1>1, <1>2, <1>3, <1>4, <1>5, <1>6, <1>7, <1>8, <1>9, <1>10, <1>11, <1>12, <1>13,
    <1>14, <1>15, <1>16, <1>17, <1>18, <1>19, <1>20, <1>21, <1>22, <1>23, <1>24, <1>25, <1>26,
        <1>27, <1>28, <1>29, <1>30, <1>31 DEF Next, RouteStep, AddStep, ConnStep, ShutdownStep

\* Every step keeps the types of the connections.
LEMMA ConnFactsStep ==
    ASSUME ConnFacts, [Next]_vars
    PROVE  ConnFacts'
<1>1. ASSUME NEW r \in Routes, BeginAdd(r) PROVE ConnFacts'
  BY <1>1 DEF BeginAdd, Reach, ConnFacts, vars, managerVars, routeVars, countVars, connVars,
      callerVars
<1>2. ASSUME NEW r \in Routes, BindRoute(r) PROVE ConnFacts'
  BY <1>2 DEF BindRoute, Reach, ConnFacts, vars, managerVars, routeVars, countVars, connVars,
      callerVars
<1>3. ASSUME NEW r \in Routes, InsertRoute(r) PROVE ConnFacts'
  BY <1>3 DEF InsertRoute, Reach, HasRouteRoom, ConnFacts, vars, managerVars, routeVars,
      countVars, connVars, callerVars
<1>4. ASSUME NEW r \in Routes, SpawnRoute(r) PROVE ConnFacts'
  BY <1>4 DEF SpawnRoute, Reach, ConnFacts, vars, managerVars, routeVars, countVars, connVars,
      callerVars
<1>5. ASSUME NEW r \in Routes, StoreHandle(r) PROVE ConnFacts'
  BY <1>5 DEF StoreHandle, Reach, ConnFacts, vars, managerVars, routeVars, countVars, connVars,
      callerVars
<1>6. ASSUME NEW r \in Routes, StopSeen(r) PROVE ConnFacts'
  BY <1>6 DEF StopSeen, LeaveLoop, ConnFacts, vars, managerVars, routeVars, countVars, connVars,
      callerVars
<1>7. ASSUME NEW r \in Routes, TargetGone(r) PROVE ConnFacts'
  BY <1>7 DEF TargetGone, LeaveLoop, ConnFacts, vars, managerVars, routeVars, countVars,
      connVars, callerVars
<1>8. ASSUME NEW r \in Routes, LooksFirst(r) PROVE ConnFacts'
  BY <1>8 DEF LooksFirst, ConnFacts, vars, managerVars, routeVars, countVars, connVars, callerVars
<1>9. ASSUME NEW r \in Routes, PollEnds(r) PROVE ConnFacts'
  BY <1>9 DEF PollEnds, ConnFacts, vars, managerVars, routeVars, countVars, connVars, callerVars
<1>10. ASSUME NEW r \in Routes, AcceptFails(r) PROVE ConnFacts'
  BY <1>10 DEF AcceptFails, LeaveLoop, ConnFacts, vars, managerVars, routeVars, countVars,
      connVars, callerVars
<1>11. ASSUME NEW r \in Routes, NEW c \in Conns, NEW p \in Peers, AcceptConn(r, c,
    p) PROVE ConnFacts'
  BY <1>11 DEF AcceptConn, PeerAdmits, CountPeer, ConnFacts, vars, managerVars, routeVars,
      countVars, connVars, callerVars
<1>12. ASSUME NEW r \in Routes, RouteEmpty(r) PROVE ConnFacts'
  BY <1>12 DEF RouteEmpty, ConnsOf, ConnFacts, vars, managerVars, routeVars, countVars, connVars,
      callerVars
<1>13. ASSUME NEW r \in Routes, RouteRemoved(r) PROVE ConnFacts'
  BY <1>13 DEF RouteRemoved, ConnFacts, vars, managerVars, routeVars, countVars, connVars,
      callerVars
<1>14. ASSUME NEW c \in Conns, ConnOpens(c) PROVE ConnFacts'
  BY <1>14 DEF ConnOpens, ConnTo, ConnFacts, vars, managerVars, routeVars, countVars, connVars,
      callerVars
<1>15. ASSUME NEW c \in Conns, ConnCloses(c) PROVE ConnFacts'
  BY <1>15 DEF ConnCloses, ConnTo, ConnFacts, vars, managerVars, routeVars, countVars, connVars,
      callerVars
<1>16. ASSUME NEW c \in Conns, ConnCounted(c) PROVE ConnFacts'
  BY <1>16 DEF ConnCounted, ConnTo, ConnFacts, vars, managerVars, routeVars, countVars, connVars,
      callerVars
<1>17. ASSUME NEW c \in Conns, ConnDropsPeer(c) PROVE ConnFacts'
  BY <1>17 DEF ConnDropsPeer, ConnTo, ReleasePeer, ConnFacts, vars, managerVars, routeVars,
      countVars, connVars, callerVars
<1>18. ASSUME NEW c \in Conns, ConnDropsPermit(c) PROVE ConnFacts'
  BY <1>18 DEF ConnDropsPermit, ConnTo, ConnFacts, vars, managerVars, routeVars, countVars,
      connVars, callerVars
<1>19. ASSUME NEW c \in Conns, ConnAborted(c) PROVE ConnFacts'
  BY <1>19 DEF ConnAborted, ReleasePeer, ConnFacts, vars, managerVars, routeVars, countVars,
      connVars, callerVars
<1>20. ASSUME SessionDisconnects PROVE ConnFacts'
  BY <1>20 DEF SessionDisconnects, ConnFacts, vars, managerVars, routeVars, countVars, connVars,
      callerVars
<1>21. ASSUME NEW r \in Routes, RemoveRoute(r) PROVE ConnFacts'
  BY <1>21 DEF RemoveRoute, ConnFacts, vars, managerVars, routeVars, countVars, connVars, callerVars
<1>22. ASSUME NEW r \in Routes, DrainCall(r) PROVE ConnFacts'
  BY <1>22 DEF DrainCall, ConnFacts, vars, managerVars, routeVars, countVars, connVars, callerVars
<1>23. ASSUME NEW r \in Routes, DrainReturns(r) PROVE ConnFacts'
  BY <1>23 DEF DrainReturns, SendersGone, ConnFacts, vars, managerVars, routeVars, countVars,
      connVars, callerVars
<1>24. ASSUME NEW r \in Routes, WaitCall(r) PROVE ConnFacts'
  BY <1>24 DEF WaitCall, ConnFacts, vars, managerVars, routeVars, countVars, connVars, callerVars
<1>25. ASSUME NEW r \in Routes, WaitReturns(r) PROVE ConnFacts'
  BY <1>25 DEF WaitReturns, SendersGone, ConnFacts, vars, managerVars, routeVars, countVars,
      connVars, callerVars
<1>26. ASSUME BeginShutdown PROVE ConnFacts'
  BY <1>26 DEF BeginShutdown, ConnFacts, vars, managerVars, routeVars, countVars, connVars,
      callerVars
<1>27. ASSUME ShutdownDrained PROVE ConnFacts'
  BY <1>27 DEF ShutdownDrained, ConnFacts, vars, managerVars, routeVars, countVars, connVars,
      callerVars
<1>28. ASSUME ShutdownDeadline PROVE ConnFacts'
  BY <1>28 DEF ShutdownDeadline, ConnFacts, vars, managerVars, routeVars, countVars, connVars,
      callerVars
<1>29. ASSUME NEW r \in Routes, AbortRoute(r) PROVE ConnFacts'
  BY <1>29 DEF AbortRoute, ConnFacts, vars, managerVars, routeVars, countVars, connVars, callerVars
<1>30. ASSUME ShutdownForced PROVE ConnFacts'
  BY <1>30 DEF ShutdownForced, ConnFacts, vars, managerVars, routeVars, countVars, connVars,
      callerVars
<1>31. CASE UNCHANGED vars
  BY ZenonT(40), <1>31 DEF ConnFacts, vars, managerVars, routeVars, countVars, connVars, callerVars
<1> QED BY Zenon, <1>1, <1>2, <1>3, <1>4, <1>5, <1>6, <1>7, <1>8, <1>9, <1>10, <1>11, <1>12, <1>13,
    <1>14, <1>15, <1>16, <1>17, <1>18, <1>19, <1>20, <1>21, <1>22, <1>23, <1>24, <1>25, <1>26,
        <1>27, <1>28, <1>29, <1>30, <1>31 DEF Next, RouteStep, AddStep, ConnStep, ShutdownStep

\* Every step keeps the types of the callers.
LEMMA CallerFactsStep ==
    ASSUME CallerFacts, [Next]_vars
    PROVE  CallerFacts'
<1>1. ASSUME NEW r \in Routes, BeginAdd(r) PROVE CallerFacts'
  BY <1>1 DEF BeginAdd, Reach, CallerFacts, vars, managerVars, routeVars, countVars, connVars,
      callerVars
<1>2. ASSUME NEW r \in Routes, BindRoute(r) PROVE CallerFacts'
  BY <1>2 DEF BindRoute, Reach, CallerFacts, vars, managerVars, routeVars, countVars, connVars,
      callerVars
<1>3. ASSUME NEW r \in Routes, InsertRoute(r) PROVE CallerFacts'
  BY <1>3 DEF InsertRoute, Reach, HasRouteRoom, CallerFacts, vars, managerVars, routeVars,
      countVars, connVars, callerVars
<1>4. ASSUME NEW r \in Routes, SpawnRoute(r) PROVE CallerFacts'
  BY <1>4 DEF SpawnRoute, Reach, CallerFacts, vars, managerVars, routeVars, countVars, connVars,
      callerVars
<1>5. ASSUME NEW r \in Routes, StoreHandle(r) PROVE CallerFacts'
  BY <1>5 DEF StoreHandle, Reach, CallerFacts, vars, managerVars, routeVars, countVars, connVars,
      callerVars
<1>6. ASSUME NEW r \in Routes, StopSeen(r) PROVE CallerFacts'
  BY <1>6 DEF StopSeen, LeaveLoop, CallerFacts, vars, managerVars, routeVars, countVars,
      connVars, callerVars
<1>7. ASSUME NEW r \in Routes, TargetGone(r) PROVE CallerFacts'
  BY <1>7 DEF TargetGone, LeaveLoop, CallerFacts, vars, managerVars, routeVars, countVars,
      connVars, callerVars
<1>8. ASSUME NEW r \in Routes, LooksFirst(r) PROVE CallerFacts'
  BY <1>8 DEF LooksFirst, CallerFacts, vars, managerVars, routeVars, countVars, connVars, callerVars
<1>9. ASSUME NEW r \in Routes, PollEnds(r) PROVE CallerFacts'
  BY <1>9 DEF PollEnds, CallerFacts, vars, managerVars, routeVars, countVars, connVars, callerVars
<1>10. ASSUME NEW r \in Routes, AcceptFails(r) PROVE CallerFacts'
  BY <1>10 DEF AcceptFails, LeaveLoop, CallerFacts, vars, managerVars, routeVars, countVars,
      connVars, callerVars
<1>11. ASSUME NEW r \in Routes, NEW c \in Conns, NEW p \in Peers, AcceptConn(r, c,
    p) PROVE CallerFacts'
  BY <1>11 DEF AcceptConn, PeerAdmits, CountPeer, CallerFacts, vars, managerVars, routeVars,
      countVars, connVars, callerVars
<1>12. ASSUME NEW r \in Routes, RouteEmpty(r) PROVE CallerFacts'
  BY <1>12 DEF RouteEmpty, ConnsOf, CallerFacts, vars, managerVars, routeVars, countVars,
      connVars, callerVars
<1>13. ASSUME NEW r \in Routes, RouteRemoved(r) PROVE CallerFacts'
  BY <1>13 DEF RouteRemoved, CallerFacts, vars, managerVars, routeVars, countVars, connVars,
      callerVars
<1>14. ASSUME NEW c \in Conns, ConnOpens(c) PROVE CallerFacts'
  BY <1>14 DEF ConnOpens, ConnTo, CallerFacts, vars, managerVars, routeVars, countVars, connVars,
      callerVars
<1>15. ASSUME NEW c \in Conns, ConnCloses(c) PROVE CallerFacts'
  BY <1>15 DEF ConnCloses, ConnTo, CallerFacts, vars, managerVars, routeVars, countVars,
      connVars, callerVars
<1>16. ASSUME NEW c \in Conns, ConnCounted(c) PROVE CallerFacts'
  BY <1>16 DEF ConnCounted, ConnTo, CallerFacts, vars, managerVars, routeVars, countVars,
      connVars, callerVars
<1>17. ASSUME NEW c \in Conns, ConnDropsPeer(c) PROVE CallerFacts'
  BY <1>17 DEF ConnDropsPeer, ConnTo, ReleasePeer, CallerFacts, vars, managerVars, routeVars,
      countVars, connVars, callerVars
<1>18. ASSUME NEW c \in Conns, ConnDropsPermit(c) PROVE CallerFacts'
  BY <1>18 DEF ConnDropsPermit, ConnTo, CallerFacts, vars, managerVars, routeVars, countVars,
      connVars, callerVars
<1>19. ASSUME NEW c \in Conns, ConnAborted(c) PROVE CallerFacts'
  BY <1>19 DEF ConnAborted, ReleasePeer, CallerFacts, vars, managerVars, routeVars, countVars,
      connVars, callerVars
<1>20. ASSUME SessionDisconnects PROVE CallerFacts'
  BY Zenon, <1>20 DEF SessionDisconnects, CallerFacts, vars, managerVars, routeVars, countVars,
      connVars, callerVars
<1>21. ASSUME NEW r \in Routes, RemoveRoute(r) PROVE CallerFacts'
  BY <1>21 DEF RemoveRoute, CallerFacts, vars, managerVars, routeVars, countVars, connVars,
      callerVars
<1>22. ASSUME NEW r \in Routes, DrainCall(r) PROVE CallerFacts'
  BY <1>22 DEF DrainCall, CallerFacts, vars, managerVars, routeVars, countVars, connVars, callerVars
<1>23. ASSUME NEW r \in Routes, DrainReturns(r) PROVE CallerFacts'
  BY <1>23 DEF DrainReturns, SendersGone, CallerFacts, vars, managerVars, routeVars, countVars,
      connVars, callerVars
<1>24. ASSUME NEW r \in Routes, WaitCall(r) PROVE CallerFacts'
  BY <1>24 DEF WaitCall, CallerFacts, vars, managerVars, routeVars, countVars, connVars, callerVars
<1>25. ASSUME NEW r \in Routes, WaitReturns(r) PROVE CallerFacts'
  BY <1>25 DEF WaitReturns, SendersGone, CallerFacts, vars, managerVars, routeVars, countVars,
      connVars, callerVars
<1>26. ASSUME BeginShutdown PROVE CallerFacts'
  BY <1>26 DEF BeginShutdown, CallerFacts, vars, managerVars, routeVars, countVars, connVars,
      callerVars
<1>27. ASSUME ShutdownDrained PROVE CallerFacts'
  BY <1>27 DEF ShutdownDrained, CallerFacts, vars, managerVars, routeVars, countVars, connVars,
      callerVars
<1>28. ASSUME ShutdownDeadline PROVE CallerFacts'
  BY <1>28 DEF ShutdownDeadline, CallerFacts, vars, managerVars, routeVars, countVars, connVars,
      callerVars
<1>29. ASSUME NEW r \in Routes, AbortRoute(r) PROVE CallerFacts'
  BY <1>29 DEF AbortRoute, CallerFacts, vars, managerVars, routeVars, countVars, connVars,
      callerVars
<1>30. ASSUME ShutdownForced PROVE CallerFacts'
  BY <1>30 DEF ShutdownForced, CallerFacts, vars, managerVars, routeVars, countVars, connVars,
      callerVars
<1>31. CASE UNCHANGED vars
  BY <1>31 DEF CallerFacts, vars, managerVars, routeVars, countVars, connVars, callerVars
<1> QED BY <1>1, <1>2, <1>3, <1>4, <1>5, <1>6, <1>7, <1>8, <1>9, <1>10, <1>11, <1>12, <1>13,
    <1>14, <1>15, <1>16, <1>17, <1>18, <1>19, <1>20, <1>21, <1>22, <1>23, <1>24, <1>25, <1>26,
        <1>27, <1>28, <1>29, <1>30, <1>31 DEF Next, RouteStep, AddStep, ConnStep, ShutdownStep

\* Handles are stored and taken by finished add_route calls only.
LEMMA HandlesStep ==
    ASSUME TypeFacts, HandlesInv, [Next]_vars
    PROVE  HandlesInv'
<1>1. ASSUME NEW r \in Routes, BeginAdd(r) PROVE HandlesInv'
  BY <1>1 DEF BeginAdd, Reach, TypeFacts, Running, HandlesInv, vars, managerVars, routeVars,
      countVars, connVars, callerVars
<1>2. ASSUME NEW r \in Routes, BindRoute(r) PROVE HandlesInv'
  BY <1>2 DEF BindRoute, Reach, TypeFacts, Running, HandlesInv, vars, managerVars, routeVars,
      countVars, connVars, callerVars
<1>3. ASSUME NEW r \in Routes, InsertRoute(r) PROVE HandlesInv'
  BY <1>3 DEF InsertRoute, Reach, HasRouteRoom, TypeFacts, Running, HandlesInv, vars,
      managerVars, routeVars, countVars, connVars, callerVars
<1>4. ASSUME NEW r \in Routes, SpawnRoute(r) PROVE HandlesInv'
  BY <1>4 DEF SpawnRoute, Reach, TypeFacts, Running, HandlesInv, vars, managerVars, routeVars,
      countVars, connVars, callerVars
<1>5. ASSUME NEW r \in Routes, StoreHandle(r) PROVE HandlesInv'
  BY <1>5 DEF StoreHandle, Reach, TypeFacts, Running, HandlesInv, vars, managerVars, routeVars,
      countVars, connVars, callerVars
<1>6. ASSUME NEW r \in Routes, StopSeen(r) PROVE HandlesInv'
  BY <1>6 DEF StopSeen, LeaveLoop, TypeFacts, Running, HandlesInv, vars, managerVars, routeVars,
      countVars, connVars, callerVars
<1>7. ASSUME NEW r \in Routes, TargetGone(r) PROVE HandlesInv'
  BY <1>7 DEF TargetGone, LeaveLoop, TypeFacts, Running, HandlesInv, vars, managerVars,
      routeVars, countVars, connVars, callerVars
<1>8. ASSUME NEW r \in Routes, LooksFirst(r) PROVE HandlesInv'
  BY <1>8 DEF LooksFirst, TypeFacts, Running, HandlesInv, vars, managerVars, routeVars,
      countVars, connVars, callerVars
<1>9. ASSUME NEW r \in Routes, PollEnds(r) PROVE HandlesInv'
  BY <1>9 DEF PollEnds, TypeFacts, Running, HandlesInv, vars, managerVars, routeVars, countVars,
      connVars, callerVars
<1>10. ASSUME NEW r \in Routes, AcceptFails(r) PROVE HandlesInv'
  BY <1>10 DEF AcceptFails, LeaveLoop, TypeFacts, Running, HandlesInv, vars, managerVars,
      routeVars, countVars, connVars, callerVars
<1>11. ASSUME NEW r \in Routes, NEW c \in Conns, NEW p \in Peers, AcceptConn(r, c,
    p) PROVE HandlesInv'
  BY <1>11 DEF AcceptConn, PeerAdmits, CountPeer, TypeFacts, Running, HandlesInv, vars,
      managerVars, routeVars, countVars, connVars, callerVars
<1>12. ASSUME NEW r \in Routes, RouteEmpty(r) PROVE HandlesInv'
  BY <1>12 DEF RouteEmpty, ConnsOf, TypeFacts, Running, HandlesInv, vars, managerVars, routeVars,
      countVars, connVars, callerVars
<1>13. ASSUME NEW r \in Routes, RouteRemoved(r) PROVE HandlesInv'
  BY <1>13 DEF RouteRemoved, TypeFacts, Running, HandlesInv, vars, managerVars, routeVars,
      countVars, connVars, callerVars
<1>14. ASSUME NEW c \in Conns, ConnOpens(c) PROVE HandlesInv'
  BY <1>14 DEF ConnOpens, ConnTo, TypeFacts, Running, HandlesInv, vars, managerVars, routeVars,
      countVars, connVars, callerVars
<1>15. ASSUME NEW c \in Conns, ConnCloses(c) PROVE HandlesInv'
  BY <1>15 DEF ConnCloses, ConnTo, TypeFacts, Running, HandlesInv, vars, managerVars, routeVars,
      countVars, connVars, callerVars
<1>16. ASSUME NEW c \in Conns, ConnCounted(c) PROVE HandlesInv'
  BY <1>16 DEF ConnCounted, ConnTo, TypeFacts, Running, HandlesInv, vars, managerVars, routeVars,
      countVars, connVars, callerVars
<1>17. ASSUME NEW c \in Conns, ConnDropsPeer(c) PROVE HandlesInv'
  BY <1>17 DEF ConnDropsPeer, ConnTo, ReleasePeer, TypeFacts, Running, HandlesInv, vars,
      managerVars, routeVars, countVars, connVars, callerVars
<1>18. ASSUME NEW c \in Conns, ConnDropsPermit(c) PROVE HandlesInv'
  BY <1>18 DEF ConnDropsPermit, ConnTo, TypeFacts, Running, HandlesInv, vars, managerVars,
      routeVars, countVars, connVars, callerVars
<1>19. ASSUME NEW c \in Conns, ConnAborted(c) PROVE HandlesInv'
  BY <1>19 DEF ConnAborted, ReleasePeer, TypeFacts, Running, HandlesInv, vars, managerVars,
      routeVars, countVars, connVars, callerVars
<1>20. ASSUME SessionDisconnects PROVE HandlesInv'
  BY <1>20 DEF SessionDisconnects, TypeFacts, Running, HandlesInv, vars, managerVars, routeVars,
      countVars, connVars, callerVars
<1>21. ASSUME NEW r \in Routes, RemoveRoute(r) PROVE HandlesInv'
  BY <1>21 DEF RemoveRoute, TypeFacts, Running, HandlesInv, vars, managerVars, routeVars,
      countVars, connVars, callerVars
<1>22. ASSUME NEW r \in Routes, DrainCall(r) PROVE HandlesInv'
  BY <1>22 DEF DrainCall, TypeFacts, Running, HandlesInv, vars, managerVars, routeVars,
      countVars, connVars, callerVars
<1>23. ASSUME NEW r \in Routes, DrainReturns(r) PROVE HandlesInv'
  BY <1>23 DEF DrainReturns, SendersGone, TypeFacts, Running, HandlesInv, vars, managerVars,
      routeVars, countVars, connVars, callerVars
<1>24. ASSUME NEW r \in Routes, WaitCall(r) PROVE HandlesInv'
  BY <1>24 DEF WaitCall, TypeFacts, Running, HandlesInv, vars, managerVars, routeVars, countVars,
      connVars, callerVars
<1>25. ASSUME NEW r \in Routes, WaitReturns(r) PROVE HandlesInv'
  BY <1>25 DEF WaitReturns, SendersGone, TypeFacts, Running, HandlesInv, vars, managerVars,
      routeVars, countVars, connVars, callerVars
<1>26. ASSUME BeginShutdown PROVE HandlesInv'
  BY <1>26 DEF BeginShutdown, TypeFacts, Running, HandlesInv, vars, managerVars, routeVars,
      countVars, connVars, callerVars
<1>27. ASSUME ShutdownDrained PROVE HandlesInv'
  BY <1>27 DEF ShutdownDrained, TypeFacts, Running, HandlesInv, vars, managerVars, routeVars,
      countVars, connVars, callerVars
<1>28. ASSUME ShutdownDeadline PROVE HandlesInv'
  BY <1>28 DEF ShutdownDeadline, TypeFacts, Running, HandlesInv, vars, managerVars, routeVars,
      countVars, connVars, callerVars
<1>29. ASSUME NEW r \in Routes, AbortRoute(r) PROVE HandlesInv'
  BY <1>29 DEF AbortRoute, TypeFacts, Running, HandlesInv, vars, managerVars, routeVars,
      countVars, connVars, callerVars
<1>30. ASSUME ShutdownForced PROVE HandlesInv'
  BY <1>30 DEF ShutdownForced, TypeFacts, Running, HandlesInv, vars, managerVars, routeVars,
      countVars, connVars, callerVars
<1>31. CASE UNCHANGED vars
  BY <1>31 DEF TypeFacts, Running, HandlesInv, vars, managerVars, routeVars, countVars, connVars,
      callerVars
<1> QED BY Zenon, <1>1, <1>2, <1>3, <1>4, <1>5, <1>6, <1>7, <1>8, <1>9, <1>10, <1>11, <1>12, <1>13,
    <1>14, <1>15, <1>16, <1>17, <1>18, <1>19, <1>20, <1>21, <1>22, <1>23, <1>24, <1>25, <1>26,
        <1>27, <1>28, <1>29, <1>30, <1>31 DEF Next, RouteStep, AddStep, ConnStep, ShutdownStep

\* The table stays true through spawning, removal and shutdown.
LEMMA TableStep ==
    ASSUME TypeFacts, HandlesInv, TableInv, [Next]_vars
    PROVE  TableInv'
<1>1. ASSUME NEW r \in Routes, BeginAdd(r) PROVE TableInv'
  BY <1>1 DEF BeginAdd, Reach, TypeFacts, Running, HandlesInv, TableInv, Forced, vars,
      managerVars, routeVars, countVars, connVars, callerVars
<1>2. ASSUME NEW r \in Routes, BindRoute(r) PROVE TableInv'
  BY <1>2 DEF BindRoute, Reach, TypeFacts, Running, HandlesInv, TableInv, Forced, vars,
      managerVars, routeVars, countVars, connVars, callerVars
<1>3. ASSUME NEW r \in Routes, InsertRoute(r) PROVE TableInv'
  BY <1>3 DEF InsertRoute, Reach, HasRouteRoom, TypeFacts, Running, HandlesInv, TableInv, Forced,
      vars, managerVars, routeVars, countVars, connVars, callerVars
<1>4. ASSUME NEW r \in Routes, SpawnRoute(r) PROVE TableInv'
  BY <1>4 DEF SpawnRoute, Reach, TypeFacts, Running, HandlesInv, TableInv, Forced, vars,
      managerVars, routeVars, countVars, connVars, callerVars
<1>5. ASSUME NEW r \in Routes, StoreHandle(r) PROVE TableInv'
  BY <1>5 DEF StoreHandle, Reach, TypeFacts, Running, HandlesInv, TableInv, Forced, vars,
      managerVars, routeVars, countVars, connVars, callerVars
<1>6. ASSUME NEW r \in Routes, StopSeen(r) PROVE TableInv'
  BY <1>6 DEF StopSeen, LeaveLoop, TypeFacts, Running, HandlesInv, TableInv, Forced, vars,
      managerVars, routeVars, countVars, connVars, callerVars
<1>7. ASSUME NEW r \in Routes, TargetGone(r) PROVE TableInv'
  BY <1>7 DEF TargetGone, LeaveLoop, TypeFacts, Running, HandlesInv, TableInv, Forced, vars,
      managerVars, routeVars, countVars, connVars, callerVars
<1>8. ASSUME NEW r \in Routes, LooksFirst(r) PROVE TableInv'
  BY <1>8 DEF LooksFirst, TypeFacts, Running, HandlesInv, TableInv, Forced, vars, managerVars,
      routeVars, countVars, connVars, callerVars
<1>9. ASSUME NEW r \in Routes, PollEnds(r) PROVE TableInv'
  BY <1>9 DEF PollEnds, TypeFacts, Running, HandlesInv, TableInv, Forced, vars, managerVars,
      routeVars, countVars, connVars, callerVars
<1>10. ASSUME NEW r \in Routes, AcceptFails(r) PROVE TableInv'
  BY <1>10 DEF AcceptFails, LeaveLoop, TypeFacts, Running, HandlesInv, TableInv, Forced, vars,
      managerVars, routeVars, countVars, connVars, callerVars
<1>11. ASSUME NEW r \in Routes, NEW c \in Conns, NEW p \in Peers, AcceptConn(r, c,
    p) PROVE TableInv'
  BY <1>11 DEF AcceptConn, PeerAdmits, CountPeer, TypeFacts, Running, HandlesInv, TableInv,
      Forced, vars, managerVars, routeVars, countVars, connVars, callerVars
<1>12. ASSUME NEW r \in Routes, RouteEmpty(r) PROVE TableInv'
  BY <1>12 DEF RouteEmpty, ConnsOf, TypeFacts, Running, HandlesInv, TableInv, Forced, vars,
      managerVars, routeVars, countVars, connVars, callerVars
<1>13. ASSUME NEW r \in Routes, RouteRemoved(r) PROVE TableInv'
  BY <1>13 DEF RouteRemoved, TypeFacts, Running, HandlesInv, TableInv, Forced, vars, managerVars,
      routeVars, countVars, connVars, callerVars
<1>14. ASSUME NEW c \in Conns, ConnOpens(c) PROVE TableInv'
  BY <1>14 DEF ConnOpens, ConnTo, TypeFacts, Running, HandlesInv, TableInv, Forced, vars,
      managerVars, routeVars, countVars, connVars, callerVars
<1>15. ASSUME NEW c \in Conns, ConnCloses(c) PROVE TableInv'
  BY <1>15 DEF ConnCloses, ConnTo, TypeFacts, Running, HandlesInv, TableInv, Forced, vars,
      managerVars, routeVars, countVars, connVars, callerVars
<1>16. ASSUME NEW c \in Conns, ConnCounted(c) PROVE TableInv'
  BY <1>16 DEF ConnCounted, ConnTo, TypeFacts, Running, HandlesInv, TableInv, Forced, vars,
      managerVars, routeVars, countVars, connVars, callerVars
<1>17. ASSUME NEW c \in Conns, ConnDropsPeer(c) PROVE TableInv'
  BY <1>17 DEF ConnDropsPeer, ConnTo, ReleasePeer, TypeFacts, Running, HandlesInv, TableInv,
      Forced, vars, managerVars, routeVars, countVars, connVars, callerVars
<1>18. ASSUME NEW c \in Conns, ConnDropsPermit(c) PROVE TableInv'
  BY Zenon, <1>18 DEF ConnDropsPermit, ConnTo, TypeFacts, Running, HandlesInv, TableInv, Forced, vars,
      managerVars, routeVars, countVars, connVars, callerVars
<1>19. ASSUME NEW c \in Conns, ConnAborted(c) PROVE TableInv'
  BY <1>19 DEF ConnAborted, ReleasePeer, TypeFacts, Running, HandlesInv, TableInv, Forced, vars,
      managerVars, routeVars, countVars, connVars, callerVars
<1>20. ASSUME SessionDisconnects PROVE TableInv'
  BY <1>20 DEF SessionDisconnects, TypeFacts, Running, HandlesInv, TableInv, Forced, vars,
      managerVars, routeVars, countVars, connVars, callerVars
<1>21. ASSUME NEW r \in Routes, RemoveRoute(r) PROVE TableInv'
  BY <1>21 DEF RemoveRoute, TypeFacts, Running, HandlesInv, TableInv, Forced, vars, managerVars,
      routeVars, countVars, connVars, callerVars
<1>22. ASSUME NEW r \in Routes, DrainCall(r) PROVE TableInv'
  BY <1>22 DEF DrainCall, TypeFacts, Running, HandlesInv, TableInv, Forced, vars, managerVars,
      routeVars, countVars, connVars, callerVars
<1>23. ASSUME NEW r \in Routes, DrainReturns(r) PROVE TableInv'
  BY <1>23 DEF DrainReturns, SendersGone, TypeFacts, Running, HandlesInv, TableInv, Forced, vars,
      managerVars, routeVars, countVars, connVars, callerVars
<1>24. ASSUME NEW r \in Routes, WaitCall(r) PROVE TableInv'
  BY <1>24 DEF WaitCall, TypeFacts, Running, HandlesInv, TableInv, Forced, vars, managerVars,
      routeVars, countVars, connVars, callerVars
<1>25. ASSUME NEW r \in Routes, WaitReturns(r) PROVE TableInv'
  BY <1>25 DEF WaitReturns, SendersGone, TypeFacts, Running, HandlesInv, TableInv, Forced, vars,
      managerVars, routeVars, countVars, connVars, callerVars
<1>26. ASSUME BeginShutdown PROVE TableInv'
  BY ZenonT(40), <1>26 DEF BeginShutdown, TypeFacts, Running, HandlesInv, TableInv, Forced, vars,
      managerVars, routeVars, countVars, connVars, callerVars
<1>27. ASSUME ShutdownDrained PROVE TableInv'
  BY <1>27 DEF ShutdownDrained, TypeFacts, Running, HandlesInv, TableInv, Forced, vars,
      managerVars, routeVars, countVars, connVars, callerVars
<1>28. ASSUME ShutdownDeadline PROVE TableInv'
  BY <1>28 DEF ShutdownDeadline, TypeFacts, Running, HandlesInv, TableInv, Forced, vars,
      managerVars, routeVars, countVars, connVars, callerVars
<1>29. ASSUME NEW r \in Routes, AbortRoute(r) PROVE TableInv'
  BY <1>29 DEF AbortRoute, TypeFacts, Running, HandlesInv, TableInv, Forced, vars, managerVars,
      routeVars, countVars, connVars, callerVars
<1>30. ASSUME ShutdownForced PROVE TableInv'
  BY <1>30 DEF ShutdownForced, TypeFacts, Running, HandlesInv, TableInv, Forced, vars,
      managerVars, routeVars, countVars, connVars, callerVars
<1>31. CASE UNCHANGED vars
  BY Zenon, <1>31 DEF TypeFacts, Running, HandlesInv, TableInv, Forced, vars, managerVars, routeVars,
      countVars, connVars, callerVars
<1> QED BY ZenonT(40), <1>1, <1>2, <1>3, <1>4, <1>5, <1>6, <1>7, <1>8, <1>9, <1>10, <1>11, <1>12, <1>13,
    <1>14, <1>15, <1>16, <1>17, <1>18, <1>19, <1>20, <1>21, <1>22, <1>23, <1>24, <1>25, <1>26,
        <1>27, <1>28, <1>29, <1>30, <1>31 DEF Next, RouteStep, AddStep, ConnStep, ShutdownStep

\* No task passes the end of its route without the report.
LEMMA ReportStep ==
    ASSUME TypeFacts, HandlesInv, ReportInv, [Next]_vars
    PROVE  ReportInv'
<1>1. ASSUME NEW r \in Routes, BeginAdd(r) PROVE ReportInv'
  BY <1>1 DEF BeginAdd, Reach, TypeFacts, Running, HandlesInv, ReportInv, vars, managerVars,
      routeVars, countVars, connVars, callerVars
<1>2. ASSUME NEW r \in Routes, BindRoute(r) PROVE ReportInv'
  BY <1>2 DEF BindRoute, Reach, TypeFacts, Running, HandlesInv, ReportInv, vars, managerVars,
      routeVars, countVars, connVars, callerVars
<1>3. ASSUME NEW r \in Routes, InsertRoute(r) PROVE ReportInv'
  BY <1>3 DEF InsertRoute, Reach, HasRouteRoom, TypeFacts, Running, HandlesInv, ReportInv, vars,
      managerVars, routeVars, countVars, connVars, callerVars
<1>4. ASSUME NEW r \in Routes, SpawnRoute(r) PROVE ReportInv'
  BY <1>4 DEF SpawnRoute, Reach, TypeFacts, Running, HandlesInv, ReportInv, vars, managerVars,
      routeVars, countVars, connVars, callerVars
<1>5. ASSUME NEW r \in Routes, StoreHandle(r) PROVE ReportInv'
  BY <1>5 DEF StoreHandle, Reach, TypeFacts, Running, HandlesInv, ReportInv, vars, managerVars,
      routeVars, countVars, connVars, callerVars
<1>6. ASSUME NEW r \in Routes, StopSeen(r) PROVE ReportInv'
  BY <1>6 DEF StopSeen, LeaveLoop, TypeFacts, Running, HandlesInv, ReportInv, vars, managerVars,
      routeVars, countVars, connVars, callerVars
<1>7. ASSUME NEW r \in Routes, TargetGone(r) PROVE ReportInv'
  BY <1>7 DEF TargetGone, LeaveLoop, TypeFacts, Running, HandlesInv, ReportInv, vars,
      managerVars, routeVars, countVars, connVars, callerVars
<1>8. ASSUME NEW r \in Routes, LooksFirst(r) PROVE ReportInv'
  BY <1>8 DEF LooksFirst, TypeFacts, Running, HandlesInv, ReportInv, vars, managerVars,
      routeVars, countVars, connVars, callerVars
<1>9. ASSUME NEW r \in Routes, PollEnds(r) PROVE ReportInv'
  BY <1>9 DEF PollEnds, TypeFacts, Running, HandlesInv, ReportInv, vars, managerVars, routeVars,
      countVars, connVars, callerVars
<1>10. ASSUME NEW r \in Routes, AcceptFails(r) PROVE ReportInv'
  BY <1>10 DEF AcceptFails, LeaveLoop, TypeFacts, Running, HandlesInv, ReportInv, vars,
      managerVars, routeVars, countVars, connVars, callerVars
<1>11. ASSUME NEW r \in Routes, NEW c \in Conns, NEW p \in Peers, AcceptConn(r, c,
    p) PROVE ReportInv'
  BY <1>11 DEF AcceptConn, PeerAdmits, CountPeer, TypeFacts, Running, HandlesInv, ReportInv,
      vars, managerVars, routeVars, countVars, connVars, callerVars
<1>12. ASSUME NEW r \in Routes, RouteEmpty(r) PROVE ReportInv'
  BY <1>12 DEF RouteEmpty, ConnsOf, TypeFacts, Running, HandlesInv, ReportInv, vars, managerVars,
      routeVars, countVars, connVars, callerVars
<1>13. ASSUME NEW r \in Routes, RouteRemoved(r) PROVE ReportInv'
  BY <1>13 DEF RouteRemoved, TypeFacts, Running, HandlesInv, ReportInv, vars, managerVars,
      routeVars, countVars, connVars, callerVars
<1>14. ASSUME NEW c \in Conns, ConnOpens(c) PROVE ReportInv'
  BY <1>14 DEF ConnOpens, ConnTo, TypeFacts, Running, HandlesInv, ReportInv, vars, managerVars,
      routeVars, countVars, connVars, callerVars
<1>15. ASSUME NEW c \in Conns, ConnCloses(c) PROVE ReportInv'
  BY <1>15 DEF ConnCloses, ConnTo, TypeFacts, Running, HandlesInv, ReportInv, vars, managerVars,
      routeVars, countVars, connVars, callerVars
<1>16. ASSUME NEW c \in Conns, ConnCounted(c) PROVE ReportInv'
  BY <1>16 DEF ConnCounted, ConnTo, TypeFacts, Running, HandlesInv, ReportInv, vars, managerVars,
      routeVars, countVars, connVars, callerVars
<1>17. ASSUME NEW c \in Conns, ConnDropsPeer(c) PROVE ReportInv'
  BY <1>17 DEF ConnDropsPeer, ConnTo, ReleasePeer, TypeFacts, Running, HandlesInv, ReportInv,
      vars, managerVars, routeVars, countVars, connVars, callerVars
<1>18. ASSUME NEW c \in Conns, ConnDropsPermit(c) PROVE ReportInv'
  BY <1>18 DEF ConnDropsPermit, ConnTo, TypeFacts, Running, HandlesInv, ReportInv, vars,
      managerVars, routeVars, countVars, connVars, callerVars
<1>19. ASSUME NEW c \in Conns, ConnAborted(c) PROVE ReportInv'
  BY <1>19 DEF ConnAborted, ReleasePeer, TypeFacts, Running, HandlesInv, ReportInv, vars,
      managerVars, routeVars, countVars, connVars, callerVars
<1>20. ASSUME SessionDisconnects PROVE ReportInv'
  BY <1>20 DEF SessionDisconnects, TypeFacts, Running, HandlesInv, ReportInv, vars, managerVars,
      routeVars, countVars, connVars, callerVars
<1>21. ASSUME NEW r \in Routes, RemoveRoute(r) PROVE ReportInv'
  BY <1>21 DEF RemoveRoute, TypeFacts, Running, HandlesInv, ReportInv, vars, managerVars,
      routeVars, countVars, connVars, callerVars
<1>22. ASSUME NEW r \in Routes, DrainCall(r) PROVE ReportInv'
  BY <1>22 DEF DrainCall, TypeFacts, Running, HandlesInv, ReportInv, vars, managerVars,
      routeVars, countVars, connVars, callerVars
<1>23. ASSUME NEW r \in Routes, DrainReturns(r) PROVE ReportInv'
  BY <1>23 DEF DrainReturns, SendersGone, TypeFacts, Running, HandlesInv, ReportInv, vars,
      managerVars, routeVars, countVars, connVars, callerVars
<1>24. ASSUME NEW r \in Routes, WaitCall(r) PROVE ReportInv'
  BY <1>24 DEF WaitCall, TypeFacts, Running, HandlesInv, ReportInv, vars, managerVars, routeVars,
      countVars, connVars, callerVars
<1>25. ASSUME NEW r \in Routes, WaitReturns(r) PROVE ReportInv'
  BY <1>25 DEF WaitReturns, SendersGone, TypeFacts, Running, HandlesInv, ReportInv, vars,
      managerVars, routeVars, countVars, connVars, callerVars
<1>26. ASSUME BeginShutdown PROVE ReportInv'
  BY <1>26 DEF BeginShutdown, TypeFacts, Running, HandlesInv, ReportInv, vars, managerVars,
      routeVars, countVars, connVars, callerVars
<1>27. ASSUME ShutdownDrained PROVE ReportInv'
  BY <1>27 DEF ShutdownDrained, TypeFacts, Running, HandlesInv, ReportInv, vars, managerVars,
      routeVars, countVars, connVars, callerVars
<1>28. ASSUME ShutdownDeadline PROVE ReportInv'
  BY <1>28 DEF ShutdownDeadline, TypeFacts, Running, HandlesInv, ReportInv, vars, managerVars,
      routeVars, countVars, connVars, callerVars
<1>29. ASSUME NEW r \in Routes, AbortRoute(r) PROVE ReportInv'
  BY <1>29 DEF AbortRoute, TypeFacts, Running, HandlesInv, ReportInv, vars, managerVars,
      routeVars, countVars, connVars, callerVars
<1>30. ASSUME ShutdownForced PROVE ReportInv'
  BY <1>30 DEF ShutdownForced, TypeFacts, Running, HandlesInv, ReportInv, vars, managerVars,
      routeVars, countVars, connVars, callerVars
<1>31. CASE UNCHANGED vars
  BY Zenon, <1>31 DEF TypeFacts, Running, HandlesInv, ReportInv, vars, managerVars, routeVars,
      countVars, connVars, callerVars
<1> QED BY Zenon, <1>1, <1>2, <1>3, <1>4, <1>5, <1>6, <1>7, <1>8, <1>9, <1>10, <1>11, <1>12, <1>13,
    <1>14, <1>15, <1>16, <1>17, <1>18, <1>19, <1>20, <1>21, <1>22, <1>23, <1>24, <1>25, <1>26,
        <1>27, <1>28, <1>29, <1>30, <1>31 DEF Next, RouteStep, AddStep, ConnStep, ShutdownStep

\* A task does not leave its connections behind.
LEMMA ConnInvStep ==
    ASSUME TypeFacts, ConnFacts, HandlesInv, ConnInv, [Next]_vars
    PROVE  ConnInv'
<1>1. ASSUME NEW r \in Routes, BeginAdd(r) PROVE ConnInv'
  BY <1>1 DEF BeginAdd, Reach, TypeFacts, Running, ConnFacts, HandlesInv, ConnInv, vars,
      managerVars, routeVars, countVars, connVars, callerVars
<1>2. ASSUME NEW r \in Routes, BindRoute(r) PROVE ConnInv'
  BY <1>2 DEF BindRoute, Reach, TypeFacts, Running, ConnFacts, HandlesInv, ConnInv, vars,
      managerVars, routeVars, countVars, connVars, callerVars
<1>3. ASSUME NEW r \in Routes, InsertRoute(r) PROVE ConnInv'
  BY <1>3 DEF InsertRoute, Reach, HasRouteRoom, TypeFacts, Running, ConnFacts, HandlesInv,
      ConnInv, vars, managerVars, routeVars, countVars, connVars, callerVars
<1>4. ASSUME NEW r \in Routes, SpawnRoute(r) PROVE ConnInv'
  BY <1>4 DEF SpawnRoute, Reach, TypeFacts, Running, ConnFacts, HandlesInv, ConnInv, vars,
      managerVars, routeVars, countVars, connVars, callerVars
<1>5. ASSUME NEW r \in Routes, StoreHandle(r) PROVE ConnInv'
  BY <1>5 DEF StoreHandle, Reach, TypeFacts, Running, ConnFacts, HandlesInv, ConnInv, vars,
      managerVars, routeVars, countVars, connVars, callerVars
<1>6. ASSUME NEW r \in Routes, StopSeen(r) PROVE ConnInv'
  BY <1>6 DEF StopSeen, LeaveLoop, TypeFacts, Running, ConnFacts, HandlesInv, ConnInv, vars,
      managerVars, routeVars, countVars, connVars, callerVars
<1>7. ASSUME NEW r \in Routes, TargetGone(r) PROVE ConnInv'
  BY <1>7 DEF TargetGone, LeaveLoop, TypeFacts, Running, ConnFacts, HandlesInv, ConnInv, vars,
      managerVars, routeVars, countVars, connVars, callerVars
<1>8. ASSUME NEW r \in Routes, LooksFirst(r) PROVE ConnInv'
  BY <1>8 DEF LooksFirst, TypeFacts, Running, ConnFacts, HandlesInv, ConnInv, vars, managerVars,
      routeVars, countVars, connVars, callerVars
<1>9. ASSUME NEW r \in Routes, PollEnds(r) PROVE ConnInv'
  BY <1>9 DEF PollEnds, TypeFacts, Running, ConnFacts, HandlesInv, ConnInv, vars, managerVars,
      routeVars, countVars, connVars, callerVars
<1>10. ASSUME NEW r \in Routes, AcceptFails(r) PROVE ConnInv'
  BY <1>10 DEF AcceptFails, LeaveLoop, TypeFacts, Running, ConnFacts, HandlesInv, ConnInv, vars,
      managerVars, routeVars, countVars, connVars, callerVars
<1>11. ASSUME NEW r \in Routes, NEW c \in Conns, NEW p \in Peers, AcceptConn(r, c, p) PROVE ConnInv'
  BY <1>11 DEF AcceptConn, PeerAdmits, CountPeer, TypeFacts, Running, ConnFacts, HandlesInv,
      ConnInv, vars, managerVars, routeVars, countVars, connVars, callerVars
<1>12. ASSUME NEW r \in Routes, RouteEmpty(r) PROVE ConnInv'
  BY <1>12 DEF RouteEmpty, ConnsOf, TypeFacts, Running, ConnFacts, HandlesInv, ConnInv, vars,
      managerVars, routeVars, countVars, connVars, callerVars
<1>13. ASSUME NEW r \in Routes, RouteRemoved(r) PROVE ConnInv'
  BY <1>13 DEF RouteRemoved, TypeFacts, Running, ConnFacts, HandlesInv, ConnInv, vars,
      managerVars, routeVars, countVars, connVars, callerVars
<1>14. ASSUME NEW c \in Conns, ConnOpens(c) PROVE ConnInv'
  BY <1>14 DEF ConnOpens, ConnTo, TypeFacts, Running, ConnFacts, HandlesInv, ConnInv, vars,
      managerVars, routeVars, countVars, connVars, callerVars
<1>15. ASSUME NEW c \in Conns, ConnCloses(c) PROVE ConnInv'
  BY <1>15 DEF ConnCloses, ConnTo, TypeFacts, Running, ConnFacts, HandlesInv, ConnInv, vars,
      managerVars, routeVars, countVars, connVars, callerVars
<1>16. ASSUME NEW c \in Conns, ConnCounted(c) PROVE ConnInv'
  BY ZenonT(40), <1>16 DEF ConnCounted, ConnTo, TypeFacts, Running, ConnFacts, HandlesInv, ConnInv, vars,
      managerVars, routeVars, countVars, connVars, callerVars
<1>17. ASSUME NEW c \in Conns, ConnDropsPeer(c) PROVE ConnInv'
  BY <1>17 DEF ConnDropsPeer, ConnTo, ReleasePeer, TypeFacts, Running, ConnFacts, HandlesInv,
      ConnInv, vars, managerVars, routeVars, countVars, connVars, callerVars
<1>18. ASSUME NEW c \in Conns, ConnDropsPermit(c) PROVE ConnInv'
  BY Zenon, <1>18 DEF ConnDropsPermit, ConnTo, TypeFacts, Running, ConnFacts, HandlesInv, ConnInv, vars,
      managerVars, routeVars, countVars, connVars, callerVars
<1>19. ASSUME NEW c \in Conns, ConnAborted(c) PROVE ConnInv'
  BY <1>19 DEF ConnAborted, ReleasePeer, TypeFacts, Running, ConnFacts, HandlesInv, ConnInv,
      vars, managerVars, routeVars, countVars, connVars, callerVars
<1>20. ASSUME SessionDisconnects PROVE ConnInv'
  BY <1>20 DEF SessionDisconnects, TypeFacts, Running, ConnFacts, HandlesInv, ConnInv, vars,
      managerVars, routeVars, countVars, connVars, callerVars
<1>21. ASSUME NEW r \in Routes, RemoveRoute(r) PROVE ConnInv'
  BY <1>21 DEF RemoveRoute, TypeFacts, Running, ConnFacts, HandlesInv, ConnInv, vars,
      managerVars, routeVars, countVars, connVars, callerVars
<1>22. ASSUME NEW r \in Routes, DrainCall(r) PROVE ConnInv'
  BY <1>22 DEF DrainCall, TypeFacts, Running, ConnFacts, HandlesInv, ConnInv, vars, managerVars,
      routeVars, countVars, connVars, callerVars
<1>23. ASSUME NEW r \in Routes, DrainReturns(r) PROVE ConnInv'
  BY <1>23 DEF DrainReturns, SendersGone, TypeFacts, Running, ConnFacts, HandlesInv, ConnInv,
      vars, managerVars, routeVars, countVars, connVars, callerVars
<1>24. ASSUME NEW r \in Routes, WaitCall(r) PROVE ConnInv'
  BY <1>24 DEF WaitCall, TypeFacts, Running, ConnFacts, HandlesInv, ConnInv, vars, managerVars,
      routeVars, countVars, connVars, callerVars
<1>25. ASSUME NEW r \in Routes, WaitReturns(r) PROVE ConnInv'
  BY <1>25 DEF WaitReturns, SendersGone, TypeFacts, Running, ConnFacts, HandlesInv, ConnInv,
      vars, managerVars, routeVars, countVars, connVars, callerVars
<1>26. ASSUME BeginShutdown PROVE ConnInv'
  BY <1>26 DEF BeginShutdown, TypeFacts, Running, ConnFacts, HandlesInv, ConnInv, vars,
      managerVars, routeVars, countVars, connVars, callerVars
<1>27. ASSUME ShutdownDrained PROVE ConnInv'
  BY <1>27 DEF ShutdownDrained, TypeFacts, Running, ConnFacts, HandlesInv, ConnInv, vars,
      managerVars, routeVars, countVars, connVars, callerVars
<1>28. ASSUME ShutdownDeadline PROVE ConnInv'
  BY <1>28 DEF ShutdownDeadline, TypeFacts, Running, ConnFacts, HandlesInv, ConnInv, vars,
      managerVars, routeVars, countVars, connVars, callerVars
<1>29. ASSUME NEW r \in Routes, AbortRoute(r) PROVE ConnInv'
  BY <1>29 DEF AbortRoute, TypeFacts, Running, ConnFacts, HandlesInv, ConnInv, vars, managerVars,
      routeVars, countVars, connVars, callerVars
<1>30. ASSUME ShutdownForced PROVE ConnInv'
  BY <1>30 DEF ShutdownForced, TypeFacts, Running, ConnFacts, HandlesInv, ConnInv, vars,
      managerVars, routeVars, countVars, connVars, callerVars
<1>31. CASE UNCHANGED vars
  BY Zenon, <1>31 DEF TypeFacts, Running, ConnFacts, HandlesInv, ConnInv, vars, managerVars, routeVars,
      countVars, connVars, callerVars
<1> QED BY ZenonT(40), <1>1, <1>2, <1>3, <1>4, <1>5, <1>6, <1>7, <1>8, <1>9, <1>10, <1>11, <1>12, <1>13,
    <1>14, <1>15, <1>16, <1>17, <1>18, <1>19, <1>20, <1>21, <1>22, <1>23, <1>24, <1>25, <1>26,
        <1>27, <1>28, <1>29, <1>30, <1>31 DEF Next, RouteStep, AddStep, ConnStep, ShutdownStep

\* RouteTaskStopped is answered for aborted tasks only.
LEMMA AnswerStep ==
    ASSUME TypeFacts, CallerFacts, HandlesInv, TableInv, ReportInv, NoSpuriousStop, [Next]_vars
    PROVE  NoSpuriousStop'
<1>1. ASSUME NEW r \in Routes, BeginAdd(r) PROVE NoSpuriousStop'
  BY <1>1 DEF BeginAdd, Reach, TypeFacts, Running, CallerFacts, HandlesInv, TableInv, ReportInv,
      Forced, NoSpuriousStop, vars, managerVars, routeVars, countVars, connVars, callerVars
<1>2. ASSUME NEW r \in Routes, BindRoute(r) PROVE NoSpuriousStop'
  BY <1>2 DEF BindRoute, Reach, TypeFacts, Running, CallerFacts, HandlesInv, TableInv, ReportInv,
      Forced, NoSpuriousStop, vars, managerVars, routeVars, countVars, connVars, callerVars
<1>3. ASSUME NEW r \in Routes, InsertRoute(r) PROVE NoSpuriousStop'
  BY <1>3 DEF InsertRoute, Reach, HasRouteRoom, TypeFacts, Running, CallerFacts, HandlesInv,
      TableInv, ReportInv, Forced, NoSpuriousStop, vars, managerVars, routeVars, countVars,
          connVars, callerVars
<1>4. ASSUME NEW r \in Routes, SpawnRoute(r) PROVE NoSpuriousStop'
  BY <1>4 DEF SpawnRoute, Reach, TypeFacts, Running, CallerFacts, HandlesInv, TableInv,
      ReportInv, Forced, NoSpuriousStop, vars, managerVars, routeVars, countVars, connVars,
          callerVars
<1>5. ASSUME NEW r \in Routes, StoreHandle(r) PROVE NoSpuriousStop'
  BY <1>5 DEF StoreHandle, Reach, TypeFacts, Running, CallerFacts, HandlesInv, TableInv,
      ReportInv, Forced, NoSpuriousStop, vars, managerVars, routeVars, countVars, connVars,
          callerVars
<1>6. ASSUME NEW r \in Routes, StopSeen(r) PROVE NoSpuriousStop'
  BY <1>6 DEF StopSeen, LeaveLoop, TypeFacts, Running, CallerFacts, HandlesInv, TableInv,
      ReportInv, Forced, NoSpuriousStop, vars, managerVars, routeVars, countVars, connVars,
          callerVars
<1>7. ASSUME NEW r \in Routes, TargetGone(r) PROVE NoSpuriousStop'
  BY <1>7 DEF TargetGone, LeaveLoop, TypeFacts, Running, CallerFacts, HandlesInv, TableInv,
      ReportInv, Forced, NoSpuriousStop, vars, managerVars, routeVars, countVars, connVars,
          callerVars
<1>8. ASSUME NEW r \in Routes, LooksFirst(r) PROVE NoSpuriousStop'
  BY <1>8 DEF LooksFirst, TypeFacts, Running, CallerFacts, HandlesInv, TableInv, ReportInv,
      Forced, NoSpuriousStop, vars, managerVars, routeVars, countVars, connVars, callerVars
<1>9. ASSUME NEW r \in Routes, PollEnds(r) PROVE NoSpuriousStop'
  BY Zenon, <1>9 DEF PollEnds, TypeFacts, Running, CallerFacts, HandlesInv, TableInv, ReportInv, Forced,
      NoSpuriousStop, vars, managerVars, routeVars, countVars, connVars, callerVars
<1>10. ASSUME NEW r \in Routes, AcceptFails(r) PROVE NoSpuriousStop'
  BY <1>10 DEF AcceptFails, LeaveLoop, TypeFacts, Running, CallerFacts, HandlesInv, TableInv,
      ReportInv, Forced, NoSpuriousStop, vars, managerVars, routeVars, countVars, connVars,
          callerVars
<1>11. ASSUME NEW r \in Routes, NEW c \in Conns, NEW p \in Peers, AcceptConn(r, c,
    p) PROVE NoSpuriousStop'
  BY Zenon, <1>11 DEF AcceptConn, PeerAdmits, CountPeer, TypeFacts, Running, CallerFacts, HandlesInv,
      TableInv, ReportInv, Forced, NoSpuriousStop, vars, managerVars, routeVars, countVars,
          connVars, callerVars
<1>12. ASSUME NEW r \in Routes, RouteEmpty(r) PROVE NoSpuriousStop'
  BY <1>12 DEF RouteEmpty, ConnsOf, TypeFacts, Running, CallerFacts, HandlesInv, TableInv,
      ReportInv, Forced, NoSpuriousStop, vars, managerVars, routeVars, countVars, connVars,
          callerVars
<1>13. ASSUME NEW r \in Routes, RouteRemoved(r) PROVE NoSpuriousStop'
  BY <1>13 DEF RouteRemoved, TypeFacts, Running, CallerFacts, HandlesInv, TableInv, ReportInv,
      Forced, NoSpuriousStop, vars, managerVars, routeVars, countVars, connVars, callerVars
<1>14. ASSUME NEW c \in Conns, ConnOpens(c) PROVE NoSpuriousStop'
  BY <1>14 DEF ConnOpens, ConnTo, TypeFacts, Running, CallerFacts, HandlesInv, TableInv,
      ReportInv, Forced, NoSpuriousStop, vars, managerVars, routeVars, countVars, connVars,
          callerVars
<1>15. ASSUME NEW c \in Conns, ConnCloses(c) PROVE NoSpuriousStop'
  BY Zenon, <1>15 DEF ConnCloses, ConnTo, TypeFacts, Running, CallerFacts, HandlesInv, TableInv,
      ReportInv, Forced, NoSpuriousStop, vars, managerVars, routeVars, countVars, connVars,
          callerVars
<1>16. ASSUME NEW c \in Conns, ConnCounted(c) PROVE NoSpuriousStop'
  BY <1>16 DEF ConnCounted, ConnTo, TypeFacts, Running, CallerFacts, HandlesInv, TableInv,
      ReportInv, Forced, NoSpuriousStop, vars, managerVars, routeVars, countVars, connVars,
          callerVars
<1>17. ASSUME NEW c \in Conns, ConnDropsPeer(c) PROVE NoSpuriousStop'
  BY <1>17 DEF ConnDropsPeer, ConnTo, ReleasePeer, TypeFacts, Running, CallerFacts, HandlesInv,
      TableInv, ReportInv, Forced, NoSpuriousStop, vars, managerVars, routeVars, countVars,
          connVars, callerVars
<1>18. ASSUME NEW c \in Conns, ConnDropsPermit(c) PROVE NoSpuriousStop'
  BY Zenon, <1>18 DEF ConnDropsPermit, ConnTo, TypeFacts, Running, CallerFacts, HandlesInv, TableInv,
      ReportInv, Forced, NoSpuriousStop, vars, managerVars, routeVars, countVars, connVars,
          callerVars
<1>19. ASSUME NEW c \in Conns, ConnAborted(c) PROVE NoSpuriousStop'
  BY Zenon, <1>19 DEF ConnAborted, ReleasePeer, TypeFacts, Running, CallerFacts, HandlesInv, TableInv,
      ReportInv, Forced, NoSpuriousStop, vars, managerVars, routeVars, countVars, connVars,
          callerVars
<1>20. ASSUME SessionDisconnects PROVE NoSpuriousStop'
  BY <1>20 DEF SessionDisconnects, TypeFacts, Running, CallerFacts, HandlesInv, TableInv,
      ReportInv, Forced, NoSpuriousStop, vars, managerVars, routeVars, countVars, connVars,
          callerVars
<1>21. ASSUME NEW r \in Routes, RemoveRoute(r) PROVE NoSpuriousStop'
  BY Zenon, <1>21 DEF RemoveRoute, TypeFacts, Running, CallerFacts, HandlesInv, TableInv, ReportInv,
      Forced, NoSpuriousStop, vars, managerVars, routeVars, countVars, connVars, callerVars
<1>22. ASSUME NEW r \in Routes, DrainCall(r) PROVE NoSpuriousStop'
  BY <1>22 DEF DrainCall, TypeFacts, Running, CallerFacts, HandlesInv, TableInv, ReportInv,
      Forced, NoSpuriousStop, vars, managerVars, routeVars, countVars, connVars, callerVars
<1>23. ASSUME NEW r \in Routes, DrainReturns(r) PROVE NoSpuriousStop'
  BY <1>23 DEF DrainReturns, SendersGone, TypeFacts, Running, CallerFacts, HandlesInv, TableInv,
      ReportInv, Forced, NoSpuriousStop, vars, managerVars, routeVars, countVars, connVars,
          callerVars
<1>24. ASSUME NEW r \in Routes, WaitCall(r) PROVE NoSpuriousStop'
  BY <1>24 DEF WaitCall, TypeFacts, Running, CallerFacts, HandlesInv, TableInv, ReportInv,
      Forced, NoSpuriousStop, vars, managerVars, routeVars, countVars, connVars, callerVars
<1>25. ASSUME NEW r \in Routes, WaitReturns(r) PROVE NoSpuriousStop'
  BY <1>25 DEF WaitReturns, SendersGone, TypeFacts, Running, CallerFacts, HandlesInv, TableInv,
      ReportInv, Forced, NoSpuriousStop, vars, managerVars, routeVars, countVars, connVars,
          callerVars
<1>26. ASSUME BeginShutdown PROVE NoSpuriousStop'
  BY <1>26 DEF BeginShutdown, TypeFacts, Running, CallerFacts, HandlesInv, TableInv, ReportInv,
      Forced, NoSpuriousStop, vars, managerVars, routeVars, countVars, connVars, callerVars
<1>27. ASSUME ShutdownDrained PROVE NoSpuriousStop'
  BY <1>27 DEF ShutdownDrained, TypeFacts, Running, CallerFacts, HandlesInv, TableInv, ReportInv,
      Forced, NoSpuriousStop, vars, managerVars, routeVars, countVars, connVars, callerVars
<1>28. ASSUME ShutdownDeadline PROVE NoSpuriousStop'
  BY <1>28 DEF ShutdownDeadline, TypeFacts, Running, CallerFacts, HandlesInv, TableInv,
      ReportInv, Forced, NoSpuriousStop, vars, managerVars, routeVars, countVars, connVars,
          callerVars
<1>29. ASSUME NEW r \in Routes, AbortRoute(r) PROVE NoSpuriousStop'
  BY <1>29 DEF AbortRoute, TypeFacts, Running, CallerFacts, HandlesInv, TableInv, ReportInv,
      Forced, NoSpuriousStop, vars, managerVars, routeVars, countVars, connVars, callerVars
<1>30. ASSUME ShutdownForced PROVE NoSpuriousStop'
  BY <1>30 DEF ShutdownForced, TypeFacts, Running, CallerFacts, HandlesInv, TableInv, ReportInv,
      Forced, NoSpuriousStop, vars, managerVars, routeVars, countVars, connVars, callerVars
<1>31. CASE UNCHANGED vars
  BY <1>31 DEF TypeFacts, Running, CallerFacts, HandlesInv, TableInv, ReportInv, Forced,
      NoSpuriousStop, vars, managerVars, routeVars, countVars, connVars, callerVars
<1> QED BY ZenonT(40), <1>1, <1>2, <1>3, <1>4, <1>5, <1>6, <1>7, <1>8, <1>9, <1>10, <1>11, <1>12, <1>13,
    <1>14, <1>15, <1>16, <1>17, <1>18, <1>19, <1>20, <1>21, <1>22, <1>23, <1>24, <1>25, <1>26,
        <1>27, <1>28, <1>29, <1>30, <1>31 DEF Next, RouteStep, AddStep, ConnStep, ShutdownStep

\* Only InsertRoute makes the table larger, and it looks at the limit first.
LEMMA LimitStep ==
    ASSUME TypeFacts, Cardinality(table) <= MaxRoutes, [Next]_vars
    PROVE  Cardinality(table)' <= MaxRoutes
<1>1. IsFiniteSet(table)
  BY RoutesAssumption, FS_Subset DEF TypeFacts
<1>2. Cardinality(table) \in Nat
  BY <1>1, FS_CardinalityType
<1>3. \A S : S \subseteq table => Cardinality(S) \in Nat /\ Cardinality(S) <= Cardinality(table)
  BY <1>1, FS_Subset, FS_CardinalityType
<1>4. \/ table' \subseteq table
      \/ \E r \in Routes : table' = table \cup {r} /\ Cardinality(table) < MaxRoutes
  <2>1. ASSUME NEW r \in Routes, InsertRoute(r)
        PROVE  table' = table \/ (table' = table \cup {r} /\ Cardinality(table) < MaxRoutes)
    BY Zenon, <2>1 DEF InsertRoute, HasRouteRoom
  <2>2. ASSUME NEW r \in Routes, RouteRemoved(r) PROVE table' \subseteq table
    BY <2>2 DEF RouteRemoved
  <2>3. ASSUME ShutdownDeadline PROVE table' \subseteq table
    BY Zenon, <2>3 DEF ShutdownDeadline
  <2>4. ASSUME NEW r \in Routes,
               \/ BeginAdd(r) \/ BindRoute(r) \/ SpawnRoute(r) \/ StoreHandle(r)
               \/ StopSeen(r) \/ TargetGone(r) \/ LooksFirst(r) \/ PollEnds(r)
               \/ AcceptFails(r) \/ RouteEmpty(r)
        PROVE  table' = table
    BY <2>4 DEF BeginAdd, BindRoute, SpawnRoute, StoreHandle, StopSeen, TargetGone, LooksFirst,
                PollEnds, AcceptFails, RouteEmpty, LeaveLoop, managerVars
  <2>5. ASSUME NEW r \in Routes,
               \/ RemoveRoute(r) \/ DrainCall(r) \/ DrainReturns(r) \/ WaitCall(r)
               \/ WaitReturns(r) \/ AbortRoute(r)
        PROVE  table' = table
    BY <2>5 DEF RemoveRoute, DrainCall, DrainReturns, WaitCall, WaitReturns, AbortRoute,
                managerVars
  <2>6. ASSUME NEW r \in Routes, NEW c \in Conns, NEW p \in Peers, AcceptConn(r, c, p)
        PROVE  table' = table
    BY Zenon, <2>6 DEF AcceptConn, managerVars
  <2>7. ASSUME NEW c \in Conns, ConnStep(c) \/ ConnCloses(c)
        PROVE  table' = table
    BY <2>7 DEF ConnStep, ConnOpens, ConnCloses, ConnCounted, ConnDropsPeer, ConnDropsPermit,
                ConnAborted, managerVars
  <2>8. ASSUME SessionDisconnects \/ BeginShutdown \/ ShutdownDrained \/ ShutdownForced
        PROVE  table' = table
    BY <2>8 DEF SessionDisconnects, BeginShutdown, ShutdownDrained, ShutdownForced, managerVars
  <2>9. CASE UNCHANGED vars
    BY <2>9 DEF vars, managerVars
  <2> QED BY <2>1, <2>2, <2>3, <2>4, <2>5, <2>6, <2>7, <2>8, <2>9
          DEF Next, RouteStep, AddStep, ShutdownStep
<1>5. MaxRoutes \in Nat
  BY LimitsAssumption
<1>6. CASE table' \subseteq table
  <2>1. Cardinality(table') \in Nat /\ Cardinality(table') <= Cardinality(table)
    BY <1>3, <1>6
  <2> QED BY <1>2, <1>5, <2>1
<1>7. ASSUME NEW r \in Routes, table' = table \cup {r}, Cardinality(table) < MaxRoutes
      PROVE  Cardinality(table') <= MaxRoutes
  <2>1. Cardinality(table \cup {r}) \in {Cardinality(table), Cardinality(table) + 1}
    BY <1>1, FS_AddElement
  <2>2. Cardinality(table') \in {Cardinality(table), Cardinality(table) + 1}
    BY <1>7, <2>1
  <2> QED BY <1>2, <1>5, <1>7, <2>2
<1>8. Cardinality(table') <= MaxRoutes
  BY <1>4, <1>6, <1>7
<1> QED BY <1>8

-----------------------------------------------------------------------------
(* The theorems.                                                           *)

\* The invariant holds of a manager without routes.
LEMMA InitRouteInv == Init => RouteInv
<1> SUFFICES ASSUME Init PROVE RouteInv
  OBVIOUS
<1>1. Cardinality(table) <= MaxRoutes
  BY FS_EmptySet, LimitsAssumption DEF Init
<1>2. TypeFacts /\ CountFacts /\ ConnFacts /\ CallerFacts
  BY LimitsAssumption DEF Init, TypeFacts, CountFacts, ConnFacts, CallerFacts, Running
<1>3. HandlesInv /\ TableInv /\ ReportInv /\ ConnInv /\ NoSpuriousStop
  BY DEF Init, HandlesInv, TableInv, ReportInv, ConnInv, NoSpuriousStop, Forced, Running
<1> QED BY <1>1, <1>2, <1>3, TypeParts DEF RouteInv

\* Every step keeps the invariant.
LEMMA NextRouteInv == RouteInv /\ [Next]_vars => RouteInv'
<1> SUFFICES ASSUME RouteInv, [Next]_vars PROVE RouteInv'
  OBVIOUS
<1>1. /\ TypeFacts /\ CountFacts /\ ConnFacts /\ CallerFacts /\ Cardinality(table) <= MaxRoutes
      /\ HandlesInv /\ TableInv /\ ReportInv /\ ConnInv /\ NoSpuriousStop
  BY TypeParts DEF RouteInv
<1>2. TypeOK'
  BY <1>1, TypeFactsStep, CountFactsStep, ConnFactsStep, CallerFactsStep, LimitStep, TypePartsNext
<1>3. HandlesInv' /\ TableInv' /\ ReportInv'
  BY <1>1, HandlesStep, TableStep, ReportStep
<1>4. ConnInv' /\ NoSpuriousStop'
  BY <1>1, ConnInvStep, AnswerStep
<1> QED BY <1>2, <1>3, <1>4 DEF RouteInv

\* The invariant of the raw ingress routes holds in every behaviour of the
\* manager, its route tasks and its callers.
THEOREM RouteInvariant == Spec => []RouteInv
BY InitRouteInv, NextRouteInv, PTL DEF Spec

\* The manager and its route tasks keep their types, and the table never
\* exceeds max_routes.
THEOREM RouteTypes == Spec => []TypeOK
<1>1. RouteInv => TypeOK
  BY DEF RouteInv
<1> QED BY <1>1, RouteInvariant, PTL

\* The table lists exactly the running routes and those about to be spawned,
\* until a shutdown is forced.
THEOREM TableTruthful == Spec => []TableMatchesTasks
<1>1. RouteInv => TableMatchesTasks
  BY DEF RouteInv, TableInv, Forced, TableMatchesTasks
<1> QED BY <1>1, RouteInvariant, PTL

\* What is left when shutdown returns: nothing after a drain, and after an
\* abort only tasks whose handle add_route had not stored, told to stop.
THEOREM ShutdownSafe == Spec => []ShutdownFinal
<1>1. RouteInv => ShutdownFinal
  <2> SUFFICES ASSUME RouteInv PROVE ShutdownFinal
    OBVIOUS
  <2>1. TypeFacts /\ TableInv /\ ConnInv
    BY TypeParts DEF RouteInv
  <2>2. ASSUME shutdown = "drained", NEW r \in Routes
        PROVE  task[r] \notin Running /\ call[r] # "inserted" /\ ConnsOf(r) = {}
    <3>1. task[r] \notin Running /\ call[r] # "inserted" /\ task[r] # "aborted"
      BY <2>1, <2>2 DEF TableInv, Forced
    <3>2. ConnsOf(r) = {}
      BY Zenon, <2>1, <3>1 DEF ConnInv, ConnsOf, Running
    <3> QED BY <3>1, <3>2
  <2>3. ASSUME shutdown = "forced", NEW r \in Routes, task[r] \in Running
        PROVE  r \notin aborting /\ stop[r]
    BY <2>1, <2>3 DEF TableInv
  <2> QED BY <2>2, <2>3 DEF ShutdownFinal
<1> QED BY <1>1, RouteInvariant, PTL

\* wait_until_removed never reports RouteTaskStopped, and drain_route only for
\* a task that a forced shutdown aborted.
THEOREM AnswersTruthful == Spec => []NoSpuriousStop
<1>1. RouteInv => NoSpuriousStop
  BY DEF RouteInv
<1> QED BY <1>1, RouteInvariant, PTL

-----------------------------------------------------------------------------
(* The admission counters.                                                 *)

\* Counting one connection more.
LEMMA CountMore ==
    ASSUME NEW S, NEW x, IsFiniteSet(S), x \notin S
    PROVE  Cardinality(S \cup {x}) = Cardinality(S) + 1 /\ Cardinality(S) \in Nat
BY FS_AddElement, FS_CardinalityType

\* Counting one connection less.
LEMMA CountLess ==
    ASSUME NEW S, NEW x, IsFiniteSet(S), x \in S
    PROVE  /\ Cardinality(S \ {x}) = Cardinality(S) - 1
           /\ Cardinality(S) \in Nat /\ Cardinality(S) # 0
<1>1. Cardinality(S) \in Nat
  BY FS_CardinalityType
<1>2. Cardinality(S \ {x}) = Cardinality(S) - 1 /\ IsFiniteSet(S \ {x})
  BY FS_RemoveElement
<1>3. Cardinality(S \ {x}) \in Nat
  BY <1>2, FS_CardinalityType
<1>4. Cardinality(S) # 0
  BY <1>1, <1>2, <1>3
<1> QED BY <1>1, <1>2, <1>4

\* The sets that are counted are finite.
LEMMA HeldFinite ==
    ASSUME NEW r, NEW p
    PROVE  IsFiniteSet(ConnsOf(r)) /\ IsFiniteSet(OfPeer(r, p)) /\ IsFiniteSet(Unreported(r))
<1>1. ConnsOf(r) \subseteq Conns /\ OfPeer(r, p) \subseteq Conns /\ Unreported(r) \subseteq Conns
  BY Zenon DEF ConnsOf, OfPeer, Unreported
<1> QED BY <1>1, ConnsAssumption, FS_Subset

PermitsExact == \A r \in Routes : permits[r] + Cardinality(ConnsOf(r)) = MaxConns
PeersExact ==
    \A r \in PublicRoutes : \A p \in Peers :
        perIp[r][p] <= MaxPerIp /\ perIp[r][p] = Cardinality(OfPeer(r, p))
ActiveExact == \A r \in Routes : task[r] # "aborted" => active[r] = Cardinality(Unreported(r))

\* A step that is not a connection's touches neither counters nor connections,
\* and no task comes back from an abort.
Quiet ==
    /\ UNCHANGED <<active, permits, perIp, conn, at, peer>>
    /\ \A r \in Routes : task[r] = "aborted" => task'[r] = "aborted"

\* Every step is quiet, an accept, or a step of one connection.
LEMMA StepKinds ==
    ASSUME TypeFacts, HandlesInv, [Next]_vars
    PROVE  \/ Quiet
           \/ \E r \in Routes, c \in Conns, p \in Peers : AcceptConn(r, c, p)
           \/ \E c \in Conns : ConnStep(c) \/ ConnCloses(c)
<1>1. ASSUME NEW r \in Routes, BeginAdd(r) PROVE Quiet
  BY Zenon, <1>1 DEF BeginAdd, Reach, Quiet, TypeFacts, HandlesInv, Running, vars, managerVars,
      routeVars, countVars, connVars, callerVars
<1>2. ASSUME NEW r \in Routes, BindRoute(r) PROVE Quiet
  BY Zenon, <1>2 DEF BindRoute, Reach, Quiet, TypeFacts, HandlesInv, Running, vars, managerVars,
      routeVars, countVars, connVars, callerVars
<1>3. ASSUME NEW r \in Routes, InsertRoute(r) PROVE Quiet
  BY Zenon, <1>3 DEF InsertRoute, Quiet, TypeFacts, HandlesInv, Running, vars, managerVars, routeVars,
      countVars, connVars, callerVars
<1>4. ASSUME NEW r \in Routes, SpawnRoute(r) PROVE Quiet
  BY Zenon, <1>4 DEF SpawnRoute, Reach, Quiet, TypeFacts, HandlesInv, Running, vars, managerVars,
      routeVars, countVars, connVars, callerVars
<1>5. ASSUME NEW r \in Routes, StoreHandle(r) PROVE Quiet
  BY Zenon, <1>5 DEF StoreHandle, Reach, Quiet, TypeFacts, HandlesInv, Running, vars, managerVars,
      routeVars, countVars, connVars, callerVars
<1>6. ASSUME NEW r \in Routes, StopSeen(r) PROVE Quiet
  BY Zenon, <1>6 DEF StopSeen, LeaveLoop, Quiet, TypeFacts, HandlesInv, Running, vars, managerVars,
      routeVars, countVars, connVars, callerVars
<1>7. ASSUME NEW r \in Routes, TargetGone(r) PROVE Quiet
  BY Zenon, <1>7 DEF TargetGone, LeaveLoop, Quiet, TypeFacts, HandlesInv, Running, vars, managerVars,
      routeVars, countVars, connVars, callerVars
<1>8. ASSUME NEW r \in Routes, LooksFirst(r) PROVE Quiet
  BY Zenon, <1>8 DEF LooksFirst, Quiet, TypeFacts, HandlesInv, Running, vars, managerVars, routeVars,
      countVars, connVars, callerVars
<1>9. ASSUME NEW r \in Routes, PollEnds(r) PROVE Quiet
  BY <1>9 DEF PollEnds, Quiet, TypeFacts, HandlesInv, Running, vars, managerVars, routeVars,
      countVars, connVars, callerVars
<1>10. ASSUME NEW r \in Routes, AcceptFails(r) PROVE Quiet
  BY Zenon, <1>10 DEF AcceptFails, LeaveLoop, Quiet, TypeFacts, HandlesInv, Running, vars, managerVars,
      routeVars, countVars, connVars, callerVars
<1>11. ASSUME NEW r \in Routes, RouteEmpty(r) PROVE Quiet
  BY Zenon, <1>11 DEF RouteEmpty, Quiet, TypeFacts, HandlesInv, Running, vars, managerVars, routeVars,
      countVars, connVars, callerVars
<1>12. ASSUME NEW r \in Routes, RouteRemoved(r) PROVE Quiet
  BY Zenon, <1>12 DEF RouteRemoved, Quiet, TypeFacts, HandlesInv, Running, vars, managerVars, routeVars,
      countVars, connVars, callerVars
<1>13. ASSUME SessionDisconnects PROVE Quiet
  BY <1>13 DEF SessionDisconnects, Quiet, TypeFacts, HandlesInv, Running, vars, managerVars,
      routeVars, countVars, connVars, callerVars
<1>14. ASSUME NEW r \in Routes, RemoveRoute(r) PROVE Quiet
  BY Zenon, <1>14 DEF RemoveRoute, Quiet, TypeFacts, HandlesInv, Running, vars, managerVars, routeVars,
      countVars, connVars, callerVars
<1>15. ASSUME NEW r \in Routes, DrainCall(r) PROVE Quiet
  BY Zenon, <1>15 DEF DrainCall, Quiet, TypeFacts, HandlesInv, Running, vars, managerVars, routeVars,
      countVars, connVars, callerVars
<1>16. ASSUME NEW r \in Routes, DrainReturns(r) PROVE Quiet
  BY Zenon, <1>16 DEF DrainReturns, Quiet, TypeFacts, HandlesInv, Running, vars, managerVars, routeVars,
      countVars, connVars, callerVars
<1>17. ASSUME NEW r \in Routes, WaitCall(r) PROVE Quiet
  BY Zenon, <1>17 DEF WaitCall, Quiet, TypeFacts, HandlesInv, Running, vars, managerVars, routeVars,
      countVars, connVars, callerVars
<1>18. ASSUME NEW r \in Routes, WaitReturns(r) PROVE Quiet
  BY Zenon, <1>18 DEF WaitReturns, Quiet, TypeFacts, HandlesInv, Running, vars, managerVars, routeVars,
      countVars, connVars, callerVars
<1>19. ASSUME BeginShutdown PROVE Quiet
  BY Zenon, <1>19 DEF BeginShutdown, Quiet, TypeFacts, HandlesInv, Running, vars, managerVars,
      routeVars, countVars, connVars, callerVars
<1>20. ASSUME ShutdownDrained PROVE Quiet
  BY Zenon, <1>20 DEF ShutdownDrained, Quiet, TypeFacts, HandlesInv, Running, vars, managerVars,
      routeVars, countVars, connVars, callerVars
<1>21. ASSUME ShutdownDeadline PROVE Quiet
  BY Zenon, <1>21 DEF ShutdownDeadline, Quiet, TypeFacts, HandlesInv, Running, vars, managerVars,
      routeVars, countVars, connVars, callerVars
<1>22. ASSUME NEW r \in Routes, AbortRoute(r) PROVE Quiet
  BY Zenon, <1>22 DEF AbortRoute, Quiet, TypeFacts, HandlesInv, Running, vars, managerVars, routeVars,
      countVars, connVars, callerVars
<1>23. ASSUME ShutdownForced PROVE Quiet
  BY <1>23 DEF ShutdownForced, Quiet, TypeFacts, HandlesInv, Running, vars, managerVars,
      routeVars, countVars, connVars, callerVars
<1>24. CASE UNCHANGED vars
  BY <1>24 DEF Quiet, vars, managerVars, routeVars, countVars, connVars, callerVars
<1> QED BY ZenonT(40), <1>1, <1>2, <1>3, <1>4, <1>5, <1>6, <1>7, <1>8, <1>9, <1>10, <1>11, <1>12, <1>13,
    <1>14, <1>15, <1>16, <1>17, <1>18, <1>19, <1>20, <1>21, <1>22, <1>23, <1>24 DEF Next,
        RouteStep, AddStep, ShutdownStep

\* Permits: taken on accept, given back as the last act of a connection.
LEMMA PermitsStep ==
    ASSUME TypeFacts, CountFacts, ConnFacts, HandlesInv, ConnInv, PermitsExact, [Next]_vars
    PROVE  PermitsExact'
<1>1. CASE Quiet
  BY <1>1 DEF Quiet, PermitsExact, ConnsOf
<1>2. ASSUME NEW c \in Conns, conn[c] # "free", conn'[c] # "free", permits' = permits, at' = at,
             \A d \in Conns : d # c => conn'[d] = conn[d]
      PROVE  PermitsExact'
  <2>1. ASSUME NEW r \in Routes PROVE ConnsOf(r)' = ConnsOf(r)
    BY <1>2 DEF ConnsOf
  <2> QED BY <1>2, <2>1 DEF PermitsExact
<1>3. ASSUME NEW q \in Routes, NEW c \in Conns, NEW p \in Peers, AcceptConn(q, c, p)
      PROVE  PermitsExact'
  <2>1. /\ conn[c] = "free" /\ conn' = [conn EXCEPT ![c] = "opening"]
        /\ at' = [at EXCEPT ![c] = q] /\ permits' = [permits EXCEPT ![q] = permits[q] - 1]
    BY <1>3 DEF AcceptConn
  <2>2. \A r \in Routes : r # q => ConnsOf(r)' = ConnsOf(r) /\ permits'[r] = permits[r]
    BY <2>1 DEF ConnsOf, ConnFacts, CountFacts
  <2>3. ConnsOf(q)' = ConnsOf(q) \cup {c} /\ c \notin ConnsOf(q) /\ permits'[q] = permits[q] - 1
    BY Zenon, <2>1 DEF ConnsOf, ConnFacts, CountFacts
  <2>4. Cardinality(ConnsOf(q) \cup {c}) = Cardinality(ConnsOf(q)) + 1 /\ Cardinality(ConnsOf(q)) \in Nat
    BY <2>3, HeldFinite, CountMore
  <2>5. permits[q] \in Nat /\ permits[q] + Cardinality(ConnsOf(q)) = MaxConns
    BY DEF PermitsExact, CountFacts
  <2>6. permits'[q] + Cardinality(ConnsOf(q)') = MaxConns
    BY <2>3, <2>4, <2>5
  <2> QED BY SMTT(30), <2>2, <2>6 DEF PermitsExact
<1>4. ASSUME NEW c \in Conns, ConnDropsPermit(c) PROVE PermitsExact'
  <2>0. PICK q \in Routes : q = at[c]
    BY <1>4 DEF ConnDropsPermit, ConnTo, ConnInv
  <2>1. /\ conn[c] # "free" /\ conn' = [conn EXCEPT ![c] = "free"]
        /\ at' = [at EXCEPT ![c] = None] /\ permits' = [permits EXCEPT ![q] = permits[q] + 1]
    BY <1>4, <2>0 DEF ConnDropsPermit, ConnTo
  <2>2. \A r \in Routes : r # q => ConnsOf(r)' = ConnsOf(r) /\ permits'[r] = permits[r]
    BY <2>0, <2>1 DEF ConnsOf, ConnFacts, CountFacts
  <2>3. ConnsOf(q)' = ConnsOf(q) \ {c} /\ c \in ConnsOf(q) /\ permits'[q] = permits[q] + 1
    BY ZenonT(40), <2>0, <2>1 DEF ConnsOf, ConnFacts, CountFacts
  <2>4. Cardinality(ConnsOf(q) \ {c}) = Cardinality(ConnsOf(q)) - 1 /\ Cardinality(ConnsOf(q)) \in Nat
    BY <2>3, HeldFinite, CountLess
  <2>5. permits[q] \in Nat /\ permits[q] + Cardinality(ConnsOf(q)) = MaxConns
    BY DEF PermitsExact, CountFacts
  <2>6. permits'[q] + Cardinality(ConnsOf(q)') = MaxConns
    BY <2>3, <2>4, <2>5
  <2> QED BY <2>2, <2>6 DEF PermitsExact
<1>5. ASSUME NEW c \in Conns, ConnStep(c) \/ ConnCloses(c), ~ConnDropsPermit(c)
      PROVE  /\ conn[c] # "free" /\ conn'[c] # "free" /\ permits' = permits /\ at' = at
             /\ \A d \in Conns : d # c => conn'[d] = conn[d]
  BY Zenon, <1>5 DEF ConnStep, ConnOpens, ConnCloses, ConnCounted, ConnDropsPeer, ConnAborted, ConnTo,
              ConnFacts, countVars
<1>6. ASSUME NEW c \in Conns, ConnStep(c) \/ ConnCloses(c), ~ConnDropsPermit(c) PROVE PermitsExact'
  BY Zenon, <1>2, <1>5, <1>6
<1> QED BY <1>1, <1>3, <1>4, <1>6, StepKinds DEF ConnStep

\* PeerAdmission: counted on accept, released when the permit is dropped.
LEMMA PeersStep ==
    ASSUME TypeFacts, CountFacts, ConnFacts, HandlesInv, ConnInv, PeersExact, [Next]_vars
    PROVE  PeersExact'
<1>0. PublicRoutes \subseteq Routes /\ MaxPerIp \in Nat
  BY RoutesAssumption, LimitsAssumption
<1>1. CASE Quiet
  BY ZenonT(40), <1>1 DEF Quiet, PeersExact, OfPeer, ConnsOf
<1>2. ASSUME NEW c \in Conns, conn[c] \notin {"free", "unpeered"}, conn'[c] \notin {"free",
    "unpeered"},
             perIp' = perIp, at' = at, peer' = peer, \A d \in Conns : d # c => conn'[d] = conn[d]
      PROVE  PeersExact'
  <2>1. ASSUME NEW r, NEW p PROVE OfPeer(r, p)' = OfPeer(r, p)
    BY Zenon, <1>2 DEF OfPeer, ConnsOf
  <2> QED BY Zenon, <1>2, <2>1 DEF PeersExact
<1>3. ASSUME NEW q \in Routes, NEW c \in Conns, NEW o \in Peers, AcceptConn(q, c, o)
      PROVE  PeersExact'
  <2>1. /\ conn[c] = "free" /\ conn' = [conn EXCEPT ![c] = "opening"]
        /\ at' = [at EXCEPT ![c] = q] /\ peer' = [peer EXCEPT ![c] = o]
    BY <1>3 DEF AcceptConn
  <2>2. /\ q \in PublicRoutes => perIp[q][o] < MaxPerIp
        /\ perIp' = IF q \in PublicRoutes THEN [perIp EXCEPT ![q][o] = @ + 1] ELSE perIp
    BY <1>3 DEF AcceptConn, PeerAdmits, CountPeer
  <2>3. \A r \in PublicRoutes, p \in Peers : (r # q \/ p # o) => perIp'[r][p] = perIp[r][p]
    BY Zenon, <1>0, <2>2 DEF CountFacts
  <2>4. \A r \in PublicRoutes, p \in Peers : (r # q \/ p # o) => OfPeer(r, p)' = OfPeer(r, p)
    BY <2>1 DEF OfPeer, ConnsOf, ConnFacts
  <2>5. OfPeer(q, o)' = OfPeer(q, o) \cup {c} /\ c \notin OfPeer(q, o)
    BY <2>1 DEF OfPeer, ConnsOf, ConnFacts
  <2>6. /\ Cardinality(OfPeer(q, o) \cup {c}) = Cardinality(OfPeer(q, o)) + 1
        /\ Cardinality(OfPeer(q, o)) \in Nat
    BY <2>5, HeldFinite, CountMore
  <2>7. ASSUME q \in PublicRoutes
        PROVE  perIp'[q][o] <= MaxPerIp /\ perIp'[q][o] = Cardinality(OfPeer(q, o)')
    <3>1. perIp'[q][o] = perIp[q][o] + 1 /\ perIp[q][o] \in Nat
      BY Zenon, <2>2, <2>7 DEF CountFacts
    <3>2. perIp[q][o] = Cardinality(OfPeer(q, o))
      BY Zenon, <2>7 DEF PeersExact
    <3> QED BY <1>0, <2>2, <2>5, <2>6, <2>7, <3>1, <3>2
  <2> QED BY ZenonT(40), <2>3, <2>4, <2>7 DEF PeersExact
<1>4. ASSUME NEW c \in Conns, conn[c] \notin {"free", "unpeered"},
    conn' = [conn EXCEPT ![c] = "unpeered"],
             ReleasePeer(c), at' = at, peer' = peer
      PROVE  PeersExact'
  <2>0. PICK q \in Routes, o \in Peers : q = at[c] /\ o = peer[c]
    BY <1>4 DEF ConnInv
  <2>1. perIp' = [perIp EXCEPT ![q][o] = IF @ = 0 THEN 0 ELSE @ - 1]
    BY <1>4, <2>0 DEF ReleasePeer
  <2>2. \A r \in PublicRoutes, p \in Peers : (r # q \/ p # o) => perIp'[r][p] = perIp[r][p]
    BY <1>0, <2>1 DEF CountFacts
  <2>3. \A r \in PublicRoutes, p \in Peers : (r # q \/ p # o) => OfPeer(r, p)' = OfPeer(r, p)
    BY <1>4, <2>0 DEF OfPeer, ConnsOf, ConnFacts
  <2>4. OfPeer(q, o)' = OfPeer(q, o) \ {c} /\ c \in OfPeer(q, o)
    BY <1>4, <2>0 DEF OfPeer, ConnsOf, ConnFacts
  <2>5. /\ Cardinality(OfPeer(q, o) \ {c}) = Cardinality(OfPeer(q, o)) - 1
        /\ Cardinality(OfPeer(q, o)) \in Nat /\ Cardinality(OfPeer(q, o)) # 0
    BY Zenon, <2>4, HeldFinite, CountLess
  <2>6. ASSUME q \in PublicRoutes
        PROVE  perIp'[q][o] <= MaxPerIp /\ perIp'[q][o] = Cardinality(OfPeer(q, o)')
    <3>1. perIp'[q][o] = IF perIp[q][o] = 0 THEN 0 ELSE perIp[q][o] - 1
      BY Zenon, <2>1 DEF CountFacts
    <3>2. perIp[q][o] = Cardinality(OfPeer(q, o)) /\ perIp[q][o] <= MaxPerIp
      BY Zenon, <2>6 DEF PeersExact
    <3> QED BY <1>0, <2>4, <2>5, <3>1, <3>2
  <2> QED BY <2>2, <2>3, <2>6 DEF PeersExact
<1>5. ASSUME NEW c \in Conns, ConnDropsPermit(c) PROVE PeersExact'
  <2>1. /\ conn[c] = "unpeered" /\ conn' = [conn EXCEPT ![c] = "free"] /\ perIp' = perIp
        /\ at' = [at EXCEPT ![c] = None] /\ peer' = [peer EXCEPT ![c] = None]
    BY <1>5 DEF ConnDropsPermit, ConnTo
  <2>2. ASSUME NEW r, NEW p PROVE OfPeer(r, p)' = OfPeer(r, p)
    BY Zenon, <2>1 DEF OfPeer, ConnsOf, ConnFacts
  <2> QED BY <2>1, <2>2 DEF PeersExact
<1>6. ASSUME NEW c \in Conns, ConnOpens(c) \/ ConnCloses(c) \/ ConnCounted(c) PROVE PeersExact'
  <2>1. /\ conn[c] \notin {"free", "unpeered"} /\ conn'[c] \notin {"free", "unpeered"}
        /\ perIp' = perIp /\ at' = at /\ peer' = peer
        /\ \A d \in Conns : d # c => conn'[d] = conn[d]
    BY <1>6 DEF ConnOpens, ConnCloses, ConnCounted, ConnTo, ConnFacts, countVars
  <2> QED BY Zenon, <1>2, <2>1
<1>7. ASSUME NEW c \in Conns, ConnDropsPeer(c) \/ ConnAborted(c) PROVE PeersExact'
  <2>1. /\ conn[c] \notin {"free", "unpeered"} /\ conn' = [conn EXCEPT ![c] = "unpeered"]
        /\ ReleasePeer(c) /\ at' = at /\ peer' = peer
    BY Zenon, <1>7 DEF ConnDropsPeer, ConnAborted, ConnTo
  <2> QED BY Zenon, <1>4, <2>1
<1> QED BY <1>1, <1>3, <1>5, <1>6, <1>7, StepKinds DEF ConnStep

\* active_connections: raised on accept, lowered once when a connection is over.
LEMMA ActiveStep ==
    ASSUME TypeFacts, CountFacts, ConnFacts, HandlesInv, ConnInv, ActiveExact, [Next]_vars
    PROVE  ActiveExact'
<1>1. CASE Quiet
  <2>1. ASSUME NEW r \in Routes PROVE Unreported(r)' = Unreported(r)
    BY <1>1 DEF Quiet, Unreported, ConnsOf
  <2> QED BY <1>1, <2>1 DEF Quiet, ActiveExact
<1>2. ASSUME NEW c \in Conns, ConnStep(c) \/ ConnCloses(c),
             ~ConnCounted(c), ~ConnAborted(c)
      PROVE  ActiveExact'
  <2>1. active' = active /\ task' = task
    BY Zenon, <1>2 DEF ConnStep, ConnOpens, ConnCloses, ConnDropsPeer, ConnDropsPermit, countVars,
        routeVars
  <2>2. /\ \A d \in Conns : d # c => conn'[d] = conn[d] /\ at'[d] = at[d]
        /\ \/ /\ conn[c] \in {"opening", "open"} /\ conn'[c] \in {"open", "closing"}
              /\ at' = at
           \/ conn[c] \in {"counted", "unpeered"} /\ conn'[c] \in {"unpeered", "free"}
    BY Zenon, <1>2 DEF ConnStep, ConnOpens, ConnCloses, ConnDropsPeer, ConnDropsPermit, ConnTo, ConnFacts
  <2>3. ASSUME NEW r \in Routes PROVE Unreported(r)' = Unreported(r)
    BY <2>2 DEF Unreported, ConnsOf
  <2> QED BY Zenon, <2>1, <2>3 DEF ActiveExact
<1>3. ASSUME NEW q \in Routes, NEW c \in Conns, NEW p \in Peers, AcceptConn(q, c, p)
      PROVE  ActiveExact'
  <2>1. /\ conn[c] = "free" /\ conn' = [conn EXCEPT ![c] = "opening"] /\ task' = task
        /\ at' = [at EXCEPT ![c] = q] /\ active' = [active EXCEPT ![q] = active[q] + 1]
        /\ task[q] # "aborted"
    BY <1>3 DEF AcceptConn
  <2>2. \A r \in Routes : r # q => Unreported(r)' = Unreported(r) /\ active'[r] = active[r]
    BY Zenon, <2>1 DEF Unreported, ConnsOf, ConnFacts, CountFacts
  <2>3. Unreported(q)' = Unreported(q) \cup {c} /\ c \notin Unreported(q) /\ active'[q] = active[q] + 1
    BY Zenon, <2>1 DEF Unreported, ConnsOf, ConnFacts, CountFacts
  <2>4. Cardinality(Unreported(q) \cup {c}) = Cardinality(Unreported(q)) + 1
    BY <2>3, HeldFinite, CountMore
  <2>5. active[q] = Cardinality(Unreported(q))
    BY Zenon, <2>1 DEF ActiveExact
  <2>6. active'[q] = Cardinality(Unreported(q)')
    BY Zenon, <2>3, <2>4, <2>5
  <2> QED BY ZenonT(40), <2>1, <2>2, <2>6 DEF ActiveExact
<1>4. ASSUME NEW c \in Conns, ConnCounted(c) PROVE ActiveExact'
  <2>0. PICK q \in Routes : q = at[c]
    BY Zenon, <1>4 DEF ConnCounted, ConnTo, ConnInv
  <2>1. /\ conn[c] = "closing" /\ conn' = [conn EXCEPT ![c] = "counted"] /\ at' = at /\ task' = task
        /\ active' = [active EXCEPT ![q] = IF active[q] = 0 THEN 0 ELSE active[q] - 1]
    BY Zenon, <1>4, <2>0 DEF ConnCounted, ConnTo, routeVars
  <2>2. \A r \in Routes : r # q => Unreported(r)' = Unreported(r) /\ active'[r] = active[r]
    BY Zenon, <2>0, <2>1 DEF Unreported, ConnsOf, ConnFacts, CountFacts
  <2>3. Unreported(q)' = Unreported(q) \ {c} /\ c \in Unreported(q)
    BY Zenon, <2>0, <2>1 DEF Unreported, ConnsOf, ConnFacts
  <2>4. /\ Cardinality(Unreported(q) \ {c}) = Cardinality(Unreported(q)) - 1
        /\ Cardinality(Unreported(q)) # 0
    BY Zenon, <2>3, HeldFinite, CountLess
  <2>5. task[q] # "aborted" => active[q] = Cardinality(Unreported(q))
    BY DEF ActiveExact
  <2>6. active'[q] = IF active[q] = 0 THEN 0 ELSE active[q] - 1
    BY Zenon, <2>1 DEF CountFacts
  <2>7. task[q] # "aborted" => active'[q] = Cardinality(Unreported(q)')
    BY Zenon, <2>3, <2>4, <2>5, <2>6
  <2> QED BY Zenon, <2>1, <2>2, <2>7 DEF ActiveExact
<1>5. ASSUME NEW c \in Conns, ConnAborted(c) PROVE ActiveExact'
  <2>1. /\ conn' = [conn EXCEPT ![c] = "unpeered"] /\ at' = at /\ task' = task /\ active' = active
        /\ task[at[c]] = "aborted"
    BY <1>5 DEF ConnAborted, routeVars
  <2>2. ASSUME NEW r \in Routes, r # at[c] PROVE Unreported(r)' = Unreported(r)
    BY <2>1, <2>2 DEF Unreported, ConnsOf, ConnFacts
  <2> QED BY Zenon, <2>1, <2>2 DEF ActiveExact
<1> QED BY ZenonT(40), <1>1, <1>2, <1>3, <1>4, <1>5, StepKinds DEF ConnStep

\* No raw ingress route leaks an admission or gives one twice, for any limits and
\* any number of connections: permits, counts per address and active_connections
\* are exact.
THEOREM AdmissionSafe == Spec => []AdmissionExact
<1> DEFINE Exact == PermitsExact /\ PeersExact /\ ActiveExact
<1>1. Init => Exact
  <2> SUFFICES ASSUME Init PROVE Exact
    OBVIOUS
  <2>1. \A r, p : ConnsOf(r) = {} /\ OfPeer(r, p) = {} /\ Unreported(r) = {}
    BY DEF Init, ConnsOf, OfPeer, Unreported
  <2>2. Cardinality({}) = 0 /\ MaxConns \in Nat /\ MaxPerIp \in Nat /\ PublicRoutes \subseteq Routes
    BY FS_EmptySet, LimitsAssumption, RoutesAssumption
  <2>3. PermitsExact /\ ActiveExact
    BY SMTT(30), <2>1, <2>2 DEF Init, PermitsExact, ActiveExact
  <2>4. PeersExact
    BY <2>1, <2>2 DEF Init, PeersExact
  <2> QED BY <2>3, <2>4
<1>2. RouteInv /\ Exact /\ [Next]_vars => Exact'
  <2> SUFFICES ASSUME RouteInv, Exact, [Next]_vars PROVE Exact'
    OBVIOUS
  <2>1. TypeFacts /\ CountFacts /\ ConnFacts /\ HandlesInv /\ ConnInv
    BY TypeParts DEF RouteInv
  <2>2. PermitsExact' /\ PeersExact'
    BY <2>1, PermitsStep, PeersStep
  <2>3. ActiveExact'
    BY ZenonT(40), <2>1, ActiveStep
  <2> QED BY <2>2, <2>3
<1>3. Exact => AdmissionExact
  BY RoutesAssumption DEF PermitsExact, PeersExact, ActiveExact, AdmissionExact
<1> HIDE DEF Exact
<1> QED BY <1>1, <1>2, <1>3, RouteInvariant, PTL DEF Spec

\* For any number of routes and connections the raw ingress keeps its
\* admissions, its table, its tasks and its answers consistent.
THEOREM IngressSoundProved == Spec => []IngressSound
<1>1. AdmissionExact /\ TableMatchesTasks /\ ShutdownFinal /\ NoSpuriousStop => IngressSound
  BY DEF IngressSound
<1> QED BY <1>1, AdmissionSafe, TableTruthful, ShutdownSafe, AnswersTruthful, PTL
=============================================================================
