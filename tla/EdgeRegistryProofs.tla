------------------------- MODULE EdgeRegistryProofs -------------------------
(***************************************************************************)
(* Proofs that the Edge's registry is consistent and authorized for every  *)
(* number of connections, tunnels and router calls, every capacity and     *)
(* every sequence of snapshots.                                            *)
(*                                                                         *)
(* The properties are not inductive: they speak of the registry while the  *)
(* gate is free, and a step under the gate relies on nobody else being     *)
(* under it.  IInv adds who may hold the gate (GateInv) and what each of   *)
(* the three kinds of holder has done so far (RegistryInv, RoutesInv).     *)
(***************************************************************************)
EXTENDS EdgeRegistry, TLAPS

-----------------------------------------------------------------------------
(* Facts about sequences.                                                  *)

LEMMA LenProperties ==
  ASSUME NEW S, NEW q \in Seq(S)
  PROVE  Len(q) \in Nat /\ DOMAIN q = 1 .. Len(q) /\ q \in [1 .. Len(q) -> S]
  OBVIOUS

LEMMA EmptySeq ==
  ASSUME NEW S
  PROVE  <<>> \in Seq(S) /\ Len(<<>>) = 0 /\ \A q \in Seq(S) : q # <<>> => Len(q) \in Nat \ {0}
  OBVIOUS

LEMMA HeadTailProperties ==
  ASSUME NEW S, NEW q \in Seq(S), q # <<>>
  PROVE  /\ Head(q) \in S /\ Tail(q) \in Seq(S) /\ Len(Tail(q)) = Len(q) - 1
         /\ \A i \in 1 .. Len(Tail(q)) : Tail(q)[i] = q[i + 1]
  OBVIOUS

LEMMA AppendProperties ==
  ASSUME NEW S, NEW q \in Seq(S), NEW x \in S
  PROVE  /\ Append(q, x) \in Seq(S) /\ Append(q, x) # <<>> /\ Len(Append(q, x)) = Len(q) + 1
         /\ \A i \in 1 .. Len(q) : Append(q, x)[i] = q[i]
         /\ Append(q, x)[Len(q) + 1] = x
  OBVIOUS

\* A resolved router call names a connection.
ResolvedInv ==
    \A o \in Opens : open[o] = "resolved" => at[o] \in Conns

\* OneClaimPerTunnel, claim by claim.
ClaimInv ==
    /\ \A c \in Conns : conn[c] \in ClaimStates => TunnelOf[c] \in claims
    /\ \A t \in claims : \E c \in Conns : conn[c] \in ClaimStates /\ TunnelOf[c] = t
    /\ \A c, d \in Conns :
          conn[c] \in ClaimStates /\ conn[d] \in ClaimStates /\ TunnelOf[c] = TunnelOf[d]
            => c = d

Holds(c) == conn[c] \in {"checked", "inserted", "unbound"}

\* The gate is free only if nobody is under it, and at most one task, router
\* call or reconciliation is.
GateInv ==
    /\ \A c \in Conns : Holds(c) => gate
    /\ \A o \in Opens : open[o] = "resolved" => gate
    /\ run = "pruned" => gate
    /\ \A c, d \in Conns : Holds(c) /\ Holds(d) => c = d
    /\ \A o, p \in Opens : open[o] = "resolved" /\ open[p] = "resolved" => o = p
    /\ \A c \in Conns, o \in Opens : ~(Holds(c) /\ open[o] = "resolved")
    /\ \A c \in Conns : ~(Holds(c) /\ run = "pruned")
    /\ \A o \in Opens : ~(open[o] = "resolved" /\ run = "pruned")

Bound == {"live", "closing", "ended"}

\* The maps, the gate free or not: a binding names a registered session of
\* that tunnel, and a registered session is bound unless its task is between
\* its two inserts or removals or the reconciliation between its two prunings.
RegistryInv ==
    run \notin {"forced", "stopped"} =>
        /\ \A t \in Tunnels : tunnels[t] # None =>
              /\ tunnels[t] \in sessions
              /\ TunnelOf[tunnels[t]] = t
              /\ conn[tunnels[t]] \in Bound
              /\ run = "pruned" => tunnels[t] \notin notify
        /\ \A c \in sessions :
              /\ conn[c] \in Bound \cup {"inserted", "unbound"}
              /\ conn[c] \in Bound =>
                    tunnels[TunnelOf[c]] = c \/ (run = "pruned" /\ c \in notify)
        /\ \A c \in Conns : conn[c] = "inserted" => c \in sessions

\* What remains of RegistryInv when tasks are aborted: a session whose task still
\* runs is bound to its tunnel.
BoundInv ==
    \A c \in sessions : conn[c] \in Bound =>
        tunnels[TunnelOf[c]] = c \/ (run = "pruned" /\ c \in notify)

AuthorizedSince(c) == \E v \in applied .. current : Granted(c, v)

\* A task that is about to publish passed its check against the current or an
\* intermediate snapshot, and what a reconciliation keeps, its snapshot grants.
RoutesInv ==
    /\ \A c \in sessions : AuthorizedSince(c)
    /\ \A c \in Conns : conn[c] = "checked" => AuthorizedSince(c)
    /\ applied <= current /\ fetched <= current
    /\ run = "pruned" => \A c \in sessions : c \in notify \/ Granted(c, fetched)

IInv ==
    /\ TypeOK
    /\ ResolvedInv
    /\ ClaimInv
    /\ GateInv
    /\ RegistryInv
    /\ BoundInv
    /\ RoutesInv

-----------------------------------------------------------------------------
(* Types.                                                                  *)

QueueType(q) ==
    /\ q \in [Conns -> Seq(Commands)]
    /\ \A c \in Conns : Len(q[c]) <= CommandCapacity

\* Receiving from a command channel keeps its type and its bound.
LEMMA Received ==
    ASSUME NEW q, QueueType(q), NEW c \in Conns, q[c] # <<>>
    PROVE  QueueType([q EXCEPT ![c] = Tail(@)]) /\ Head(q[c]) \in Commands
<1>1. q[c] \in Seq(Commands) /\ Len(q[c]) <= CommandCapacity
  BY DEF QueueType
<1>2. /\ Tail(q[c]) \in Seq(Commands) /\ Head(q[c]) \in Commands
      /\ Len(Tail(q[c])) = Len(q[c]) - 1 /\ Len(q[c]) \in Nat
  BY <1>1, HeadTailProperties, LenProperties
<1>3. Len(Tail(q[c])) <= CommandCapacity
  BY <1>1, <1>2, CommandCapacityAssumption
<1> QED BY <1>2, <1>3 DEF QueueType

\* A send into a channel with room keeps its type and its bound.
LEMMA Sent ==
    ASSUME NEW q, QueueType(q), NEW c \in Conns, NEW x \in Commands,
           Len(q[c]) < CommandCapacity
    PROVE  QueueType([q EXCEPT ![c] = Append(@, x)])
<1>1. q[c] \in Seq(Commands)
  BY DEF QueueType
<1>2. /\ Append(q[c], x) \in Seq(Commands)
      /\ Len(Append(q[c], x)) = Len(q[c]) + 1 /\ Len(q[c]) \in Nat
  BY <1>1, AppendProperties, LenProperties
<1>3. Len(Append(q[c], x)) <= CommandCapacity
  BY <1>2, CommandCapacityAssumption
<1> QED BY <1>2, <1>3 DEF QueueType

\* Dropping a receiver empties its channel.
LEMMA Dropped ==
    ASSUME NEW q, QueueType(q), NEW c \in Conns
    PROVE  QueueType([q EXCEPT ![c] = <<>>])
<1>1. <<>> \in Seq(Commands) /\ Len(<<>>) = 0
  BY EmptySeq
<1> QED BY <1>1, CommandCapacityAssumption DEF QueueType

\* Every step keeps the types and the bound of the command channels.
LEMMA TypeInvStep ==
    ASSUME IInv, [Next]_vars
    PROVE  TypeOK'
<1> USE TunnelOfAssumption, ConnsAssumption DEF IInv, TypeOK, ConnStates, Commands
<1>1. CASE UNCHANGED vars
  BY <1>1 DEF vars, snapshotVars, runVars, connVars, mapVars, openVars
<1>2. CASE Publish \/ SetSourceHealth \/ Signal \/ LoopStep \/ PruneTunnels
  <2>1. CASE Publish
    <3>1. current + 1 \in 0 .. MaxVersion
      BY <2>1, MaxVersionAssumption DEF Publish
    <3> QED BY <2>1, <3>1 DEF Publish, runVars, connVars, mapVars, openVars
  <2>2. CASE SetSourceHealth
    BY <2>2 DEF SetSourceHealth, runVars, connVars, mapVars, openVars
  <2>3. CASE Signal
    BY <2>3 DEF Signal, snapshotVars, connVars, mapVars, openVars
  <2>4. CASE FetchSnapshot
    BY Zenon, <2>4 DEF FetchSnapshot, connVars, mapVars, openVars
  <2>5. CASE PruneTunnels
    BY <2>5 DEF PruneTunnels, snapshotVars, connVars, openVars
  <2>6. CASE PruneSessions
    BY Zenon, <2>6 DEF PruneSessions, snapshotVars, connVars, openVars
  <2>7. CASE PickRevoked
    BY <2>7 DEF PickRevoked, snapshotVars, connVars, mapVars, openVars
  <2>8. CASE SendRevoke
    <3>1. QueueType(queue) /\ target \in Conns /\ "revoke" \in Commands
      BY <2>8 DEF SendRevoke, QueueType
    <3>2. QueueType(queue')
      <4>1. CASE ReceiverAlive(target)
        <5>1. /\ Len(queue[target]) < CommandCapacity
              /\ queue' = [queue EXCEPT ![target] = Append(@, "revoke")]
          BY <2>8, <4>1 DEF SendRevoke, HasRoom
        <5> QED BY ONLY Zenon, <3>1, <5>1, Sent
      <4>2. CASE ~ReceiverAlive(target)
        BY <2>8, <3>1, <4>2 DEF SendRevoke
      <4> QED BY <4>1, <4>2
    <3> QED BY Zenon, <2>8, <3>2 DEF SendRevoke, QueueType, snapshotVars, mapVars, openVars
  <2>9. CASE ReconcileDone
    BY <2>9 DEF ReconcileDone, snapshotVars, connVars, mapVars, openVars
  <2>10. CASE StopAccepting
    BY Zenon, <2>10 DEF StopAccepting, snapshotVars, connVars, mapVars, openVars
  <2>11. CASE CollectSenders
    BY <2>11 DEF CollectSenders, snapshotVars, connVars, mapVars, openVars
  <2>12. CASE SendDrain
    <3>1. PICK c \in notify :
               queue' = IF ReceiverAlive(c) /\ HasRoom(c)
                        THEN [queue EXCEPT ![c] = Append(@, "drain")] ELSE queue
      BY Zenon, <2>12 DEF SendDrain
    <3>2. QueueType(queue) /\ c \in Conns /\ "drain" \in Commands
      BY DEF QueueType
    <3>3. QueueType(queue')
      BY Zenon, <3>1, <3>2, Sent DEF HasRoom
    <3> QED BY Zenon, <2>12, <3>3 DEF SendDrain, QueueType, snapshotVars, mapVars, openVars
  <2>13. CASE AwaitTasks
    BY <2>13 DEF AwaitTasks, snapshotVars, connVars, mapVars, openVars
  <2>14. CASE DrainDeadline
    BY <2>14 DEF DrainDeadline, snapshotVars, connVars, mapVars, openVars
  <2>15. CASE ClearRegistry
    BY Zenon, <2>15 DEF ClearRegistry, snapshotVars, connVars, openVars
  <2> QED
    BY Zenon, <1>2, <2>1, <2>2, <2>3, <2>4, <2>5, <2>6, <2>7, <2>8, <2>9, <2>10, <2>11,
       <2>12, <2>13, <2>14, <2>15 DEF LoopStep
<1>3. ASSUME NEW c \in Conns,
             \/ Accept(c) \/ ConnStep(c) \/ GateStep(c) \/ Disconnect(c)
             \/ SessionFails(c) \/ Abort(c)
      PROVE  TypeOK'
  <2>1. CASE Accept(c)
    BY <2>1 DEF Accept, Goto, snapshotVars, runVars, mapVars, openVars
  <2>2. CASE HandshakeFails(c)
    BY <2>2 DEF HandshakeFails, Goto, snapshotVars, runVars, mapVars, openVars
  <2>3. CASE Authorize(c)
    BY <2>3 DEF Authorize, Goto, snapshotVars, runVars, mapVars, openVars
  <2>4. CASE Claim(c)
    <3>1. basis' \in [Conns -> 0 .. MaxVersion]
      <4>1. 0 \in 0 .. MaxVersion
        BY MaxVersionAssumption
      <4>2. basis' = basis \/ basis' = [basis EXCEPT ![c] = 0]
        BY <2>4 DEF Claim, Return
      <4> QED BY ZenonT(40), <4>1, <4>2
    <3>2. conn' \in [Conns -> ConnStates]
      <4>1. conn' = [conn EXCEPT ![c] = "done"] \/ conn' = [conn EXCEPT ![c] = "claimed"]
        BY <2>4 DEF Claim, Return, Goto
      <4> QED BY Zenon, <4>1
    <3>3. claims' \in SUBSET Tunnels
      BY <2>4 DEF Claim
    <3> QED BY Zenon, <2>4, <3>1, <3>2, <3>3 DEF Claim, snapshotVars, runVars, openVars
  <2>5. CASE SendRegistered(c)
    BY <2>5 DEF SendRegistered, Goto, snapshotVars, runVars, mapVars, openVars
  <2>6. CASE Reauthorize(c)
    BY Zenon, <2>6 DEF Reauthorize, Goto, snapshotVars, runVars, mapVars, openVars
  <2>7. CASE InsertSession(c)
    BY <2>7 DEF InsertSession, Goto, snapshotVars, runVars, openVars
  <2>8. CASE InsertTunnel(c)
    BY Zenon, <2>8 DEF InsertTunnel, Goto, snapshotVars, runVars, openVars
  <2>9. CASE RemoveTunnel(c)
    BY <2>9 DEF RemoveTunnel, Goto, snapshotVars, runVars, openVars
  <2>10. CASE RemoveSession(c)
    BY Zenon, <2>10 DEF RemoveSession, Goto, snapshotVars, runVars, openVars
  <2>11. CASE Leave(c)
    <3>1. basis' \in [Conns -> 0 .. MaxVersion] /\ conn' \in [Conns -> ConnStates]
      BY <2>11, MaxVersionAssumption DEF Leave, Return, Goto
    <3> QED BY Zenon, <2>11, <3>1 DEF Leave, snapshotVars, runVars, openVars
  <2>12. CASE Disconnect(c)
    BY <2>12 DEF Disconnect, Goto, snapshotVars, runVars, mapVars, openVars
  <2>13. CASE SessionFails(c)
    <3>1. QueueType(queue')
      BY Zenon, <2>13, Dropped DEF SessionFails, DropQueue, QueueType
    <3> QED BY <2>13, <3>1 DEF SessionFails, Goto, DropQueue, QueueType, snapshotVars,
        runVars, mapVars
  <2>14. CASE SessionEnds(c)
    <3>1. QueueType(queue')
      BY Zenon, <2>14, Dropped DEF SessionEnds, DropQueue, QueueType
    <3> QED BY <2>14, <3>1 DEF SessionEnds, Goto, DropQueue, QueueType, snapshotVars,
        runVars, mapVars
  <2>15. CASE ReceiveOpen(c)
    <3>1. QueueType(queue')
      BY Zenon, <2>15, Received DEF ReceiveOpen, QueueType
    <3> QED BY <2>15, <3>1 DEF ReceiveOpen, Goto, QueueType, snapshotVars, runVars, mapVars
  <2>16. CASE ReceiveDrain(c)
    <3>1. QueueType(queue')
      BY Zenon, <2>16, Received DEF ReceiveDrain, QueueType
    <3> QED BY Zenon, <2>16, <3>1 DEF ReceiveDrain, Goto, QueueType, snapshotVars, runVars,
        mapVars, openVars
  <2>17. CASE ReceiveRevoke(c)
    <3>1. QueueType(queue')
      BY Zenon, <2>17, Received DEF ReceiveRevoke, QueueType
    <3> QED BY Zenon, <2>17, <3>1 DEF ReceiveRevoke, Goto, QueueType, snapshotVars, runVars,
        mapVars, openVars
  <2>18. CASE Abort(c)
    <3>1. QueueType(queue')
      BY ZenonT(40), <2>18, Dropped DEF Abort, DropQueue, QueueType
    <3>2. basis' \in [Conns -> 0 .. MaxVersion] /\ conn' \in [Conns -> ConnStates]
      BY <2>18, MaxVersionAssumption DEF Abort, Return, Goto
    <3>3. gate' \in BOOLEAN /\ claims' \in SUBSET Tunnels
      BY <2>18 DEF Abort
    <3>4. open' \in [Opens -> {"idle", "resolved", "queued", "opening", "open", "answered"}]
      BY <2>18 DEF Abort, DropQueue
    <3> QED BY Zenon, <2>18, <3>1, <3>2, <3>3, <3>4 DEF Abort, QueueType, snapshotVars, runVars
  <2> QED
    BY ZenonT(40), <1>3, <2>1, <2>2, <2>3, <2>4, <2>5, <2>6, <2>7, <2>8, <2>9, <2>10, <2>11,
       <2>12, <2>13, <2>14, <2>15, <2>16, <2>17, <2>18
       DEF ConnStep, GateStep
<1>4. ASSUME NEW o \in Opens,
             \/ OpenTunnel(o) \/ OpenSession(o) \/ EnqueueIo(o)
             \/ StreamOpens(o) \/ StreamEnds(o)
      PROVE  TypeOK'
  <2>1. CASE OpenTunnel(o)
    BY ZenonT(40), <2>1 DEF OpenTunnel, snapshotVars, runVars, connVars, mapVars
  <2>2. CASE OpenSession(o)
    BY ZenonT(40), <2>2 DEF OpenSession, snapshotVars, runVars, connVars, mapVars
  <2>3. CASE EnqueueIo(o)
    <3>1. QueueType(queue) /\ at[o] \in Conns /\ o \in Commands
      BY <2>3 DEF EnqueueIo, QueueType, ResolvedInv
    <3>2. \/ queue' = queue
          \/ /\ Len(queue[at[o]]) < CommandCapacity
             /\ queue' = [queue EXCEPT ![at[o]] = Append(@, o)]
      BY <2>3 DEF EnqueueIo, HasRoom
    <3>3. QueueType(queue')
      BY ONLY <3>1, <3>2, Sent
    <3> QED BY Zenon, <2>3, <3>3 DEF EnqueueIo, QueueType, snapshotVars, runVars, mapVars
  <2>4. CASE StreamOpens(o)
    BY <2>4 DEF StreamOpens, snapshotVars, runVars, connVars, mapVars
  <2>5. CASE StreamEnds(o)
    BY <2>5 DEF StreamEnds, Goto, snapshotVars, runVars, mapVars
  <2> QED
    BY Zenon, <1>4, <2>1, <2>2, <2>3, <2>4, <2>5
<1> QED BY Zenon, <1>1, <1>2, <1>3, <1>4 DEF Next

\* Every step keeps ResolvedInv.
LEMMA ResolvedInvStep ==
    ASSUME IInv, [Next]_vars
    PROVE  ResolvedInv'
<1>1. /\ open \in [Opens -> {"idle", "resolved", "queued", "opening", "open", "answered"}]
      /\ at \in [Opens -> Conns \cup {None}]
      /\ tunnels \in [Tunnels -> Conns \cup {None}]
  BY DEF IInv, TypeOK
<1> USE TunnelOfAssumption, ConnsAssumption, <1>1
<1>2. CASE UNCHANGED <<open, at>>
  BY <1>2 DEF IInv, ResolvedInv
<1>3. CASE Publish \/ SetSourceHealth \/ Signal \/ LoopStep \/ PruneTunnels
  <2>1. CASE \/ Publish \/ SetSourceHealth \/ Signal \/ FetchSnapshot
           \/ PruneTunnels \/ PruneSessions \/ PickRevoked \/ SendRevoke
           \/ ReconcileDone \/ StopAccepting \/ CollectSenders \/ SendDrain
           \/ AwaitTasks \/ DrainDeadline \/ ClearRegistry
    <3>1. UNCHANGED <<open, at>>
      BY <2>1 DEF Publish, SetSourceHealth, Signal, FetchSnapshot, PruneTunnels,
          PruneSessions, PickRevoked, SendRevoke, ReconcileDone, StopAccepting,
          CollectSenders, SendDrain, AwaitTasks, DrainDeadline, ClearRegistry,
          openVars
    <3> QED BY <1>2, <3>1
  <2> QED
    BY <1>3, <2>1 DEF LoopStep
<1>4. ASSUME NEW c \in Conns,
             \/ Accept(c) \/ ConnStep(c) \/ GateStep(c) \/ Disconnect(c)
             \/ SessionFails(c) \/ Abort(c)
      PROVE  ResolvedInv'
  <2>1. CASE \/ Accept(c) \/ HandshakeFails(c) \/ Authorize(c) \/ Claim(c)
           \/ SendRegistered(c) \/ Reauthorize(c) \/ InsertSession(c) \/ InsertTunnel(c)
           \/ RemoveTunnel(c) \/ RemoveSession(c) \/ Leave(c) \/ Disconnect(c)
           \/ ReceiveDrain(c) \/ ReceiveRevoke(c)
    <3>1. UNCHANGED <<open, at>>
      BY Zenon, <2>1 DEF Accept, HandshakeFails, Authorize, Claim, SendRegistered,
          Reauthorize, InsertSession, InsertTunnel, RemoveTunnel, RemoveSession,
          Leave, Disconnect, ReceiveDrain, ReceiveRevoke, openVars
    <3> QED BY <1>2, <3>1
  <2>2. CASE SessionFails(c)
    BY <2>2 DEF SessionFails, DropQueue, IInv, ResolvedInv
  <2>3. CASE SessionEnds(c)
    BY <2>3 DEF SessionEnds, DropQueue, IInv, ResolvedInv
  <2>4. CASE ReceiveOpen(c)
    BY <2>4 DEF ReceiveOpen, IInv, ResolvedInv
  <2>5. CASE Abort(c)
    BY <2>5 DEF Abort, DropQueue, IInv, ResolvedInv
  <2> QED
    BY <1>4, <2>1, <2>2, <2>3, <2>4, <2>5
       DEF ConnStep, GateStep
<1>5. ASSUME NEW o \in Opens,
             \/ OpenTunnel(o) \/ OpenSession(o) \/ EnqueueIo(o)
             \/ StreamOpens(o) \/ StreamEnds(o)
      PROVE  ResolvedInv'
  <2>1. CASE OpenTunnel(o)
    BY <2>1 DEF OpenTunnel, IInv, ResolvedInv
  <2>2. CASE OpenSession(o)
    BY <2>2 DEF OpenSession, IInv, ResolvedInv
  <2>3. CASE EnqueueIo(o)
    BY <2>3 DEF EnqueueIo, IInv, ResolvedInv
  <2>4. CASE StreamOpens(o)
    BY <2>4 DEF StreamOpens, IInv, ResolvedInv
  <2>5. CASE StreamEnds(o)
    BY <2>5 DEF StreamEnds, IInv, ResolvedInv
  <2> QED
    BY <1>5, <2>1, <2>2, <2>3, <2>4, <2>5
<1>6. CASE UNCHANGED vars
  BY <1>2, <1>6 DEF vars, openVars
<1> QED BY <1>3, <1>4, <1>5, <1>6 DEF Next

\* A step that changes no claim keeps ClaimInv.
LEMMA SameClaims ==
    ASSUME ClaimInv, claims' = claims,
           \A d \in Conns : conn'[d] \in ClaimStates <=> conn[d] \in ClaimStates
    PROVE  ClaimInv'
  BY DEF ClaimInv

\* Every step keeps ClaimInv: a claim is taken when no other holds it and
\* released only by the task that holds it, by returning or by being aborted.
LEMMA ClaimInvStep ==
    ASSUME IInv, [Next]_vars
    PROVE  ClaimInv'
<1>1. /\ conn \in [Conns -> ConnStates]
  BY DEF IInv, TypeOK
<1> USE TunnelOfAssumption, ConnsAssumption, <1>1
<1>2. CASE UNCHANGED <<conn, claims>>
  BY <1>2 DEF IInv, ClaimInv
<1>3. CASE Publish \/ SetSourceHealth \/ Signal \/ LoopStep \/ PruneTunnels
  <2>1. CASE \/ Publish \/ SetSourceHealth \/ Signal \/ FetchSnapshot
           \/ PruneTunnels \/ PruneSessions \/ PickRevoked \/ SendRevoke
           \/ ReconcileDone \/ StopAccepting \/ CollectSenders \/ SendDrain
           \/ AwaitTasks \/ DrainDeadline \/ ClearRegistry
    <3>1. UNCHANGED <<conn, claims>>
      BY <2>1 DEF Publish, SetSourceHealth, Signal, FetchSnapshot, PruneTunnels,
          PruneSessions, PickRevoked, SendRevoke, ReconcileDone, StopAccepting,
          CollectSenders, SendDrain, AwaitTasks, DrainDeadline, ClearRegistry,
          connVars, mapVars
    <3> QED BY Zenon, <1>2, <3>1
  <2> QED
    BY <1>3, <2>1 DEF LoopStep
<1>4. ASSUME NEW c \in Conns,
             \/ Accept(c) \/ ConnStep(c) \/ GateStep(c) \/ Disconnect(c)
             \/ SessionFails(c) \/ Abort(c)
      PROVE  ClaimInv'
  <2>1. CASE ReceiveOpen(c)
    BY <1>2, <2>1 DEF ReceiveOpen, mapVars
  <2>2. CASE Accept(c)
    <3>1. \A d \in Conns : conn'[d] \in ClaimStates <=> conn[d] \in ClaimStates
      BY <2>2 DEF Accept, Goto, ClaimStates
    <3> QED BY <2>2, <3>1, SameClaims DEF IInv, Accept, mapVars
  <2>3. CASE HandshakeFails(c)
    <3>1. \A d \in Conns : conn'[d] \in ClaimStates <=> conn[d] \in ClaimStates
      BY <2>3 DEF HandshakeFails, Goto, ClaimStates
    <3> QED BY <2>3, <3>1, SameClaims DEF IInv, HandshakeFails, mapVars
  <2>4. CASE Authorize(c)
    <3>1. \A d \in Conns : conn'[d] \in ClaimStates <=> conn[d] \in ClaimStates
      BY <2>4 DEF Authorize, Goto, ClaimStates
    <3> QED BY <2>4, <3>1, SameClaims DEF IInv, Authorize, mapVars
  <2>5. CASE Claim(c)
    <3>1. CASE TunnelOf[c] \in claims
      <4>1. \A d \in Conns : conn'[d] \in ClaimStates <=> conn[d] \in ClaimStates
        BY <2>5, <3>1 DEF Claim, Return, Goto, ClaimStates
      <4> QED BY <2>5, <3>1, <4>1, SameClaims DEF IInv, Claim
    <3>2. CASE TunnelOf[c] \notin claims
      <4>1. \A d \in Conns : conn'[d] \in ClaimStates <=> d = c \/ conn[d] \in ClaimStates
        BY <2>5, <3>2 DEF Claim, Goto, ClaimStates
      <4>2. claims' = claims \cup {TunnelOf[c]}
        BY <2>5, <3>2 DEF Claim
      <4> QED BY <3>2, <4>1, <4>2 DEF IInv, ClaimInv
    <3> QED BY <3>1, <3>2
  <2>6. CASE SendRegistered(c)
    <3>1. \A d \in Conns : conn'[d] \in ClaimStates <=> conn[d] \in ClaimStates
      BY <2>6 DEF SendRegistered, Goto, ClaimStates
    <3> QED BY <2>6, <3>1, SameClaims DEF IInv, SendRegistered, mapVars
  <2>7. CASE Reauthorize(c)
    <3>1. \A d \in Conns : conn'[d] \in ClaimStates <=> conn[d] \in ClaimStates
      BY <2>7 DEF Reauthorize, Goto, ClaimStates
    <3> QED BY <2>7, <3>1, SameClaims DEF IInv, Reauthorize, mapVars
  <2>8. CASE InsertSession(c)
    <3>1. \A d \in Conns : conn'[d] \in ClaimStates <=> conn[d] \in ClaimStates
      BY <2>8 DEF InsertSession, Goto, ClaimStates
    <3> QED BY <2>8, <3>1, SameClaims DEF IInv, InsertSession
  <2>9. CASE InsertTunnel(c)
    <3>1. \A d \in Conns : conn'[d] \in ClaimStates <=> conn[d] \in ClaimStates
      BY <2>9 DEF InsertTunnel, Goto, ClaimStates
    <3> QED BY <2>9, <3>1, SameClaims DEF IInv, InsertTunnel
  <2>10. CASE RemoveTunnel(c)
    <3>1. \A d \in Conns : conn'[d] \in ClaimStates <=> conn[d] \in ClaimStates
      BY <2>10 DEF RemoveTunnel, Goto, ClaimStates
    <3> QED BY <2>10, <3>1, SameClaims DEF IInv, RemoveTunnel
  <2>11. CASE RemoveSession(c)
    <3>1. \A d \in Conns : conn'[d] \in ClaimStates <=> conn[d] \in ClaimStates
      BY <2>11 DEF RemoveSession, Goto, ClaimStates
    <3> QED BY <2>11, <3>1, SameClaims DEF IInv, RemoveSession
  <2>12. CASE Leave(c)
    <3>1. \A d \in Conns : conn'[d] \in ClaimStates <=> d # c /\ conn[d] \in ClaimStates
      BY <2>12 DEF Leave, Return, Goto, ClaimStates
    <3>2. conn[c] \in ClaimStates /\ claims' = claims \ {TunnelOf[c]}
      BY <2>12 DEF Leave, ClaimStates
    <3> QED BY <3>1, <3>2 DEF IInv, ClaimInv
  <2>13. CASE Disconnect(c)
    <3>1. \A d \in Conns : conn'[d] \in ClaimStates <=> conn[d] \in ClaimStates
      BY <2>13 DEF Disconnect, Goto, ClaimStates
    <3> QED BY <2>13, <3>1, SameClaims DEF IInv, Disconnect, mapVars
  <2>14. CASE SessionFails(c)
    <3>1. \A d \in Conns : conn'[d] \in ClaimStates <=> conn[d] \in ClaimStates
      BY <2>14 DEF SessionFails, Goto, ClaimStates
    <3> QED BY <2>14, <3>1, SameClaims DEF IInv, SessionFails, mapVars
  <2>15. CASE SessionEnds(c)
    <3>1. \A d \in Conns : conn'[d] \in ClaimStates <=> conn[d] \in ClaimStates
      BY <2>15 DEF SessionEnds, Goto, ClaimStates
    <3> QED BY <2>15, <3>1, SameClaims DEF IInv, SessionEnds, mapVars
  <2>16. CASE ReceiveDrain(c)
    <3>1. \A d \in Conns : conn'[d] \in ClaimStates <=> conn[d] \in ClaimStates
      BY <2>16 DEF ReceiveDrain, Goto, ClaimStates
    <3> QED BY <2>16, <3>1, SameClaims DEF IInv, ReceiveDrain, mapVars
  <2>17. CASE ReceiveRevoke(c)
    <3>1. \A d \in Conns : conn'[d] \in ClaimStates <=> conn[d] \in ClaimStates
      BY <2>17 DEF ReceiveRevoke, Goto, ClaimStates
    <3> QED BY <2>17, <3>1, SameClaims DEF IInv, ReceiveRevoke, mapVars
  <2>18. CASE Abort(c)
    <3>1. \A d \in Conns : conn'[d] \in ClaimStates <=> d # c /\ conn[d] \in ClaimStates
      BY <2>18 DEF Abort, Return, Goto, ClaimStates
    <3>2. CASE conn[c] \in {"handshake", "authorized"}
      <4>1. conn[c] \notin ClaimStates
        BY <3>2 DEF ClaimStates
      <4> QED BY <2>18, <3>1, <3>2, <4>1, SameClaims DEF IInv, Abort
    <3>3. CASE conn[c] \notin {"handshake", "authorized"}
      <4>1. conn[c] \in ClaimStates
        BY <2>18, <3>3 DEF Abort, Active, ClaimStates, ConnStates
      <4>2. claims' = claims \ {TunnelOf[c]}
        BY <2>18, <3>3 DEF Abort
      <4> QED BY <3>1, <4>1, <4>2 DEF IInv, ClaimInv
    <3> QED BY <3>2, <3>3
  <2> QED
    BY <1>4, <2>1, <2>2, <2>3, <2>4, <2>5, <2>6, <2>7, <2>8, <2>9, <2>10, <2>11,
       <2>12, <2>13, <2>14, <2>15, <2>16, <2>17, <2>18
       DEF ConnStep, GateStep
<1>5. ASSUME NEW o \in Opens,
             \/ OpenTunnel(o) \/ OpenSession(o) \/ EnqueueIo(o)
             \/ StreamOpens(o) \/ StreamEnds(o)
      PROVE  ClaimInv'
  <2>1. CASE OpenTunnel(o) \/ OpenSession(o) \/ EnqueueIo(o) \/ StreamOpens(o)
    BY <1>2, <2>1 DEF OpenTunnel, OpenSession, EnqueueIo, StreamOpens, connVars,
        mapVars
  <2>2. CASE StreamEnds(o)
    <3>1. \A d \in Conns : conn'[d] \in ClaimStates <=> conn[d] \in ClaimStates
      BY <2>2 DEF StreamEnds, Goto, ClaimStates
    <3> QED BY <2>2, <3>1, SameClaims DEF IInv, StreamEnds, mapVars
  <2> QED
    BY <1>5, <2>1, <2>2
<1>6. CASE UNCHANGED vars
  BY <1>2, <1>6 DEF vars, connVars, mapVars
<1> QED BY <1>3, <1>4, <1>5, <1>6 DEF Next
-----------------------------------------------------------------------------
(* The gate, the maps and the authorization of what they hold.             *)

\* Every step keeps GateInv: the gate is taken when free and released by its
\* holder.
LEMMA GateInvStep ==
    ASSUME IInv, [Next]_vars
    PROVE  GateInv'
<1>1. /\ conn \in [Conns -> ConnStates]
      /\ open \in [Opens -> {"idle", "resolved", "queued", "opening", "open", "answered"}]
      /\ gate \in BOOLEAN
  BY DEF IInv, TypeOK
<1> USE TunnelOfAssumption, ConnsAssumption, <1>1
<1>2. CASE UNCHANGED <<run, gate, conn, open>>
  BY <1>2 DEF IInv, GateInv, Holds
<1>3. CASE Publish \/ SetSourceHealth \/ Signal \/ LoopStep \/ PruneTunnels
  <2>1. CASE \/ Publish \/ SetSourceHealth \/ Signal \/ PickRevoked
           \/ SendRevoke \/ SendDrain
    <3>1. UNCHANGED <<run, gate, conn, open>>
      BY <2>1 DEF Publish, SetSourceHealth, Signal, PickRevoked, SendRevoke,
          SendDrain, runVars, connVars, openVars
    <3> QED BY <1>2, <3>1
  <2>2. CASE FetchSnapshot
    BY <2>2 DEF FetchSnapshot, connVars, openVars, IInv, GateInv, Holds
  <2>3. CASE PruneTunnels
    BY <2>3 DEF PruneTunnels, connVars, openVars, IInv, GateInv, Holds
  <2>4. CASE PruneSessions
    BY <2>4 DEF PruneSessions, connVars, openVars, IInv, GateInv, Holds
  <2>5. CASE ReconcileDone
    BY <2>5 DEF ReconcileDone, connVars, openVars, IInv, GateInv, Holds
  <2>6. CASE StopAccepting
    BY <2>6 DEF StopAccepting, connVars, openVars, IInv, GateInv, Holds
  <2>7. CASE CollectSenders
    BY <2>7 DEF CollectSenders, connVars, openVars, IInv, GateInv, Holds
  <2>8. CASE AwaitTasks
    BY <2>8 DEF AwaitTasks, connVars, openVars, IInv, GateInv, Holds
  <2>9. CASE DrainDeadline
    BY <2>9 DEF DrainDeadline, connVars, openVars, IInv, GateInv, Holds
  <2>10. CASE ClearRegistry
    BY <2>10 DEF ClearRegistry, connVars, openVars, IInv, GateInv, Holds
  <2> QED
    BY <1>3, <2>1, <2>2, <2>3, <2>4, <2>5, <2>6, <2>7, <2>8, <2>9, <2>10 DEF LoopStep
<1>4. ASSUME NEW c \in Conns,
             \/ Accept(c) \/ ConnStep(c) \/ GateStep(c) \/ Disconnect(c)
             \/ SessionFails(c) \/ Abort(c)
      PROVE  GateInv'
  <2>1. CASE Accept(c)
    BY <2>1 DEF Accept, Goto, runVars, openVars, IInv, GateInv, Holds
  <2>2. CASE HandshakeFails(c)
    BY <2>2 DEF HandshakeFails, Goto, runVars, openVars, IInv, GateInv, Holds
  <2>3. CASE Authorize(c)
    BY <2>3 DEF Authorize, Goto, runVars, openVars, IInv, GateInv, Holds
  <2>4. CASE Claim(c)
    BY <2>4 DEF Claim, Goto, Return, runVars, openVars, IInv, GateInv, Holds
  <2>5. CASE SendRegistered(c)
    BY <2>5 DEF SendRegistered, Goto, runVars, openVars, IInv, GateInv, Holds
  <2>6. CASE Reauthorize(c)
    BY <2>6 DEF Reauthorize, Goto, runVars, openVars, IInv, GateInv, Holds
  <2>7. CASE InsertSession(c)
    BY <2>7 DEF InsertSession, Goto, runVars, openVars, IInv, GateInv, Holds
  <2>8. CASE InsertTunnel(c)
    BY <2>8 DEF InsertTunnel, Goto, runVars, openVars, IInv, GateInv, Holds
  <2>9. CASE RemoveTunnel(c)
    BY <2>9 DEF RemoveTunnel, Goto, runVars, openVars, IInv, GateInv, Holds
  <2>10. CASE RemoveSession(c)
    BY <2>10 DEF RemoveSession, Goto, runVars, openVars, IInv, GateInv, Holds
  <2>11. CASE Leave(c)
    BY <2>11 DEF Leave, Goto, Return, runVars, openVars, IInv, GateInv, Holds
  <2>12. CASE Disconnect(c)
    BY <2>12 DEF Disconnect, Goto, runVars, openVars, IInv, GateInv, Holds
  <2>13. CASE SessionFails(c)
    BY <2>13 DEF SessionFails, Goto, DropQueue, runVars, IInv, GateInv, Holds
  <2>14. CASE SessionEnds(c)
    BY <2>14 DEF SessionEnds, Goto, DropQueue, runVars, IInv, GateInv, Holds
  <2>15. CASE ReceiveOpen(c)
    BY <2>15 DEF ReceiveOpen, runVars, IInv, GateInv, Holds
  <2>16. CASE ReceiveDrain(c)
    BY <2>16 DEF ReceiveDrain, Goto, runVars, openVars, IInv, GateInv, Holds
  <2>17. CASE ReceiveRevoke(c)
    BY <2>17 DEF ReceiveRevoke, Goto, runVars, openVars, IInv, GateInv, Holds
  <2>18. CASE Abort(c)
    BY <2>18 DEF Abort, Goto, Return, DropQueue, runVars, IInv, GateInv, Holds
  <2> QED
    BY Zenon, <1>4, <2>1, <2>2, <2>3, <2>4, <2>5, <2>6, <2>7, <2>8, <2>9, <2>10, <2>11,
       <2>12, <2>13, <2>14, <2>15, <2>16, <2>17, <2>18
       DEF ConnStep, GateStep
<1>5. ASSUME NEW o \in Opens,
             \/ OpenTunnel(o) \/ OpenSession(o) \/ EnqueueIo(o)
             \/ StreamOpens(o) \/ StreamEnds(o)
      PROVE  GateInv'
  <2>1. CASE OpenTunnel(o)
    BY <2>1 DEF OpenTunnel, runVars, connVars, IInv, GateInv, Holds
  <2>2. CASE OpenSession(o)
    BY <2>2 DEF OpenSession, runVars, connVars, IInv, GateInv, Holds
  <2>3. CASE EnqueueIo(o)
    BY <2>3 DEF EnqueueIo, runVars, IInv, GateInv, Holds
  <2>4. CASE StreamOpens(o)
    BY <2>4 DEF StreamOpens, runVars, connVars, IInv, GateInv, Holds
  <2>5. CASE StreamEnds(o)
    <3>1. \A d \in Conns : Holds(d)' <=> Holds(d)
      BY <2>5 DEF StreamEnds, Goto, Holds
    <3>2. \A p \in Opens : open'[p] = "resolved" <=> open[p] = "resolved"
      BY <2>5 DEF StreamEnds
    <3>3. gate' = gate /\ run' = run
      BY <2>5 DEF StreamEnds, runVars
    <3> QED BY <3>1, <3>2, <3>3 DEF IInv, GateInv
  <2> QED
    BY <1>5, <2>1, <2>2, <2>3, <2>4, <2>5
<1>6. CASE UNCHANGED vars
  BY <1>2, <1>6 DEF vars, runVars, connVars, openVars
<1> QED BY <1>3, <1>4, <1>5, <1>6 DEF Next

\* A task that moves between two states in which it owns its entries of both
\* maps, or between two in which it owns none, keeps RegistryInv.
LEMMA MoveKeepsBindings ==
    ASSUME RegistryInv, conn \in [Conns -> ConnStates], sessions \in SUBSET Conns,
           tunnels \in [Tunnels -> Conns \cup {None}],
           UNCHANGED <<run, notify, sessions, tunnels>>,
           NEW c \in Conns, NEW s, conn' = [conn EXCEPT ![c] = s],
           \/ conn[c] \in Bound /\ s \in Bound
           \/ /\ conn[c] \notin Bound \cup {"inserted", "unbound"}
              /\ s \notin Bound \cup {"inserted", "unbound"}
    PROVE  RegistryInv'
  BY ConnsAssumption, TunnelOfAssumption DEF RegistryInv, Bound

\* Every step keeps RegistryInv: a holder of the gate changes the two maps in
\* an order that never leaves a binding without its session.
LEMMA RegistryInvStep ==
    ASSUME IInv, [Next]_vars
    PROVE  RegistryInv'
<1>1. /\ conn \in [Conns -> ConnStates]
      /\ sessions \in SUBSET Conns
      /\ tunnels \in [Tunnels -> Conns \cup {None}]
  BY DEF IInv, TypeOK
<1> USE TunnelOfAssumption, ConnsAssumption, <1>1
<1>2. CASE UNCHANGED <<run, notify, conn, sessions, tunnels>>
  BY <1>2 DEF IInv, RegistryInv, Bound
<1>3. CASE Publish \/ SetSourceHealth \/ Signal \/ LoopStep \/ PruneTunnels
  <2>1. CASE Publish \/ SetSourceHealth \/ Signal \/ PickRevoked
    BY <1>2, <2>1 DEF Publish, SetSourceHealth, Signal, PickRevoked, runVars,
        connVars, mapVars
  <2>2. CASE FetchSnapshot
    BY <2>2 DEF FetchSnapshot, connVars, mapVars, IInv, RegistryInv, Bound
  <2>3. CASE PruneTunnels
    BY <2>3 DEF PruneTunnels, connVars, IInv, RegistryInv, Bound
  <2>4. CASE PruneSessions
    BY <2>4 DEF PruneSessions, connVars, IInv, RegistryInv, Bound, GateInv, Holds
  <2>5. CASE SendRevoke
    BY <2>5 DEF SendRevoke, mapVars, IInv, RegistryInv, Bound
  <2>6. CASE ReconcileDone
    BY <2>6 DEF ReconcileDone, connVars, mapVars, IInv, RegistryInv, Bound
  <2>7. CASE StopAccepting
    BY <2>7 DEF StopAccepting, connVars, mapVars, IInv, RegistryInv, Bound
  <2>8. CASE CollectSenders
    BY <2>8 DEF CollectSenders, connVars, mapVars, IInv, RegistryInv, Bound
  <2>9. CASE SendDrain
    BY <2>9 DEF SendDrain, mapVars, IInv, RegistryInv, Bound
  <2>10. CASE AwaitTasks
    BY <2>10 DEF AwaitTasks, connVars, mapVars, IInv, RegistryInv, Bound
  <2>11. CASE DrainDeadline
    BY <2>11 DEF DrainDeadline, connVars, mapVars, IInv, RegistryInv, Bound
  <2>12. CASE ClearRegistry
    BY <2>12 DEF ClearRegistry, connVars, IInv, RegistryInv, Bound
  <2> QED
    BY <1>3, <2>1, <2>2, <2>3, <2>4, <2>5, <2>6, <2>7, <2>8, <2>9, <2>10, <2>11,
       <2>12 DEF LoopStep
<1>4. ASSUME NEW c \in Conns,
             \/ Accept(c) \/ ConnStep(c) \/ GateStep(c) \/ Disconnect(c)
             \/ SessionFails(c) \/ Abort(c)
      PROVE  RegistryInv'
  <2>1. CASE ReceiveOpen(c)
    BY <1>2, <2>1 DEF ReceiveOpen, runVars, mapVars
  <2>2. CASE Accept(c)
    BY Zenon, <2>2, MoveKeepsBindings
       DEF Accept, Goto, Bound, IInv, runVars, mapVars
  <2>3. CASE HandshakeFails(c)
    BY Zenon, <2>3, MoveKeepsBindings
       DEF HandshakeFails, Goto, Bound, IInv, runVars, mapVars
  <2>4. CASE Authorize(c)
    BY Zenon, <2>4, MoveKeepsBindings
       DEF Authorize, Goto, Bound, IInv, runVars, mapVars
  <2>5. CASE Claim(c)
    <3>1. PICK s \in {"claimed", "done"} : conn' = [conn EXCEPT ![c] = s]
      BY <2>5 DEF Claim, Return, Goto
    <3> QED BY ZenonT(40), <2>5, <3>1, MoveKeepsBindings DEF Claim, Bound, IInv, runVars
  <2>6. CASE SendRegistered(c)
    <3>1. PICK s \in {"registered", "leaving"} : conn' = [conn EXCEPT ![c] = s]
      BY Zenon, <2>6 DEF SendRegistered, Goto
    <3> QED BY Zenon, <2>6, <3>1, MoveKeepsBindings DEF SendRegistered, Bound, IInv, runVars,
        mapVars
  <2>7. CASE Reauthorize(c)
    <3>1. PICK s \in {"checked", "leaving"} : conn' = [conn EXCEPT ![c] = s]
      BY <2>7 DEF Reauthorize, Goto
    <3> QED BY Zenon, <2>7, <3>1, MoveKeepsBindings DEF Reauthorize, Bound, IInv, runVars, mapVars
  <2>8. CASE InsertSession(c)
    <3>1. /\ conn[c] = "checked" /\ conn' = [conn EXCEPT ![c] = "inserted"] /\ sessions' = sessions \cup {c}
          /\ tunnels' = tunnels
      BY <2>8 DEF InsertSession, Goto
    <3>0. run' = run /\ notify' = notify
      BY <2>8 DEF InsertSession, runVars
    <3> SUFFICES ASSUME run \notin {"forced", "stopped"}
                 PROVE  /\ \A t \in Tunnels : tunnels'[t] # None =>
                              /\ tunnels'[t] \in sessions'
                              /\ TunnelOf[tunnels'[t]] = t
                              /\ conn'[tunnels'[t]] \in Bound
                              /\ run = "pruned" => tunnels'[t] \notin notify
                        /\ \A d \in sessions' :
                              /\ conn'[d] \in Bound \cup {"inserted", "unbound"}
                              /\ conn'[d] \in Bound =>
                                    tunnels'[TunnelOf[d]] = d \/ (run = "pruned" /\ d \in notify)
                        /\ \A d \in Conns : conn'[d] = "inserted" => d \in sessions'
      BY <3>0, Zenon DEF RegistryInv
    <3>2. ASSUME NEW t \in Tunnels, tunnels'[t] # None
          PROVE  /\ tunnels'[t] \in sessions' /\ TunnelOf[tunnels'[t]] = t
                 /\ conn'[tunnels'[t]] \in Bound
                 /\ run = "pruned" => tunnels'[t] \notin notify
      BY <1>1, <3>1, <3>2 DEF IInv, RegistryInv, Bound
    <3>3. ASSUME NEW d \in sessions'
          PROVE  /\ conn'[d] \in Bound \cup {"inserted", "unbound"}
                 /\ conn'[d] \in Bound =>
                       tunnels'[TunnelOf[d]] = d \/ (run = "pruned" /\ d \in notify)
      <4>1. CASE d = c
        BY Zenon, <1>1, <3>1, <4>1 DEF Bound
      <4>2. CASE d # c
        BY SMTT(30), <1>1, <3>1, <3>3, <4>2 DEF IInv, RegistryInv
      <4> QED BY <4>1, <4>2
    <3>4. ASSUME NEW d \in Conns, conn'[d] = "inserted" PROVE d \in sessions'
      BY <1>1, <3>1, <3>4 DEF IInv, RegistryInv
    <3> QED BY <3>2, <3>3, <3>4, Zenon
  <2>9. CASE InsertTunnel(c)
    <3>1. /\ conn[c] = "inserted" /\ conn' = [conn EXCEPT ![c] = "live"] /\ sessions' = sessions
          /\ tunnels' = [tunnels EXCEPT ![TunnelOf[c]] = c]
      BY <2>9 DEF InsertTunnel, Goto
    <3>0. run' = run /\ notify' = notify
      BY Zenon, <2>9 DEF InsertTunnel, runVars
    <3> SUFFICES ASSUME run \notin {"forced", "stopped"}
                 PROVE  /\ \A t \in Tunnels : tunnels'[t] # None =>
                              /\ tunnels'[t] \in sessions'
                              /\ TunnelOf[tunnels'[t]] = t
                              /\ conn'[tunnels'[t]] \in Bound
                              /\ run = "pruned" => tunnels'[t] \notin notify
                        /\ \A d \in sessions' :
                              /\ conn'[d] \in Bound \cup {"inserted", "unbound"}
                              /\ conn'[d] \in Bound =>
                                    tunnels'[TunnelOf[d]] = d \/ (run = "pruned" /\ d \in notify)
                        /\ \A d \in Conns : conn'[d] = "inserted" => d \in sessions'
      BY <3>0, Zenon DEF RegistryInv
    <3>2. ASSUME NEW t \in Tunnels, tunnels'[t] # None
          PROVE  /\ tunnels'[t] \in sessions' /\ TunnelOf[tunnels'[t]] = t
                 /\ conn'[tunnels'[t]] \in Bound
                 /\ run = "pruned" => tunnels'[t] \notin notify
      <4>1. CASE t = TunnelOf[c]
        <5>1. tunnels'[t] = c /\ conn'[c] \in Bound /\ run # "pruned"
          BY Zenon, <1>1, <3>1, <4>1 DEF Bound, GateInv, Holds, IInv
        <5> QED BY <3>1, <4>1, <5>1 DEF IInv, RegistryInv
      <4>2. CASE t # TunnelOf[c]
        <5>1. tunnels'[t] = tunnels[t]
          BY <1>1, <3>1, <4>2
        <5> QED BY <1>1, <3>1, <3>2, <5>1 DEF IInv, RegistryInv, Bound
      <4> QED BY <4>1, <4>2
    <3>3. ASSUME NEW d \in sessions'
          PROVE  /\ conn'[d] \in Bound \cup {"inserted", "unbound"}
                 /\ conn'[d] \in Bound =>
                       tunnels'[TunnelOf[d]] = d \/ (run = "pruned" /\ d \in notify)
      <4>1. CASE d = c
        BY <1>1, <3>1, <4>1 DEF Bound
      <4>2. CASE d # c
        <5>1. conn'[d] = conn[d] /\ d \in Conns
          BY <1>1, <3>1, <3>3, <4>2
        <5>2. conn[d] \in Bound => TunnelOf[d] # TunnelOf[c]
          BY <3>1, <4>2, <5>1 DEF IInv, ClaimInv, ClaimStates, Bound
        <5>3. conn[d] \in Bound => tunnels'[TunnelOf[d]] = tunnels[TunnelOf[d]]
          BY Zenon, <1>1, <3>1, <5>1, <5>2
        <5> QED BY <3>1, <3>3, <5>1, <5>3 DEF IInv, RegistryInv
      <4> QED BY <4>1, <4>2
    <3>4. ASSUME NEW d \in Conns, conn'[d] = "inserted" PROVE d \in sessions'
      BY <1>1, <3>1, <3>4 DEF IInv, RegistryInv
    <3> QED BY <3>2, <3>3, <3>4, Zenon
  <2>10. CASE RemoveTunnel(c)
    <3>1. /\ conn[c] = "ended" /\ conn' = [conn EXCEPT ![c] = "unbound"] /\ sessions' = sessions
          /\ tunnels' = IF tunnels[TunnelOf[c]] = c
                        THEN [tunnels EXCEPT ![TunnelOf[c]] = None] ELSE tunnels
      BY <2>10 DEF RemoveTunnel, Goto
    <3>0. run' = run /\ notify' = notify
      BY Zenon, <2>10 DEF RemoveTunnel, runVars
    <3> SUFFICES ASSUME run \notin {"forced", "stopped"}
                 PROVE  /\ \A t \in Tunnels : tunnels'[t] # None =>
                              /\ tunnels'[t] \in sessions'
                              /\ TunnelOf[tunnels'[t]] = t
                              /\ conn'[tunnels'[t]] \in Bound
                              /\ run = "pruned" => tunnels'[t] \notin notify
                        /\ \A d \in sessions' :
                              /\ conn'[d] \in Bound \cup {"inserted", "unbound"}
                              /\ conn'[d] \in Bound =>
                                    tunnels'[TunnelOf[d]] = d \/ (run = "pruned" /\ d \in notify)
                        /\ \A d \in Conns : conn'[d] = "inserted" => d \in sessions'
      BY <3>0, Zenon DEF RegistryInv
    <3>2. ASSUME NEW t \in Tunnels, tunnels'[t] # None
          PROVE  /\ tunnels'[t] \in sessions' /\ TunnelOf[tunnels'[t]] = t
                 /\ conn'[tunnels'[t]] \in Bound
                 /\ run = "pruned" => tunnels'[t] \notin notify
      <4>1. tunnels'[t] = tunnels[t] /\ tunnels[t] # c
        <5>1. CASE tunnels[TunnelOf[c]] = c
          <6>1. t # TunnelOf[c] /\ tunnels'[t] = tunnels[t]
            BY Zenon, <1>1, <3>1, <3>2, <5>1
          <6> QED BY <3>2, <6>1 DEF IInv, RegistryInv
        <5>2. CASE tunnels[TunnelOf[c]] # c
          <6>1. tunnels'[t] = tunnels[t]
            BY Zenon, <3>1, <5>2
          <6> QED BY <3>2, <5>2, <6>1 DEF IInv, RegistryInv
        <5> QED BY <5>1, <5>2
      <4> QED BY <1>1, <3>1, <3>2, <4>1 DEF IInv, RegistryInv
    <3>3. ASSUME NEW d \in sessions'
          PROVE  /\ conn'[d] \in Bound \cup {"inserted", "unbound"}
                 /\ conn'[d] \in Bound =>
                       tunnels'[TunnelOf[d]] = d \/ (run = "pruned" /\ d \in notify)
      <4>1. CASE d = c
        BY Zenon, <1>1, <3>1, <4>1 DEF Bound
      <4>2. CASE d # c
        <5>1. conn'[d] = conn[d] /\ d \in Conns /\ d \in sessions
          BY Zenon, <1>1, <3>1, <3>3, <4>2
        <5>2. tunnels[TunnelOf[d]] = d => tunnels'[TunnelOf[d]] = d
          BY Zenon, <1>1, <3>1, <4>2, <5>1
        <5> QED BY Zenon, <5>1, <5>2 DEF IInv, RegistryInv
      <4> QED BY <4>1, <4>2
    <3>4. ASSUME NEW d \in Conns, conn'[d] = "inserted" PROVE d \in sessions'
      BY <1>1, <3>1, <3>4 DEF IInv, RegistryInv
    <3> QED BY <3>2, <3>3, <3>4, Zenon
  <2>11. CASE RemoveSession(c)
    <3>1. /\ conn[c] = "unbound" /\ conn' = [conn EXCEPT ![c] = "leaving"] /\ sessions' = sessions \ {c}
          /\ tunnels' = tunnels
      BY <2>11 DEF RemoveSession, Goto
    <3>0. run' = run /\ notify' = notify
      BY Zenon, <2>11 DEF RemoveSession, runVars
    <3> SUFFICES ASSUME run \notin {"forced", "stopped"}
                 PROVE  /\ \A t \in Tunnels : tunnels'[t] # None =>
                              /\ tunnels'[t] \in sessions'
                              /\ TunnelOf[tunnels'[t]] = t
                              /\ conn'[tunnels'[t]] \in Bound
                              /\ run = "pruned" => tunnels'[t] \notin notify
                        /\ \A d \in sessions' :
                              /\ conn'[d] \in Bound \cup {"inserted", "unbound"}
                              /\ conn'[d] \in Bound =>
                                    tunnels'[TunnelOf[d]] = d \/ (run = "pruned" /\ d \in notify)
                        /\ \A d \in Conns : conn'[d] = "inserted" => d \in sessions'
      BY <3>0, Zenon DEF RegistryInv
    <3>2. ASSUME NEW t \in Tunnels, tunnels'[t] # None
          PROVE  /\ tunnels'[t] \in sessions' /\ TunnelOf[tunnels'[t]] = t
                 /\ conn'[tunnels'[t]] \in Bound
                 /\ run = "pruned" => tunnels'[t] \notin notify
      BY SMTT(30), <1>1, <3>1, <3>2 DEF IInv, RegistryInv, Bound
    <3>3. ASSUME NEW d \in sessions'
          PROVE  /\ conn'[d] \in Bound \cup {"inserted", "unbound"}
                 /\ conn'[d] \in Bound =>
                       tunnels'[TunnelOf[d]] = d \/ (run = "pruned" /\ d \in notify)
      BY SMTT(30), <1>1, <3>1, <3>3 DEF IInv, RegistryInv
    <3>4. ASSUME NEW d \in Conns, conn'[d] = "inserted" PROVE d \in sessions'
      BY <1>1, <3>1, <3>4 DEF IInv, RegistryInv
    <3> QED BY <3>2, <3>3, <3>4, Zenon
  <2>12. CASE Leave(c)
    BY Zenon, <2>12, MoveKeepsBindings
       DEF Leave, Goto, Return, Bound, IInv, runVars
  <2>13. CASE Disconnect(c)
    BY Zenon, <2>13, MoveKeepsBindings
       DEF Disconnect, Goto, Bound, IInv, runVars, mapVars
  <2>14. CASE SessionFails(c)
    BY Zenon, <2>14, MoveKeepsBindings
       DEF SessionFails, Goto, Bound, IInv, runVars, mapVars
  <2>15. CASE SessionEnds(c)
    BY ZenonT(40), <2>15, MoveKeepsBindings
       DEF SessionEnds, Goto, Bound, IInv, runVars, mapVars
  <2>16. CASE ReceiveDrain(c)
    <3>1. CASE conn' = conn
      BY <2>16, <3>1, <1>2 DEF ReceiveDrain, runVars, mapVars
    <3>2. CASE Goto(c, "closing")
      BY Zenon, <2>16, <3>2, MoveKeepsBindings DEF ReceiveDrain, Goto, Bound, IInv, runVars,
          mapVars
    <3> QED BY <2>16, <3>1, <3>2 DEF ReceiveDrain
  <2>17. CASE ReceiveRevoke(c)
    BY Zenon, <2>17, MoveKeepsBindings
       DEF ReceiveRevoke, Goto, Bound, IInv, runVars, mapVars
  <2>18. CASE Abort(c)
    BY Zenon, <2>18 DEF Abort, Goto, Return, runVars, IInv, RegistryInv, Bound
  <2> QED
    BY <1>4, <2>1, <2>2, <2>3, <2>4, <2>5, <2>6, <2>7, <2>8, <2>9, <2>10, <2>11,
       <2>12, <2>13, <2>14, <2>15, <2>16, <2>17, <2>18
       DEF ConnStep, GateStep
<1>5. ASSUME NEW o \in Opens,
             \/ OpenTunnel(o) \/ OpenSession(o) \/ EnqueueIo(o)
             \/ StreamOpens(o) \/ StreamEnds(o)
      PROVE  RegistryInv'
  <2>1. CASE OpenTunnel(o) \/ OpenSession(o) \/ EnqueueIo(o) \/ StreamOpens(o)
    BY ZenonT(40), <1>2, <2>1 DEF OpenTunnel, OpenSession, EnqueueIo, StreamOpens, runVars,
        connVars, mapVars
  <2>2. CASE StreamEnds(o)
    <3>1. CASE conn' = conn
      BY ZenonT(40), <2>2, <3>1, <1>2 DEF StreamEnds, runVars, mapVars
    <3>2. CASE at[o] \in Conns /\ conn[at[o]] = "live" /\ Goto(at[o], "closing")
      BY ZenonT(40), <2>2, <3>2, MoveKeepsBindings DEF StreamEnds, Goto, Bound, IInv, runVars, mapVars
    <3>3. CASE at[o] \notin Conns /\ Goto(at[o], "closing")
      BY Zenon, <2>2, <3>1, <3>3 DEF Goto
    <3> QED BY ZenonT(40), <2>2, <3>1, <3>2, <3>3 DEF StreamEnds
  <2> QED
    BY <1>5, <2>1, <2>2
<1>6. CASE UNCHANGED vars
  BY <1>2, <1>6 DEF vars, runVars, connVars, mapVars
<1> QED BY <1>3, <1>4, <1>5, <1>6 DEF Next

\* A step that binds and publishes nothing keeps BoundInv.
LEMMA SameBindings ==
    ASSUME BoundInv, sessions \in SUBSET Conns,
           tunnels' = tunnels, sessions' \subseteq sessions,
           run # "pruned" \/ UNCHANGED <<run, notify>>,
           \A d \in Conns : conn'[d] \in Bound => conn[d] \in Bound
    PROVE  BoundInv'
  BY DEF BoundInv

\* Every step keeps BoundInv: only the owner of the claim binds a tunnel, and
\* only a reconciliation or the owner unbinds it.
LEMMA BoundInvStep ==
    ASSUME IInv, [Next]_vars
    PROVE  BoundInv'
<1>1. /\ conn \in [Conns -> ConnStates]
      /\ sessions \in SUBSET Conns
      /\ tunnels \in [Tunnels -> Conns \cup {None}]
      /\ BoundInv
  BY Zenon DEF IInv, TypeOK
<1> USE TunnelOfAssumption, ConnsAssumption, <1>1
<1>2. CASE UNCHANGED <<run, notify, conn, sessions, tunnels>>
  BY Zenon, <1>2 DEF BoundInv
<1>3. CASE Publish \/ SetSourceHealth \/ Signal \/ LoopStep \/ PruneTunnels
  <2>1. CASE Publish \/ SetSourceHealth \/ Signal \/ PickRevoked
    BY Zenon, <1>2, <2>1 DEF Publish, SetSourceHealth, Signal, PickRevoked, runVars,
        connVars, mapVars
  <2>2. CASE \/ FetchSnapshot \/ SendRevoke \/ ReconcileDone \/ StopAccepting
             \/ CollectSenders \/ SendDrain \/ AwaitTasks \/ DrainDeadline
    <3>1. run # "pruned" /\ UNCHANGED <<conn, sessions, tunnels>>
      BY Zenon, <2>2 DEF FetchSnapshot, SendRevoke, ReconcileDone, StopAccepting,
          CollectSenders, SendDrain, AwaitTasks, DrainDeadline, connVars, mapVars
    <3> QED BY Zenon, <3>1, SameBindings
  <2>3. CASE PruneTunnels
    <3>1. /\ run = "fetched" /\ run' = "pruned" /\ UNCHANGED <<conn, sessions>>
          /\ tunnels' = [t \in Tunnels |-> IF tunnels[t] \in notify' THEN None ELSE tunnels[t]]
      BY Zenon, <2>3 DEF PruneTunnels, connVars
    <3> QED BY <3>1 DEF BoundInv
  <2>4. CASE PruneSessions
    <3>1. sessions' = sessions \ notify /\ UNCHANGED <<conn, tunnels>>
      BY Zenon, <2>4 DEF PruneSessions, connVars
    <3> QED BY <3>1 DEF BoundInv
  <2>5. CASE ClearRegistry
    BY Zenon, <2>5 DEF ClearRegistry, BoundInv
  <2> QED BY Zenon, <1>3, <2>1, <2>2, <2>3, <2>4, <2>5 DEF LoopStep
<1>4. ASSUME NEW c \in Conns,
             \/ Accept(c) \/ ConnStep(c) \/ GateStep(c) \/ Disconnect(c)
             \/ SessionFails(c) \/ Abort(c)
      PROVE  BoundInv'
  <2>1. CASE InsertSession(c)
    <3>1. /\ conn' = [conn EXCEPT ![c] = "inserted"] /\ sessions' = sessions \cup {c}
          /\ UNCHANGED <<run, notify, tunnels>>
      BY Zenon, <2>1 DEF InsertSession, Goto, runVars
    <3>2. conn'[c] \notin Bound /\ \A d \in Conns : d # c => conn'[d] = conn[d]
      BY Zenon, <3>1 DEF Bound
    <3> QED BY <3>1, <3>2 DEF BoundInv
  <2>2. CASE InsertTunnel(c)
    <3>1. /\ conn[c] = "inserted" /\ conn' = [conn EXCEPT ![c] = "live"]
          /\ tunnels' = [tunnels EXCEPT ![TunnelOf[c]] = c]
          /\ UNCHANGED <<run, notify, sessions>>
      BY Zenon, <2>2 DEF InsertTunnel, Goto, runVars
    <3>2. \A d \in Conns : d # c /\ conn[d] \in Bound => TunnelOf[d] # TunnelOf[c]
      BY <3>1 DEF IInv, ClaimInv, ClaimStates, Bound
    <3> QED BY <3>1, <3>2 DEF BoundInv
  <2>3. CASE RemoveTunnel(c)
    <3>1. /\ conn' = [conn EXCEPT ![c] = "unbound"]
          /\ \A t \in Tunnels : tunnels[t] # c => tunnels'[t] = tunnels[t]
          /\ UNCHANGED <<run, notify, sessions>>
      BY <2>3 DEF RemoveTunnel, Goto, runVars
    <3>2. conn'[c] \notin Bound /\ \A d \in Conns : d # c => conn'[d] = conn[d]
      BY Zenon, <3>1 DEF Bound
    <3> QED BY <3>1, <3>2 DEF BoundInv
  <2>4. CASE ~(InsertSession(c) \/ InsertTunnel(c) \/ RemoveTunnel(c))
    <3>1. /\ UNCHANGED <<run, notify, tunnels>> /\ sessions' \subseteq sessions
          /\ \/ conn' = conn
             \/ \E s : conn' = [conn EXCEPT ![c] = s] /\ (s \in Bound => conn[c] \in Bound)
      <4>1. CASE Accept(c) \/ HandshakeFails(c) \/ Authorize(c) \/ Claim(c)
        BY ZenonT(40), <4>1 DEF Accept, HandshakeFails, Authorize, Claim, Return, Goto, Bound,
            runVars, mapVars
      <4>2. CASE SendRegistered(c) \/ Reauthorize(c) \/ RemoveSession(c) \/ Leave(c)
        BY ZenonT(40), <4>2 DEF SendRegistered, Reauthorize, RemoveSession, Leave, Return,
            Goto, Bound, runVars, mapVars
      <4>3. CASE ReceiveOpen(c) \/ ReceiveDrain(c) \/ ReceiveRevoke(c) \/ SessionEnds(c)
        BY ZenonT(40), <4>3 DEF ReceiveOpen, ReceiveDrain, ReceiveRevoke, SessionEnds, Goto,
            Bound, runVars, mapVars
      <4>4. CASE Disconnect(c) \/ SessionFails(c) \/ Abort(c)
        BY ZenonT(40), <4>4 DEF Disconnect, SessionFails, Abort, Return, Goto, Bound, runVars,
            mapVars
      <4> QED BY Zenon, <1>4, <2>4, <4>1, <4>2, <4>3, <4>4 DEF ConnStep, GateStep
    <3>2. \A d \in Conns : conn'[d] \in Bound => conn[d] \in Bound
      BY ZenonT(40), <3>1
    <3> QED BY Zenon, <3>1, <3>2, SameBindings
  <2> QED BY <2>1, <2>2, <2>3, <2>4
<1>5. ASSUME NEW o \in Opens,
             \/ OpenTunnel(o) \/ OpenSession(o) \/ EnqueueIo(o)
             \/ StreamOpens(o) \/ StreamEnds(o)
      PROVE  BoundInv'
  <2>1. UNCHANGED <<run, notify, sessions, tunnels>>
    BY Zenon, <1>5 DEF OpenTunnel, OpenSession, EnqueueIo, StreamOpens, StreamEnds, runVars,
        mapVars
  <2>2. \A d \in Conns : conn'[d] \in Bound => conn[d] \in Bound
    <3>1. CASE conn' = conn
      BY <3>1
    <3>2. CASE conn[at[o]] = "live" /\ conn' = [conn EXCEPT ![at[o]] = "closing"]
      BY ZenonT(40), <3>2 DEF Bound
    <3> QED BY Zenon, <1>5, <3>1, <3>2 DEF OpenTunnel, OpenSession, EnqueueIo, StreamOpens,
        StreamEnds, Goto, connVars
  <2> QED BY Zenon, <2>1, <2>2, SameBindings
<1>6. CASE UNCHANGED vars
  BY Zenon, <1>2, <1>6 DEF vars, runVars, connVars, mapVars
<1> QED BY Zenon, <1>3, <1>4, <1>5, <1>6 DEF Next

\* A step that applies and publishes no snapshot, and registers or lets pass
\* only what is authorized, keeps RoutesInv.
LEMMA SameRoutes ==
    ASSUME RoutesInv, UNCHANGED <<grants, current, applied, fetched, run, notify>>,
           \A d \in sessions' : AuthorizedSince(d),
           \A d \in Conns : conn'[d] = "checked" => AuthorizedSince(d),
           run = "pruned" => sessions' \subseteq sessions
    PROVE  RoutesInv'
  BY Zenon DEF RoutesInv, AuthorizedSince, Granted

\* Every step keeps RoutesInv: between the check and the publication of a
\* session, and between the prunings of a reconciliation, no snapshot is
\* applied.
LEMMA RoutesInvStep ==
    ASSUME IInv, [Next]_vars
    PROVE  RoutesInv'
<1>1. /\ conn \in [Conns -> ConnStates]
      /\ grants \in [0 .. MaxVersion -> SUBSET Conns]
      /\ current \in 0 .. MaxVersion /\ fetched \in 0 .. MaxVersion
      /\ applied \in 0 .. MaxVersion
      /\ sessions \in SUBSET Conns
  BY Zenon DEF IInv, TypeOK
<1> USE TunnelOfAssumption, ConnsAssumption, <1>1
<1>2. CASE UNCHANGED <<grants, current, run, fetched, applied, notify, conn, sessions>>
  BY <1>2 DEF IInv, RoutesInv, AuthorizedSince, Granted
<1>3. CASE Publish \/ SetSourceHealth \/ Signal \/ LoopStep \/ PruneTunnels
  <2>1. CASE SetSourceHealth \/ Signal \/ PickRevoked
    BY <1>2, <2>1 DEF SetSourceHealth, Signal, PickRevoked, snapshotVars, runVars,
        connVars, mapVars
  <2>2. CASE Publish
    <3>1. \A d \in Conns, v \in 0 .. current : Granted(d, v) => Granted(d, v)'
      BY <2>2 DEF Publish, Granted
    <3>2. current' = current + 1 /\ UNCHANGED <<applied, fetched, run, sessions, notify, conn>>
      BY <2>2 DEF Publish, runVars, mapVars, connVars
    <3>3. ASSUME NEW d \in Conns, AuthorizedSince(d) PROVE AuthorizedSince(d)'
      <4>1. PICK v \in applied .. current : Granted(d, v)
        BY <3>3 DEF AuthorizedSince
      <4>2. v \in 0 .. current /\ v \in applied' .. current'
        BY <3>2
      <4>3. Granted(d, v)'
        BY <3>1, <4>1, <4>2
      <4> QED BY <4>2, <4>3 DEF AuthorizedSince
    <3>4. ASSUME NEW d \in Conns, Granted(d, fetched) PROVE Granted(d, fetched)'
      <4>1. fetched \in 0 .. current /\ fetched' = fetched
        BY <3>2 DEF IInv, RoutesInv
      <4> QED BY <3>1, <3>4, <4>1 DEF Granted
    <3>5. applied' <= current' /\ fetched' <= current'
      BY <3>2 DEF IInv, RoutesInv
    <3> QED BY <3>2, <3>3, <3>4, <3>5 DEF IInv, RoutesInv
  <2>3. CASE FetchSnapshot
    BY <2>3 DEF FetchSnapshot, connVars, mapVars, IInv, RoutesInv, AuthorizedSince,
        Granted
  <2>4. CASE PruneTunnels
    BY <2>4 DEF PruneTunnels, snapshotVars, connVars, IInv, RoutesInv,
        AuthorizedSince, Granted
  <2>5. CASE PruneSessions
    <3>1. fetched \in applied' .. current' /\ applied' <= current' /\ fetched' <= current'
      BY <2>5 DEF PruneSessions, snapshotVars, IInv, RoutesInv
    <3>2. \A d \in sessions' : AuthorizedSince(d)'
      BY Zenon, <2>5, <3>1 DEF PruneSessions, snapshotVars, IInv, RoutesInv, AuthorizedSince,
          Granted
    <3>3. \A d \in Conns : conn'[d] # "checked"
      BY <2>5 DEF PruneSessions, connVars, IInv, GateInv, Holds
    <3>4. run' # "pruned"
      BY Zenon, <2>5 DEF PruneSessions
    <3> QED BY Zenon, <3>1, <3>2, <3>3, <3>4 DEF RoutesInv
  <2>6. CASE SendRevoke
    BY <2>6 DEF SendRevoke, snapshotVars, mapVars, IInv, RoutesInv,
        AuthorizedSince, Granted
  <2>7. CASE ReconcileDone
    BY Zenon, <2>7 DEF ReconcileDone, snapshotVars, connVars, mapVars, IInv, RoutesInv,
        AuthorizedSince, Granted
  <2>8. CASE StopAccepting
    BY <2>8 DEF StopAccepting, snapshotVars, connVars, mapVars, IInv, RoutesInv,
        AuthorizedSince, Granted
  <2>9. CASE CollectSenders
    BY Zenon, <2>9 DEF CollectSenders, snapshotVars, connVars, mapVars, IInv, RoutesInv,
        AuthorizedSince, Granted
  <2>10. CASE SendDrain
    BY Zenon, <2>10 DEF SendDrain, snapshotVars, mapVars, IInv, RoutesInv,
        AuthorizedSince, Granted
  <2>11. CASE AwaitTasks
    BY <2>11 DEF AwaitTasks, snapshotVars, connVars, mapVars, IInv, RoutesInv,
        AuthorizedSince, Granted
  <2>12. CASE DrainDeadline
    BY Zenon, <2>12 DEF DrainDeadline, snapshotVars, connVars, mapVars, IInv, RoutesInv,
        AuthorizedSince, Granted
  <2>13. CASE ClearRegistry
    BY Zenon, <2>13 DEF ClearRegistry, snapshotVars, connVars, IInv, RoutesInv,
        AuthorizedSince, Granted
  <2> QED
    BY Zenon, <1>3, <2>1, <2>2, <2>3, <2>4, <2>5, <2>6, <2>7, <2>8, <2>9, <2>10, <2>11,
       <2>12, <2>13 DEF LoopStep
<1>4. ASSUME NEW c \in Conns,
             \/ Accept(c) \/ ConnStep(c) \/ GateStep(c) \/ Disconnect(c)
             \/ SessionFails(c) \/ Abort(c)
      PROVE  RoutesInv'
  <2>1. CASE ReceiveOpen(c)
    BY Zenon, <1>2, <2>1 DEF ReceiveOpen, snapshotVars, runVars, mapVars
  <2>2. CASE Accept(c)
    <3>1. \A d \in Conns : conn'[d] = "checked" => conn[d] = "checked"
      BY Zenon, <2>2 DEF Accept, Goto
    <3> QED BY <2>2, <3>1, SameRoutes DEF Accept, snapshotVars, runVars, mapVars, IInv,
        RoutesInv
  <2>3. CASE HandshakeFails(c)
    <3>1. \A d \in Conns : conn'[d] = "checked" => conn[d] = "checked"
      BY Zenon, <2>3 DEF HandshakeFails, Goto
    <3> QED BY <2>3, <3>1, SameRoutes DEF HandshakeFails, snapshotVars, runVars,
        mapVars, IInv, RoutesInv
  <2>4. CASE Authorize(c)
    <3>1. \A d \in Conns : conn'[d] = "checked" => conn[d] = "checked"
      BY Zenon, <2>4 DEF Authorize, Goto
    <3> QED BY <2>4, <3>1, SameRoutes DEF Authorize, snapshotVars, runVars, mapVars,
        IInv, RoutesInv
  <2>5. CASE Claim(c)
    <3>1. \A d \in Conns : conn'[d] = "checked" => conn[d] = "checked"
      BY Zenon, <2>5 DEF Claim, Goto, Return
    <3> QED BY <2>5, <3>1, SameRoutes DEF Claim, snapshotVars, runVars, IInv, RoutesInv
  <2>6. CASE SendRegistered(c)
    <3>1. \A d \in Conns : conn'[d] = "checked" => conn[d] = "checked"
      BY Zenon, <2>6 DEF SendRegistered, Goto
    <3> QED BY <2>6, <3>1, SameRoutes DEF SendRegistered, snapshotVars, runVars,
        mapVars, IInv, RoutesInv
  <2>7. CASE Reauthorize(c)
    <3>1. ASSUME NEW d \in Conns, conn'[d] = "checked" PROVE AuthorizedSince(d)
      <4>1. CASE d = c
        <5>1. Granted(c, current)
          BY <2>7, <3>1, <4>1 DEF Reauthorize, Goto
        <5>2. current \in applied .. current
          BY DEF IInv, RoutesInv
        <5> QED BY <4>1, <5>1, <5>2 DEF AuthorizedSince
      <4>2. CASE d # c
        BY Zenon, <2>7, <3>1, <4>2 DEF Reauthorize, Goto, IInv, RoutesInv
      <4> QED BY <4>1, <4>2
    <3> QED BY <2>7, <3>1, SameRoutes DEF Reauthorize, snapshotVars, runVars, mapVars,
        IInv, RoutesInv
  <2>8. CASE InsertSession(c)
    <3>1. \A d \in sessions' : AuthorizedSince(d)
      BY <2>8 DEF InsertSession, IInv, RoutesInv
    <3>2. \A d \in Conns : conn'[d] = "checked" => AuthorizedSince(d)
      BY <2>8 DEF InsertSession, Goto, IInv, RoutesInv
    <3>3. run # "pruned"
      BY Zenon, <2>8 DEF InsertSession, IInv, GateInv, Holds
    <3> QED
      BY <2>8, <3>1, <3>2, <3>3, SameRoutes DEF InsertSession, snapshotVars, runVars,
          IInv, RoutesInv
  <2>9. CASE InsertTunnel(c)
    <3>1. \A d \in Conns : conn'[d] = "checked" => conn[d] = "checked"
      BY Zenon, <2>9 DEF InsertTunnel, Goto
    <3> QED BY <2>9, <3>1, SameRoutes DEF InsertTunnel, snapshotVars, runVars, IInv,
        RoutesInv
  <2>10. CASE RemoveTunnel(c)
    <3>1. \A d \in Conns : conn'[d] = "checked" => conn[d] = "checked"
      BY ZenonT(40), <2>10 DEF RemoveTunnel, Goto
    <3> QED BY <2>10, <3>1, SameRoutes DEF RemoveTunnel, snapshotVars, runVars, IInv,
        RoutesInv
  <2>11. CASE RemoveSession(c)
    <3>1. \A d \in Conns : conn'[d] = "checked" => conn[d] = "checked"
      BY Zenon, <2>11 DEF RemoveSession, Goto
    <3> QED BY <2>11, <3>1, SameRoutes DEF RemoveSession, snapshotVars, runVars, IInv,
        RoutesInv
  <2>12. CASE Leave(c)
    <3>1. \A d \in Conns : conn'[d] = "checked" => conn[d] = "checked"
      BY Zenon, <2>12 DEF Leave, Goto, Return
    <3> QED BY <2>12, <3>1, SameRoutes DEF Leave, snapshotVars, runVars, IInv, RoutesInv
  <2>13. CASE Disconnect(c)
    <3>1. \A d \in Conns : conn'[d] = "checked" => conn[d] = "checked"
      BY Zenon, <2>13 DEF Disconnect, Goto
    <3> QED BY <2>13, <3>1, SameRoutes DEF Disconnect, snapshotVars, runVars, mapVars,
        IInv, RoutesInv
  <2>14. CASE SessionFails(c)
    <3>1. \A d \in Conns : conn'[d] = "checked" => conn[d] = "checked"
      BY Zenon, <2>14 DEF SessionFails, Goto
    <3> QED BY <2>14, <3>1, SameRoutes DEF SessionFails, snapshotVars, runVars, mapVars,
        IInv, RoutesInv
  <2>15. CASE SessionEnds(c)
    <3>1. \A d \in Conns : conn'[d] = "checked" => conn[d] = "checked"
      BY <2>15 DEF SessionEnds, Goto
    <3> QED BY <2>15, <3>1, SameRoutes DEF SessionEnds, snapshotVars, runVars, mapVars,
        IInv, RoutesInv
  <2>16. CASE ReceiveDrain(c)
    <3>1. \A d \in Conns : conn'[d] = "checked" => conn[d] = "checked"
      BY Zenon, <2>16 DEF ReceiveDrain, Goto
    <3> QED BY Zenon, <2>16, <3>1, SameRoutes DEF ReceiveDrain, snapshotVars, runVars, mapVars,
        IInv, RoutesInv
  <2>17. CASE ReceiveRevoke(c)
    <3>1. \A d \in Conns : conn'[d] = "checked" => conn[d] = "checked"
      BY <2>17 DEF ReceiveRevoke, Goto
    <3> QED BY <2>17, <3>1, SameRoutes DEF ReceiveRevoke, snapshotVars, runVars,
        mapVars, IInv, RoutesInv
  <2>18. CASE Abort(c)
    <3>1. \A d \in Conns : conn'[d] = "checked" => conn[d] = "checked"
      BY <2>18 DEF Abort, Goto, Return
    <3> QED BY Zenon, <2>18, <3>1, SameRoutes DEF Abort, snapshotVars, runVars, IInv, RoutesInv
  <2> QED
    BY Zenon, <1>4, <2>1, <2>2, <2>3, <2>4, <2>5, <2>6, <2>7, <2>8, <2>9, <2>10, <2>11,
       <2>12, <2>13, <2>14, <2>15, <2>16, <2>17, <2>18
       DEF ConnStep, GateStep
<1>5. ASSUME NEW o \in Opens,
             \/ OpenTunnel(o) \/ OpenSession(o) \/ EnqueueIo(o)
             \/ StreamOpens(o) \/ StreamEnds(o)
      PROVE  RoutesInv'
  <2>1. CASE OpenTunnel(o) \/ OpenSession(o) \/ EnqueueIo(o) \/ StreamOpens(o)
    BY ZenonT(40), <1>2, <2>1 DEF OpenTunnel, OpenSession, EnqueueIo, StreamOpens,
        snapshotVars, runVars, connVars, mapVars
  <2>2. CASE StreamEnds(o)
    <3>1. \A d \in Conns : conn'[d] = "checked" => conn[d] = "checked"
      BY <2>2 DEF StreamEnds, Goto
    <3> QED BY ZenonT(40), <2>2, <3>1, SameRoutes DEF StreamEnds, snapshotVars, runVars, mapVars,
        IInv, RoutesInv
  <2> QED
    BY <1>5, <2>1, <2>2
<1>6. CASE UNCHANGED vars
  BY <1>2, <1>6 DEF vars, snapshotVars, runVars, connVars, mapVars
<1> QED BY Zenon, <1>3, <1>4, <1>5, <1>6 DEF Next

-----------------------------------------------------------------------------
(* Theorems.                                                               *)

\* The inductive invariant holds of every behaviour of the registry.
THEOREM RegistryInductive == Spec => []IInv
<1>1. Init => IInv
  <2> SUFFICES ASSUME Init PROVE IInv
    OBVIOUS
  <2>1. TypeOK
    <3>1. 0 \in 0 .. MaxVersion /\ 0 <= CommandCapacity
      BY MaxVersionAssumption, CommandCapacityAssumption
    <3>2. <<>> \in Seq(Commands) /\ Len(<<>>) = 0
      BY EmptySeq
    <3>3. grants \in [0 .. MaxVersion -> SUBSET Conns]
      BY DEF Init
    <3>4. /\ queue \in [Conns -> Seq(Commands)]
          /\ \A c \in Conns : Len(queue[c]) <= CommandCapacity
      BY <3>1, <3>2 DEF Init
    <3> QED BY ZenonT(40), <3>1, <3>3, <3>4 DEF Init, TypeOK, ConnStates
  <2>2. ResolvedInv /\ ClaimInv /\ GateInv
    BY DEF Init, ResolvedInv, ClaimInv, ClaimStates, GateInv, Holds
  <2>3. RegistryInv /\ BoundInv /\ RoutesInv
    BY DEF Init, RegistryInv, BoundInv, RoutesInv
  <2> QED BY <2>1, <2>2, <2>3 DEF IInv
<1>2. IInv /\ [Next]_vars => IInv'
  BY TypeInvStep, ResolvedInvStep, ClaimInvStep, GateInvStep, RegistryInvStep,
     BoundInvStep, RoutesInvStep DEF IInv
<1> QED BY <1>1, <1>2, PTL DEF Spec

\* The state keeps its type; no command channel exceeds its capacity, although
\* router calls, reconciliation and shutdown all send into it.
THEOREM TypeCorrect == Spec => []TypeOK
<1>1. IInv => TypeOK
  BY DEF IInv
<1> QED BY <1>1, RegistryInductive, PTL

\* TunnelRegistrationClaims is exact and exclusive, through refused handshakes,
\* timeouts, teardown and abort.
THEOREM ClaimsExclusive == Spec => []OneClaimPerTunnel
<1>1. IInv => OneClaimPerTunnel
  <2> SUFFICES ASSUME IInv PROVE OneClaimPerTunnel
    OBVIOUS
  <2>1. ClaimInv /\ claims \in SUBSET Tunnels
    BY DEF IInv, TypeOK
  <2>2. \A t \in claims : t \in {TunnelOf[c] : c \in {d \in Conns : conn[d] \in ClaimStates}}
    BY ZenonT(40), <2>1 DEF ClaimInv
  <2>3. \A t \in {TunnelOf[c] : c \in {d \in Conns : conn[d] \in ClaimStates}} : t \in claims
    <3> TAKE t \in {TunnelOf[c] : c \in {d \in Conns : conn[d] \in ClaimStates}}
    <3>1. PICK c \in Conns : conn[c] \in ClaimStates /\ TunnelOf[c] = t OBVIOUS
    <3> QED BY Zenon, <2>1, <3>1 DEF ClaimInv
  <2>4. claims = {TunnelOf[c] : c \in {d \in Conns : conn[d] \in ClaimStates}}
    BY <2>2, <2>3
  <2> QED BY <2>1, <2>4 DEF ClaimInv, OneClaimPerTunnel
<1> QED BY <1>1, RegistryInductive, PTL

\* Whenever the gate is free the two maps agree and every entry has an owner;
\* the debug_assert of run_accepted_session cannot fail before a forced abort.
THEOREM RegistrySafe == Spec => []RegistryConsistent
<1>1. IInv => RegistryConsistent
  <2> SUFFICES ASSUME IInv, run \notin {"forced", "stopped"} PROVE RegistryConsistent
    BY DEF RegistryConsistent
  <2>1. ASSUME ~gate
        PROVE  /\ \A t \in Tunnels : tunnels[t] # None =>
                     tunnels[t] \in sessions /\ TunnelOf[tunnels[t]] = t
               /\ \A c \in sessions :
                     /\ tunnels[TunnelOf[c]] = c
                     /\ conn[c] \in {"live", "closing", "ended"}
    <3>1. run # "pruned" /\ \A c \in Conns : conn[c] \notin {"inserted", "unbound"}
      BY <2>1 DEF IInv, GateInv, Holds
    <3>2. sessions \subseteq Conns
      BY DEF IInv, TypeOK
    <3> QED BY <3>1, <3>2, Zenon DEF IInv, RegistryInv, Bound
  <2>2. \A c \in Conns : conn[c] = "inserted" => tunnels[TunnelOf[c]] = None
    <3> SUFFICES ASSUME NEW c \in Conns, conn[c] = "inserted",
                        tunnels[TunnelOf[c]] # None
                 PROVE  FALSE
      BY Zenon
    <3> DEFINE d == tunnels[TunnelOf[c]]
    <3>1. TunnelOf[c] \in Tunnels /\ d \in Conns
      BY TunnelOfAssumption DEF IInv, TypeOK
    <3>2. TunnelOf[d] = TunnelOf[c] /\ conn[d] \in Bound
      BY ZenonT(40), <3>1 DEF IInv, RegistryInv
    <3>3. c = d
      BY Zenon, <3>1, <3>2 DEF IInv, ClaimInv, ClaimStates, Bound
    <3> QED BY ZenonT(40), <3>2, <3>3 DEF Bound
  <2> QED BY <2>1, <2>2 DEF RegistryConsistent
<1> QED BY <1>1, RegistryInductive, PTL

\* A session in the registry is authorized by a snapshot no older than the
\* applied one, whatever is published while it registers.
THEOREM RoutesSafe == Spec => []RoutesAuthorized
<1>1. IInv => RoutesAuthorized
  BY DEF IInv, RoutesInv, AuthorizedSince, RoutesAuthorized
<1> QED BY <1>1, RegistryInductive, PTL

\* Whatever happens while a router call waits for the session map, it is handed
\* to the session its tunnel is bound to, which is authorized; and at most one
\* call, the one under the gate, is handed over after admission stopped.
THEOREM EnqueueSafe == Spec => EnqueueAuthorized
<1> DEFINE Handed(o) == open[o] = "resolved" /\ open'[o] = "queued"
<1>1. ASSUME IInv, [Next]_vars, NEW o \in Opens, Handed(o)
      PROVE  /\ tunnels[TunnelOf[at[o]]] = at[o]
             /\ \E v \in applied .. current : Granted(at[o], v)
             /\ ~accepting => \A p \in Opens : open'[p] # "resolved"
  <2>1. EnqueueIo(o)
    <3> USE <1>1 DEF IInv, TypeOK
    <3>1. CASE UNCHANGED open
      BY <3>1
    <3>2. ASSUME NEW c \in Conns,
                 SessionFails(c) \/ SessionEnds(c) \/ Abort(c) \/ ReceiveOpen(c)
          PROVE  open'[o] # "queued"
      BY ZenonT(40), <3>2 DEF SessionFails, SessionEnds, Abort, ReceiveOpen, DropQueue
    <3>3. ASSUME NEW p \in Opens,
                 OpenTunnel(p) \/ OpenSession(p) \/ StreamOpens(p) \/ StreamEnds(p)
          PROVE  open'[o] # "queued"
      BY Zenon, <3>3 DEF OpenTunnel, OpenSession, StreamOpens, StreamEnds
    <3>4. ASSUME NEW p \in Opens, EnqueueIo(p) PROVE p = o
      BY Zenon, <3>4 DEF EnqueueIo
    <3> QED
      BY ZenonT(40), <3>1, <3>2, <3>3, <3>4
         DEF vars, openVars, Next, LoopStep, ConnStep, GateStep, Publish,
             SetSourceHealth, Signal, FetchSnapshot, PruneTunnels, PruneSessions,
             PickRevoked, SendRevoke, ReconcileDone, StopAccepting, CollectSenders,
             SendDrain, AwaitTasks, DrainDeadline, ClearRegistry, Accept,
             HandshakeFails, Authorize, Claim, SendRegistered, Reauthorize,
             InsertSession, InsertTunnel, RemoveTunnel, RemoveSession, Leave,
             Disconnect, ReceiveDrain, ReceiveRevoke
  <2>2. at[o] \in sessions /\ ReceiverAlive(at[o]) /\ at[o] \in Conns
    BY ZenonT(40), <1>1, <2>1 DEF EnqueueIo, IInv, TypeOK, ResolvedInv
  <2>3. run # "pruned" /\ ~Holds(at[o])
    BY Zenon, <1>1, <2>2 DEF IInv, GateInv
  <2>4. conn[at[o]] \in Bound
    BY Zenon, <2>2, <2>3 DEF ReceiverAlive, Holds, Bound
  <2>5. tunnels[TunnelOf[at[o]]] = at[o]
    BY Zenon, <1>1, <2>2, <2>3, <2>4 DEF IInv, BoundInv
  <2>6. \A p \in Opens : open'[p] # "resolved"
    <3>1. \A p \in Opens : p # o => open[p] # "resolved" /\ open'[p] = open[p]
      BY ZenonT(40), <1>1, <2>1 DEF EnqueueIo, IInv, TypeOK, GateInv
    <3> QED BY Zenon, <1>1, <3>1
  <2> QED BY <1>1, <2>2, <2>5, <2>6 DEF IInv, RoutesInv, AuthorizedSince
<1>2. IInv /\ [Next]_vars =>
        (\A o \in Opens : open[o] = "resolved" /\ open'[o] = "queued" =>
            /\ tunnels[TunnelOf[at[o]]] = at[o]
            /\ \E v \in applied .. current : Granted(at[o], v)
            /\ ~accepting => \A p \in Opens : open'[p] # "resolved")
  BY Zenon, <1>1
<1> QED BY <1>2, RegistryInductive, PTL DEF Spec, EnqueueAuthorized

\* For any number of Agents, tunnels and snapshots the registry of the Edge is
\* sound: claims are exclusive, its two maps agree, its sessions are authorized.
THEOREM RegistrySoundProved == Spec => []RegistrySound
<1>1. OneClaimPerTunnel /\ RegistryConsistent /\ RoutesAuthorized => RegistrySound
  BY DEF RegistrySound
<1> QED BY <1>1, ClaimsExclusive, RegistrySafe, RoutesSafe, PTL
=============================================================================
