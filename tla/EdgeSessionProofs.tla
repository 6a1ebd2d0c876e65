------------------------- MODULE EdgeSessionProofs -------------------------
(***************************************************************************)
(* The safety properties of EdgeSession, for every number of stream ids,   *)
(* every capacity and every heartbeat bound.                               *)
(*                                                                         *)
(* SlotsRecoverable and CallersAnswered are inductive once the map is      *)
(* known to be empty after the loop.  IdsNeverReused needs that the ids    *)
(* not handed out yet are unused (FreshInv), and PongExpected that a PING  *)
(* is in one place only, the loop's hand, the control channel or the       *)
(* Agent's, from HeartbeatDue to the PONG (BeatInv).                       *)
(*                                                                         *)
(* The last part is about the session as a whole: what an Agent believes   *)
(* about it agrees with what the Edge holds (AgentLink).                   *)
(***************************************************************************)
EXTENDS EdgeSession, AgentLink, FiniteSetTheorems, TLAPS

-----------------------------------------------------------------------------
(* Facts about sequences.                                                  *)

LEMMA LenProperties ==
  ASSUME NEW S, NEW q \in Seq(S)
  PROVE  Len(q) \in Nat /\ DOMAIN q = 1 .. Len(q) /\ q \in [1 .. Len(q) -> S]
  OBVIOUS

LEMMA EmptySeq ==
  ASSUME NEW S
  PROVE  <<>> \in Seq(S) /\ Len(<<>>) = 0 /\ \A q \in Seq(S) : q # <<>> => Len(q) \in Nat \ {0}
  OBVIOUS

LEMMA HeadTailProperties ==
  ASSUME NEW S, NEW q \in Seq(S), q # <<>>
  PROVE  /\ Head(q) \in S /\ Tail(q) \in Seq(S) /\ Len(Tail(q)) = Len(q) - 1
         /\ \A i \in 1 .. Len(Tail(q)) : Tail(q)[i] = q[i + 1]
  OBVIOUS

LEMMA AppendProperties ==
  ASSUME NEW S, NEW q \in Seq(S), NEW x \in S
  PROVE  /\ Append(q, x) \in Seq(S) /\ Append(q, x) # <<>> /\ Len(Append(q, x)) = Len(q) + 1
         /\ \A i \in 1 .. Len(q) : Append(q, x)[i] = q[i]
         /\ Append(q, x)[Len(q) + 1] = x
  OBVIOUS

\* The loop's senders go with it, and no id from nextId on was ever used.
FreshInv ==
    /\ LoopGone => streams = {}
    /\ nextId # 0 => \A s \in Ids : s >= nextId => task[s] = "none"

\* While the loop lives, the outstanding PING is the only one anywhere.
BeatInv ==
    loop \in {"run", "send"} =>
        /\ echo \in {0, pending}
        /\ \A i \in DOMAIN control : control[i] \in {0, pending}
        /\ \A i, j \in DOMAIN control : control[i] # 0 /\ control[j] # 0 => i = j
        /\ echo # 0 => \A i \in DOMAIN control : control[i] = 0
        /\ sending = "ping" => pending = 0

IInv ==
    /\ TypeOK
    /\ FreshInv
    /\ SlotsRecoverable
    /\ CallersAnswered
    /\ BeatInv





-----------------------------------------------------------------------------
(* Types.                                                                  *)

\* Sending into a bounded channel with room, and receiving from one.
LEMMA SentType ==
    ASSUME NEW S, NEW q \in Seq(S), NEW x \in S, NEW n \in Nat, Len(q) < n
    PROVE  Append(q, x) \in Seq(S) /\ Len(Append(q, x)) <= n
<1>1. Append(q, x) \in Seq(S) /\ Len(Append(q, x)) = Len(q) + 1 /\ Len(q) \in Nat
  BY AppendProperties, LenProperties
<1> QED BY <1>1

LEMMA ReceivedType ==
    ASSUME NEW S, NEW q \in Seq(S), NEW n \in Nat, Len(q) <= n, q # <<>>
    PROVE  Tail(q) \in Seq(S) /\ Len(Tail(q)) <= n /\ Head(q) \in S
<1>1. /\ Tail(q) \in Seq(S) /\ Head(q) \in S
      /\ Len(Tail(q)) = Len(q) - 1 /\ Len(q) \in Nat
  BY ZenonT(40), HeadTailProperties, LenProperties
<1> QED BY <1>1

LoopType ==
    /\ loop \in {"run", "send", "teardown", "returned"}
    /\ sending \in {"none", "frame", "ping"}
    /\ streams \in SUBSET Ids /\ nextId \in 0 .. LastId /\ draining \in BOOLEAN

\* The loop keeps its types; the id counter runs into 0 and stays there.
LEMMA LoopTypeStep ==
    ASSUME IInv, [Next]_vars
    PROVE  LoopType'
<1> USE DEF LoopType
<1>0. LoopType
  BY DEF IInv, TypeOK
<1>1. CASE UNCHANGED <<loop, sending, streams, nextId, draining>>
  BY <1>0, <1>1
<1>2. ASSUME NEW s \in Ids, Overflow(s) PROVE LoopType'
  BY <1>0, <1>2 DEF Overflow, AwaitReset, beatVars, taskVars, writerVars
<1>3. CASE ReceivePong
  BY <1>0, <1>3 DEF ReceivePong, Fail, taskVars, writerVars
<1>4. CASE EndOfSession
  BY <1>0, <1>4 DEF EndOfSession, Break, beatVars, taskVars, writerVars
<1>5. CASE SessionError
  BY <1>0, <1>5 DEF SessionError, Fail, beatVars, taskVars, writerVars
<1>6. CASE Open
  <2>1. nextId \in Ids /\ nextId' = (nextId + 1) % (LastId + 1)
    BY <1>0, <1>6, LastIdAssumption DEF Open, Ids
  <2>2. nextId' \in 0 .. LastId
    BY <2>1, LastIdAssumption DEF Ids
  <2> QED BY <1>0, <1>6, <2>1, <2>2 DEF Open
<1>7. CASE BeginDrain
  BY <1>0, <1>7 DEF BeginDrain, Break, beatVars, taskVars, writerVars
<1>8. CASE ReceiveEvent
  BY <1>0, <1>8 DEF ReceiveEvent, Break, beatVars, taskVars, writerVars
<1>9. CASE HeartbeatDue
  BY <1>0, <1>9 DEF HeartbeatDue, beatVars, taskVars, writerVars
<1>10. CASE LoopSends
  BY <1>0, <1>10 DEF LoopSends, ControlRoom, ControlSend, Fail, taskVars
<1>11. CASE LoopSendFails
  BY <1>0, <1>11 DEF LoopSendFails, Fail, beatVars, taskVars, writerVars
<1>12. CASE WriterEnded
  BY <1>0, <1>12 DEF WriterEnded, Fail, beatVars, taskVars, writerVars
<1>13. CASE TeardownDone
  BY <1>0, <1>13 DEF TeardownDone, beatVars, taskVars, writerVars
<1>14. ASSUME NEW s \in Ids, NEW k \in AgentSends, Unknown(s, k) PROVE LoopType'
  BY Zenon, <1>0, <1>14 DEF Unknown, AwaitReset, beatVars, taskVars, writerVars
<1> QED
  BY ZenonT(40), <1>0, <1>1, <1>2, <1>3, <1>4, <1>5, <1>6, <1>7, <1>8, <1>9, <1>10, <1>11, <1>12, <1>13, <1>14
     DEF Next, vars, ReceiveFrame, TaskStep, Receive, LoopStep, WriterStep, beatVars,
         loopVars, taskVars, writerVars, WriterTakes, WriterFinishes, WriterFails,
         SendOpen, OpenTimeout, WriteDone, DataSent, Graceful, SendReset, Notify,
         FirstFrame, InboundClosed, RelayFrame, ReadIngress, Idle, Dispatch

\* The stream table never exceeds max_streams_per_session.
LEMMA SlotStep ==
    ASSUME IInv, [Next]_vars
    PROVE  Cardinality(streams') <= MaxStreams
<1>0. /\ streams \in SUBSET Ids /\ IsFiniteSet(streams)
      /\ Cardinality(streams) \in Nat /\ Cardinality(streams) <= MaxStreams
  <2>1. IsFiniteSet(Ids)
    BY FS_Interval, LastIdAssumption DEF Ids
  <2>2. streams \in SUBSET Ids /\ Cardinality(streams) <= MaxStreams
    BY DEF IInv, TypeOK
  <2> QED BY <2>1, <2>2, FS_Subset, FS_CardinalityType
<1>a. ASSUME NEW s PROVE Cardinality(streams \ {s}) <= MaxStreams
  <2>1. streams \ {s} \in SUBSET streams
    OBVIOUS
  <2>2. /\ Cardinality(streams \ {s}) <= Cardinality(streams)
        /\ Cardinality(streams \ {s}) \in Nat
    BY <1>0, <2>1, FS_Subset, FS_CardinalityType
  <2> QED BY <1>0, <2>2, MaxStreamsAssumption
<1>b. Cardinality({}) <= MaxStreams
  BY FS_EmptySet, MaxStreamsAssumption
<1>1. CASE UNCHANGED <<streams>>
  BY <1>0, <1>a, <1>b, <1>1
<1>2. ASSUME NEW s \in Ids, Overflow(s) PROVE Cardinality(streams') <= MaxStreams
  BY <1>0, <1>a, <1>b, <1>2 DEF Overflow, AwaitReset, beatVars, taskVars, writerVars
<1>3. CASE ReceivePong
  BY <1>0, <1>a, <1>b, <1>3 DEF ReceivePong, Fail, taskVars, writerVars
<1>4. CASE EndOfSession
  BY <1>0, <1>a, <1>b, <1>4 DEF EndOfSession, Break, beatVars, taskVars, writerVars
<1>5. CASE SessionError
  BY <1>0, <1>a, <1>b, <1>5 DEF SessionError, Fail, beatVars, taskVars, writerVars
<1>6. CASE Open
  <2>1. Cardinality(streams \cup {nextId}) \in {Cardinality(streams), Cardinality(streams) + 1}
    BY <1>0, FS_AddElement
  <2>2. Cardinality(streams) < MaxStreams /\ streams' = streams \cup {nextId}
    BY <1>0, <1>a, <1>b, <1>6 DEF Open, HasSlot
  <2> QED BY <1>0, <2>1, <2>2, MaxStreamsAssumption
<1>7. CASE BeginDrain
  BY <1>0, <1>a, <1>b, <1>7 DEF BeginDrain, Break, beatVars, taskVars, writerVars
<1>8. CASE ReceiveEvent
  BY Zenon, <1>0, <1>a, <1>b, <1>8 DEF ReceiveEvent, Break, beatVars, taskVars, writerVars
<1>9. CASE LoopSends
  BY Zenon, <1>0, <1>a, <1>b, <1>9 DEF LoopSends, ControlRoom, ControlSend, Fail, taskVars
<1>10. CASE LoopSendFails
  BY <1>0, <1>a, <1>b, <1>10 DEF LoopSendFails, Fail, beatVars, taskVars, writerVars
<1>11. CASE WriterEnded
  BY <1>0, <1>a, <1>b, <1>11 DEF WriterEnded, Fail, beatVars, taskVars, writerVars
<1>12. ASSUME NEW s \in Ids, NEW k \in AgentSends, Unknown(s, k) PROVE Cardinality(streams') <= MaxStreams
  BY Zenon, <1>0, <1>a, <1>b, <1>12 DEF Unknown, AwaitReset, beatVars, taskVars, writerVars
<1> QED
  BY ZenonT(40), <1>1, <1>2, <1>3, <1>4, <1>5, <1>6, <1>7, <1>8, <1>9, <1>10, <1>11, <1>12
     DEF Next, vars, ReceiveFrame, TaskStep, Receive, LoopStep, WriterStep, beatVars,
         loopVars, taskVars, writerVars, HeartbeatDue, TeardownDone, WriterTakes,
         WriterFinishes, WriterFails, SendOpen, OpenTimeout, WriteDone, DataSent,
         Graceful, SendReset, Notify, FirstFrame, InboundClosed, RelayFrame,
         ReadIngress, Idle, Dispatch

BeatType == pending \in 0 .. MaxBeat /\ beat \in 1 .. MaxBeat /\ echo \in 0 .. MaxBeat

\* The heartbeat keeps its types.
LEMMA BeatTypeStep ==
    ASSUME IInv, [Next]_vars
    PROVE  BeatType'
<1> USE MaxBeatAssumption DEF BeatType
<1>0. BeatType /\ control \in Seq(0 .. MaxBeat)
  BY DEF IInv, TypeOK
<1>1. CASE UNCHANGED <<pending, beat, echo>>
  BY <1>0, <1>1
<1>2. CASE ReceivePong
  BY <1>0, <1>2 DEF ReceivePong, Fail, taskVars, writerVars
<1>3. CASE LoopSends
  BY <1>0, <1>3 DEF LoopSends, ControlRoom, ControlSend, Fail, taskVars
<1>4. CASE WriterTakes
  <2>1. Head(control) \in 0 .. MaxBeat
    BY SMTT(30), <1>0, <1>4, HeadTailProperties DEF WriterTakes
  <2> QED BY <1>0, <1>4, <2>1 DEF WriterTakes
<1> QED
  BY Zenon, <1>1, <1>2, <1>3, <1>4
     DEF Next, vars, ReceiveFrame, TaskStep, Receive, LoopStep, WriterStep, beatVars,
         loopVars, taskVars, writerVars, Overflow, EndOfSession, SessionError, Open,
         BeginDrain, ReceiveEvent, HeartbeatDue, LoopSendFails, WriterEnded,
         TeardownDone, WriterFinishes, WriterFails, SendOpen, OpenTimeout, WriteDone,
         DataSent, Graceful, SendReset, Notify, FirstFrame, InboundClosed, RelayFrame,
         ReadIngress, Idle, Dispatch, Unknown

\* The event channel keeps its type and its bound.
LEMMA EventsTypeStep ==
    ASSUME IInv, [Next]_vars
    PROVE  events' \in Seq(Ids) /\ Len(events') <= MaxStreams
<1>0. events \in Seq(Ids) /\ Len(events) <= MaxStreams /\ MaxStreams \in Nat
  BY MaxStreamsAssumption DEF IInv, TypeOK
<1>1. CASE UNCHANGED <<events>>
  BY <1>0, <1>1
<1>2. CASE ReceiveEvent
  BY <1>0, <1>2, ReceivedType DEF ReceiveEvent
<1>3. ASSUME NEW s \in Ids, Notify(s) PROVE events' \in Seq(Ids) /\ Len(events') <= MaxStreams
  <2>1. CASE loop = "returned"
    BY <1>0, <1>3, <2>1 DEF Notify
  <2>2. CASE loop # "returned"
    <3>1. Len(events) < MaxStreams /\ events' = Append(events, s)
      BY SMTT(30), <1>3, <2>2 DEF Notify
    <3> QED BY ONLY <1>0, <3>1, s \in Ids, SentType
  <2> QED BY <2>1, <2>2
<1> QED
  BY Zenon, <1>1, <1>2, <1>3
     DEF Next, vars, ReceiveFrame, TaskStep, Receive, LoopStep, WriterStep, beatVars,
         loopVars, taskVars, writerVars, Overflow, ReceivePong, EndOfSession,
         SessionError, Open, BeginDrain, HeartbeatDue, LoopSends, LoopSendFails,
         WriterEnded, TeardownDone, WriterTakes, WriterFinishes, WriterFails, SendOpen,
         OpenTimeout, WriteDone, DataSent, Graceful, SendReset, FirstFrame,
         InboundClosed, RelayFrame, ReadIngress, Idle, Dispatch, Unknown

ControlType ==
    /\ control \in Seq(0 .. MaxBeat) /\ Len(control) <= ControlCapacity
    /\ writer \in {"up", "finished", "failed"}

\* The control channel keeps its type and its bound.
LEMMA ControlTypeStep ==
    ASSUME IInv, [Next]_vars
    PROVE  ControlType'
<1>0. ControlType /\ ControlCapacity \in Nat
  BY ControlCapacityAssumption DEF IInv, TypeOK, ControlType
<1>s. ASSUME NEW x \in 0 .. MaxBeat, ControlSend(x)
      PROVE  control' \in Seq(0 .. MaxBeat) /\ Len(control') <= ControlCapacity
  <2>1. Len(control) < ControlCapacity /\ control' = Append(control, x)
    BY <1>s DEF ControlSend, ControlRoom
  <2>2. control \in Seq(0 .. MaxBeat)
    BY <1>0 DEF ControlType
  <2> QED BY ONLY <1>0, <2>1, <2>2, x \in 0 .. MaxBeat, SentType
<1>z. 0 \in 0 .. MaxBeat
  BY MaxBeatAssumption
<1>1. CASE UNCHANGED <<control, writer>>
  BY <1>0, <1>1 DEF ControlType
<1>2. CASE LoopSends
  <2>1. beat \in 0 .. MaxBeat
    BY MaxBeatAssumption DEF IInv, TypeOK
  <2> DEFINE x == IF sending = "ping" THEN beat ELSE 0
  <2>2. x \in 0 .. MaxBeat /\ ControlSend(x)
    BY <1>z, <1>2, <2>1 DEF LoopSends
  <2> QED BY <1>0, <1>s, <1>2, <2>2 DEF ControlType, LoopSends
<1>3. CASE WriterTakes
  <2>1. control' = Tail(control) /\ control # <<>> /\ writer' = writer
    BY <1>3 DEF WriterTakes
  <2> QED BY <1>0, <2>1, ReceivedType DEF ControlType
<1>4. CASE WriterFinishes
  BY <1>0, <1>4 DEF WriterFinishes, ControlType
<1>5. CASE WriterFails
  <2>1. <<>> \in Seq(0 .. MaxBeat) /\ Len(<<>>) = 0
    BY EmptySeq
  <2> QED BY <1>0, <1>5, <2>1 DEF WriterFails, ControlType
<1>6. ASSUME NEW s \in Ids, SendOpen(s) PROVE ControlType'
  BY <1>0, <1>s, <1>z, <1>6 DEF SendOpen, ControlType
<1>7. ASSUME NEW s \in Ids, SendReset(s) PROVE ControlType'
  BY Zenon, <1>0, <1>s, <1>z, <1>7 DEF SendReset, ControlType
<1> QED
  BY Zenon, <1>1, <1>2, <1>3, <1>4, <1>5, <1>6, <1>7
     DEF Next, vars, ReceiveFrame, TaskStep, Receive, LoopStep, WriterStep, beatVars,
         loopVars, taskVars, writerVars, Overflow, ReceivePong, EndOfSession,
         SessionError, Open, BeginDrain, ReceiveEvent, HeartbeatDue, LoopSendFails,
         WriterEnded, TeardownDone, OpenTimeout, WriteDone, DataSent, Graceful, Notify,
         FirstFrame, InboundClosed, RelayFrame, ReadIngress, Idle, Dispatch, Unknown

TaskType ==
    /\ task \in [Ids -> TaskStates]
    /\ ended \in [Ids -> SUBSET {"ingress", "agent"}]
    /\ answer \in [Ids -> {"none", "ok", "error"}]

\* The stream tasks keep their types.
LEMMA TaskTypeStep ==
    ASSUME IInv, [Next]_vars
    PROVE  TaskType'
<1> USE DEF TaskType, TaskStates
<1>0. TaskType
  BY DEF IInv, TypeOK
<1>1. CASE UNCHANGED <<task, ended, answer>>
  BY <1>0, <1>1
<1>2. CASE Open
  <2>1. task' = [task EXCEPT ![nextId] = "opening"]
    BY <1>0, <1>2 DEF Open
  <2>2. ended' = [ended EXCEPT ![nextId] = {}]
    BY <1>0, <1>2 DEF Open
  <2>3. answer' = [answer EXCEPT ![nextId] = "none"]
    BY <1>0, <1>2 DEF Open
  <2> QED BY Zenon, <1>0, <2>1, <2>2, <2>3
<1>3. ASSUME NEW s \in Ids, SendOpen(s) PROVE TaskType'
  BY <1>0, <1>3 DEF SendOpen, Answer, ControlRoom, ControlSend, Goto, beatVars, loopVars
<1>4. ASSUME NEW s \in Ids, OpenTimeout(s) PROVE TaskType'
  BY <1>0, <1>4 DEF OpenTimeout, Answer, Goto, beatVars, loopVars, writerVars
<1>5. ASSUME NEW s \in Ids, WriteDone(s) PROVE TaskType'
  BY <1>0, <1>5 DEF WriteDone, Goto, beatVars, loopVars, writerVars
<1>6. ASSUME NEW s \in Ids, DataSent(s) PROVE TaskType'
  BY <1>0, <1>6 DEF DataSent, Goto, beatVars, loopVars, writerVars
<1>7. ASSUME NEW s \in Ids, Graceful(s) PROVE TaskType'
  BY <1>0, <1>7 DEF Graceful, Goto, beatVars, loopVars, writerVars
<1>8. ASSUME NEW s \in Ids, SendReset(s) PROVE TaskType'
  BY <1>0, <1>8 DEF SendReset, ControlRoom, ControlSend, Goto, beatVars, loopVars
<1>9. ASSUME NEW s \in Ids, Notify(s) PROVE TaskType'
  BY <1>0, <1>9 DEF Notify, Goto, beatVars, loopVars, writerVars
<1>10. ASSUME NEW s \in Ids, FirstFrame(s) PROVE TaskType'
  BY <1>0, <1>10 DEF FirstFrame, Answer, Goto, beatVars, loopVars, writerVars
<1>11. ASSUME NEW s \in Ids, InboundClosed(s) PROVE TaskType'
  BY <1>0, <1>11 DEF InboundClosed, Answer, Goto, beatVars, loopVars, writerVars
<1>12. ASSUME NEW s \in Ids, RelayFrame(s) PROVE TaskType'
  BY <1>0, <1>12 DEF RelayFrame, Goto, beatVars, loopVars, writerVars
<1>13. ASSUME NEW s \in Ids, ReadIngress(s) PROVE TaskType'
  BY <1>0, <1>13 DEF ReadIngress, Goto, beatVars, loopVars, writerVars
<1>14. ASSUME NEW s \in Ids, Idle(s) PROVE TaskType'
  BY SMTT(30), <1>0, <1>14 DEF Idle, Goto, beatVars, loopVars, writerVars
<1> QED
  BY ZenonT(40), <1>1, <1>2, <1>3, <1>4, <1>5, <1>6, <1>7, <1>8, <1>9, <1>10, <1>11, <1>12, <1>13, <1>14
     DEF Next, vars, ReceiveFrame, TaskStep, Receive, LoopStep, WriterStep, beatVars,
         loopVars, taskVars, writerVars, Overflow, ReceivePong, EndOfSession,
         SessionError, BeginDrain, ReceiveEvent, HeartbeatDue, LoopSends, LoopSendFails,
         WriterEnded, TeardownDone, WriterTakes, WriterFinishes, WriterFails, Dispatch,
         Unknown

InboundType ==
    /\ inbound \in [Ids -> Seq(FrameKinds)]
    /\ \A s \in Ids : Len(inbound[s]) <= InboundCapacity

\* The inbound channels keep their type and their bound.
LEMMA InboundTypeStep ==
    ASSUME IInv, [Next]_vars
    PROVE  InboundType'
<1>0. InboundType /\ InboundCapacity \in Nat
  BY InboundCapacityAssumption DEF IInv, TypeOK, InboundType
<1>a. ASSUME NEW s \in Ids, NEW q \in Seq(FrameKinds), Len(q) <= InboundCapacity,
             inbound' = [inbound EXCEPT ![s] = q]
      PROVE  InboundType'
  BY <1>0, <1>a DEF InboundType
<1>b. ASSUME NEW s \in Ids, inbound' = [inbound EXCEPT ![s] = <<>>]
      PROVE  InboundType'
  <2>1. <<>> \in Seq(FrameKinds) /\ Len(<<>>) <= InboundCapacity
    BY <1>0, EmptySeq
  <2> QED BY Zenon, <1>a, <1>b, <2>1
<1>t. ASSUME NEW s \in Ids, inbound[s] # <<>>, inbound' = [inbound EXCEPT ![s] = Tail(@)]
      PROVE  InboundType'
  <2>1. inbound[s] \in Seq(FrameKinds) /\ Len(inbound[s]) <= InboundCapacity
    BY <1>0 DEF InboundType
  <2>2. Tail(inbound[s]) \in Seq(FrameKinds) /\ Len(Tail(inbound[s])) <= InboundCapacity
    BY ONLY <1>0, <1>t, <2>1, ReceivedType
  <2> QED BY Zenon, <1>a, <1>t, <2>2
<1>1. CASE UNCHANGED <<inbound>>
  BY <1>0, <1>1 DEF InboundType
<1>2. CASE Open
  <2>1. nextId \in Ids
    BY <1>2 DEF Open, IInv, TypeOK, Ids
  <2> QED BY Zenon, <1>2, <1>b, <2>1 DEF Open
<1>3. ASSUME NEW s \in Ids, Notify(s) PROVE InboundType'
  BY Zenon, <1>3, <1>b DEF Notify
<1>4. ASSUME NEW s \in Ids, FirstFrame(s) PROVE InboundType'
  BY Zenon, <1>4, <1>t DEF FirstFrame
<1>5. ASSUME NEW s \in Ids, RelayFrame(s) PROVE InboundType'
  BY Zenon, <1>5, <1>t DEF RelayFrame
<1>6. ASSUME NEW s \in Ids, NEW k \in AgentSends, Dispatch(s, k) PROVE InboundType'
  <2>1. /\ inbound[s] \in Seq(FrameKinds) /\ k \in FrameKinds
        /\ Len(inbound[s]) < InboundCapacity
    BY <1>0, <1>6, AgentSendsAssumption DEF InboundType, Dispatch, FrameKinds
  <2>2. /\ Append(inbound[s], k) \in Seq(FrameKinds)
        /\ Len(Append(inbound[s], k)) <= InboundCapacity
    BY ONLY <1>0, <2>1, SentType
  <2> QED BY Zenon, <1>a, <1>6, <2>2 DEF Dispatch
<1> QED
  BY Zenon, <1>1, <1>2, <1>3, <1>4, <1>5, <1>6
     DEF Next, vars, ReceiveFrame, TaskStep, Receive, LoopStep, WriterStep, beatVars,
         loopVars, taskVars, writerVars, Overflow, ReceivePong, EndOfSession,
         SessionError, BeginDrain, ReceiveEvent, HeartbeatDue, LoopSends, LoopSendFails,
         WriterEnded, TeardownDone, WriterTakes, WriterFinishes, WriterFails, SendOpen,
         OpenTimeout, WriteDone, DataSent, Graceful, SendReset, InboundClosed,
         ReadIngress, Idle, Unknown

\* Every step keeps the types and the bounds of the channels and the table.
LEMMA TypeStep ==
    ASSUME IInv, [Next]_vars
    PROVE  TypeOK'
<1>1. LoopType' /\ Cardinality(streams') <= MaxStreams /\ BeatType'
  BY LoopTypeStep, SlotStep, BeatTypeStep
<1>2. events' \in Seq(Ids) /\ Len(events') <= MaxStreams /\ ControlType'
  BY EventsTypeStep, ControlTypeStep
<1>3. TaskType' /\ InboundType'
  BY TaskTypeStep, InboundTypeStep
<1> QED
  BY <1>1, <1>2, <1>3 DEF TypeOK, LoopType, BeatType, ControlType, TaskType, InboundType

-----------------------------------------------------------------------------
(* What a step does to the tasks, the map and the events.                  *)

\* A stream task moves on, and its caller is answered when it must be.
TaskMoves(s) ==
    /\ task[s] \notin {"none", "done"}
    /\ task'[s] \in TaskStates \ {"none", "done", "opening"}
    /\ \A r \in Ids \ {s} : task'[r] = task[r] /\ answer'[r] = answer[r]
    /\ task'[s] \in {"relay", "writing", "sending"} => answer'[s] = "ok"
    /\ task'[s] \in {"reset", "notify"} => answer'[s] # "none"
    /\ UNCHANGED <<loop, streams, nextId, events>>

\* The loop, the writer or the Agent moves: senders are only dropped, and an
\* event is taken only together with the sender it names.
LoopMoves ==
    /\ UNCHANGED <<task, nextId, answer>>
    /\ streams' \subseteq streams
    /\ LoopGone' => streams' = {}
    /\ \/ UNCHANGED events
       \/ /\ events # <<>> /\ events' = Tail(events)
          /\ Head(events) \notin streams'


\* A step opens a stream, ends one, moves one, or leaves the tasks alone.
LEMMA StepShape ==
    ASSUME IInv, [Next]_vars
    PROVE  \/ Open \/ LoopMoves
           \/ \E s \in Ids : Notify(s) \/ TaskMoves(s)
<1>0. /\ task \in [Ids -> TaskStates] /\ answer \in [Ids -> {"none", "ok", "error"}]
      /\ CallersAnswered
  BY DEF IInv, TypeOK
<1>1. LoopGone => streams = {}
  BY DEF IInv, FreshInv
<1>2. CASE UNCHANGED vars
  BY <1>1, <1>2 DEF LoopMoves, LoopGone, vars, loopVars, taskVars
<1>3. ASSUME NEW s \in Ids, Overflow(s) PROVE LoopMoves
  BY <1>1, <1>3 DEF LoopMoves, LoopGone, Overflow, AwaitReset, beatVars, taskVars,
                    writerVars
<1>4. ASSUME ReceivePong PROVE LoopMoves
  BY <1>1, <1>4 DEF LoopMoves, LoopGone, ReceivePong, Fail, taskVars, writerVars
<1>5. ASSUME EndOfSession PROVE LoopMoves
  BY <1>1, <1>5 DEF LoopMoves, LoopGone, EndOfSession, Break, beatVars, taskVars,
                    writerVars
<1>6. ASSUME SessionError PROVE LoopMoves
  BY <1>1, <1>6 DEF LoopMoves, LoopGone, SessionError, Fail, beatVars, taskVars,
                    writerVars
<1>7. ASSUME BeginDrain PROVE LoopMoves
  BY <1>1, <1>7 DEF LoopMoves, LoopGone, BeginDrain, Break, beatVars, taskVars,
                    writerVars
<1>8. ASSUME ReceiveEvent PROVE LoopMoves
  BY <1>1, <1>8 DEF LoopMoves, LoopGone, ReceiveEvent, Break, beatVars, taskVars,
                    writerVars
<1>9. ASSUME HeartbeatDue PROVE LoopMoves
  BY <1>1, <1>9 DEF LoopMoves, LoopGone, HeartbeatDue, beatVars, taskVars, writerVars
<1>10. ASSUME LoopSends PROVE LoopMoves
  BY <1>1, <1>10 DEF LoopMoves, LoopGone, LoopSends, ControlRoom, ControlSend, Fail,
                     taskVars
<1>11. ASSUME LoopSendFails PROVE LoopMoves
  BY <1>1, <1>11 DEF LoopMoves, LoopGone, LoopSendFails, Fail, beatVars, taskVars,
                     writerVars
<1>12. ASSUME WriterEnded PROVE LoopMoves
  BY <1>1, <1>12 DEF LoopMoves, LoopGone, WriterEnded, Fail, beatVars, taskVars,
                     writerVars
<1>13. ASSUME TeardownDone PROVE LoopMoves
  BY <1>1, <1>13 DEF LoopMoves, LoopGone, TeardownDone, beatVars, taskVars, writerVars
<1>14. ASSUME WriterTakes PROVE LoopMoves
  BY <1>1, <1>14 DEF LoopMoves, LoopGone, WriterTakes, loopVars, taskVars, loopVars
<1>15. ASSUME WriterFinishes PROVE LoopMoves
  BY <1>1, <1>15 DEF LoopMoves, LoopGone, WriterFinishes, beatVars, loopVars, taskVars,
                     loopVars
<1>16. ASSUME WriterFails PROVE LoopMoves
  BY <1>1, <1>16 DEF LoopMoves, LoopGone, WriterFails, beatVars, loopVars, taskVars,
                     loopVars
<1>17. ASSUME NEW s \in Ids, NEW k \in AgentSends, Dispatch(s, k) PROVE LoopMoves
  BY <1>1, <1>17 DEF LoopMoves, LoopGone, Dispatch, beatVars, loopVars, writerVars,
                     loopVars
<1>18. ASSUME NEW s \in Ids, NEW k \in AgentSends, Unknown(s, k) PROVE LoopMoves
  BY <1>1, <1>18 DEF LoopMoves, LoopGone, Unknown, AwaitReset, beatVars, taskVars,
                     writerVars
<1>19. ASSUME NEW s \in Ids, SendOpen(s) PROVE TaskMoves(s)
  BY <1>0, <1>19 DEF TaskMoves, TaskStates, CallersAnswered, SendOpen, Answer,
                     ControlRoom, ControlSend, Goto, beatVars, loopVars
<1>20. ASSUME NEW s \in Ids, OpenTimeout(s) PROVE TaskMoves(s)
  BY <1>0, <1>20 DEF TaskMoves, TaskStates, CallersAnswered, OpenTimeout, Answer, Goto,
                     beatVars, loopVars, writerVars
<1>21. ASSUME NEW s \in Ids, WriteDone(s) PROVE TaskMoves(s)
  BY <1>0, <1>21 DEF TaskMoves, TaskStates, CallersAnswered, WriteDone, Goto, beatVars,
                     loopVars, writerVars
<1>22. ASSUME NEW s \in Ids, DataSent(s) PROVE TaskMoves(s)
  BY <1>0, <1>22 DEF TaskMoves, TaskStates, CallersAnswered, DataSent, Goto, beatVars,
                     loopVars, writerVars
<1>23. ASSUME NEW s \in Ids, Graceful(s) PROVE TaskMoves(s)
  BY <1>0, <1>23 DEF TaskMoves, TaskStates, CallersAnswered, Graceful, Goto, beatVars,
                     loopVars, writerVars
<1>24. ASSUME NEW s \in Ids, SendReset(s) PROVE TaskMoves(s)
  BY <1>0, <1>24 DEF TaskMoves, TaskStates, CallersAnswered, SendReset, ControlRoom,
                     ControlSend, Goto, beatVars, loopVars
<1>25. ASSUME NEW s \in Ids, FirstFrame(s) PROVE TaskMoves(s)
  BY <1>0, <1>25 DEF TaskMoves, TaskStates, CallersAnswered, FirstFrame, Answer, Goto,
                     beatVars, loopVars, writerVars
<1>26. ASSUME NEW s \in Ids, InboundClosed(s) PROVE TaskMoves(s)
  BY <1>0, <1>26 DEF TaskMoves, TaskStates, CallersAnswered, InboundClosed, Answer,
                     Goto, beatVars, loopVars, writerVars
<1>27. ASSUME NEW s \in Ids, RelayFrame(s) PROVE TaskMoves(s)
  BY <1>0, <1>27 DEF TaskMoves, TaskStates, CallersAnswered, RelayFrame, Goto, beatVars,
                     loopVars, writerVars
<1>28. ASSUME NEW s \in Ids, ReadIngress(s) PROVE TaskMoves(s)
  BY Zenon, <1>0, <1>28 DEF TaskMoves, TaskStates, CallersAnswered, ReadIngress, Goto,
                     beatVars, loopVars, writerVars
<1>29. ASSUME NEW s \in Ids, Idle(s) PROVE TaskMoves(s)
  BY <1>0, <1>29 DEF TaskMoves, TaskStates, CallersAnswered, Idle, Goto, beatVars,
                     loopVars, writerVars
<1> QED
  BY ZenonT(40), <1>2, <1>3, <1>4, <1>5, <1>6, <1>7, <1>8, <1>9, <1>10, <1>11, <1>12, <1>13, <1>14,
     <1>15, <1>16, <1>17, <1>18, <1>19, <1>20, <1>21, <1>22, <1>23, <1>24, <1>25, <1>26,
     <1>27, <1>28, <1>29
     DEF Next, ReceiveFrame, TaskStep, Receive, LoopStep, WriterStep

-----------------------------------------------------------------------------
(* The inductive invariant.                                                *)

LEMMA FreshStep ==
    ASSUME IInv, [Next]_vars
    PROVE  FreshInv'
<1>0. FreshInv /\ nextId \in 0 .. LastId /\ task \in [Ids -> TaskStates]
  BY DEF IInv, TypeOK
<1>1. CASE Open
  <2>1. /\ nextId \in 1 .. LastId /\ loop = "run" /\ loop' = loop
        /\ nextId' = (nextId + 1) % (LastId + 1)
        /\ task' = [task EXCEPT ![nextId] = "opening"]
    BY <1>0, <1>1, LastIdAssumption DEF Open
  <2>2. nextId' # 0 => nextId' = nextId + 1
    <3>1. CASE nextId = LastId
      BY <2>1, <3>1, LastIdAssumption
    <3>2. CASE nextId < LastId
      BY <2>1, <3>2, LastIdAssumption
    <3> QED BY <2>1, <3>1, <3>2, LastIdAssumption
  <2> QED BY <1>0, <2>1, <2>2, LastIdAssumption DEF FreshInv, LoopGone, Ids
<1>2. CASE LoopMoves
  BY <1>0, <1>2 DEF LoopMoves, FreshInv, LoopGone
<1>3. ASSUME NEW s \in Ids, Notify(s) PROVE FreshInv'
  BY <1>0, <1>3 DEF Notify, Goto, FreshInv, LoopGone, loopVars
<1>4. ASSUME NEW s \in Ids, TaskMoves(s) PROVE FreshInv'
  <2>1. \A r \in Ids : task[r] = "none" => task'[r] = "none"
    BY <1>4 DEF TaskMoves
  <2> QED BY <1>0, <1>4, <2>1 DEF TaskMoves, FreshInv, LoopGone
<1> QED BY <1>1, <1>2, <1>3, <1>4, StepShape

\* A queue holds what it held and what was sent; it loses its head only.
LEMMA SentHolds ==
    ASSUME NEW S, NEW q \in Seq(S), NEW x \in S
    PROVE  /\ \E i \in DOMAIN Append(q, x) : Append(q, x)[i] = x
           /\ \A y : (\E i \in DOMAIN q : q[i] = y) =>
                        \E i \in DOMAIN Append(q, x) : Append(q, x)[i] = y
<1>1. /\ Len(q) \in Nat /\ DOMAIN q = 1 .. Len(q)
      /\ DOMAIN Append(q, x) = 1 .. (Len(q) + 1)
      /\ Append(q, x)[Len(q) + 1] = x
      /\ \A i \in 1 .. Len(q) : Append(q, x)[i] = q[i]
  BY AppendProperties, LenProperties
<1>2. \A i \in 1 .. Len(q) : i \in 1 .. (Len(q) + 1)
  BY <1>1
<1>3. Len(q) + 1 \in 1 .. (Len(q) + 1)
  BY <1>1
<1> QED BY <1>1, <1>2, <1>3

LEMMA ReceivedHolds ==
    ASSUME NEW S, NEW q \in Seq(S), q # <<>>
    PROVE  \A y : (\E i \in DOMAIN q : q[i] = y) /\ y # Head(q) =>
                        \E i \in DOMAIN Tail(q) : Tail(q)[i] = y
<1>1. /\ Len(q) \in Nat /\ DOMAIN q = 1 .. Len(q)
      /\ DOMAIN Tail(q) = 1 .. (Len(q) - 1) /\ Head(q) = q[1]
      /\ \A i \in 1 .. (Len(q) - 1) : Tail(q)[i] = q[i + 1]
  BY HeadTailProperties, LenProperties
<1>2. SUFFICES ASSUME NEW y, NEW i \in DOMAIN q, q[i] = y, y # Head(q)
               PROVE  \E j \in DOMAIN Tail(q) : Tail(q)[j] = y
  OBVIOUS
<1>3. i - 1 \in 1 .. (Len(q) - 1) /\ (i - 1) + 1 = i
  BY <1>1, <1>2
<1> QED BY <1>1, <1>2, <1>3

LEMMA SlotsStep ==
    ASSUME IInv, [Next]_vars
    PROVE  SlotsRecoverable'
<1>0. /\ SlotsRecoverable /\ FreshInv /\ events \in Seq(Ids) /\ streams \in SUBSET Ids
      /\ task \in [Ids -> TaskStates] /\ nextId \in 0 .. LastId
  BY DEF IInv, TypeOK
<1>1. CASE Open
  <2>1. /\ nextId \in Ids /\ streams' = streams \cup {nextId} /\ events' = events
        /\ task' = [task EXCEPT ![nextId] = "opening"]
    BY <1>0, <1>1 DEF Open, Ids
  <2> QED BY <1>0, <2>1 DEF SlotsRecoverable, TaskStates
<1>2. CASE LoopMoves
  <2>1. \A s \in streams' : (\E i \in DOMAIN events : events[i] = s) =>
                                \E i \in DOMAIN events' : events'[i] = s
    <3>1. CASE UNCHANGED events
      BY <3>1
    <3>2. CASE /\ events # <<>> /\ events' = Tail(events)
               /\ Head(events) \notin streams'
      <4>1. \A y : (\E i \in DOMAIN events : events[i] = y) /\ y # Head(events) =>
                     \E i \in DOMAIN Tail(events) : Tail(events)[i] = y
        BY ONLY Zenon, <1>0, <3>2, ReceivedHolds
      <4>2. \A y \in streams' : y # Head(events)
        BY <3>2
      <4>3. events' = Tail(events)
        BY <3>2
      <4> QED BY ONLY <4>1, <4>2, <4>3
    <3> QED BY <1>2, <3>1, <3>2 DEF LoopMoves
  <2> QED BY <1>0, <1>2, <2>1 DEF LoopMoves, SlotsRecoverable
<1>3. ASSUME NEW s \in Ids, Notify(s) PROVE SlotsRecoverable'
  <2>1. CASE loop = "returned"
    BY <1>0, <1>3, <2>1 DEF Notify, FreshInv, LoopGone, SlotsRecoverable, loopVars
  <2>2. CASE loop # "returned"
    <3>1. /\ events' = Append(events, s) /\ streams' = streams
          /\ task' = [task EXCEPT ![s] = "done"]
      BY <1>3, <2>2 DEF Notify, Goto, loopVars
    <3>2. /\ \E i \in DOMAIN events' : events'[i] = s
          /\ \A y : (\E i \in DOMAIN events : events[i] = y) =>
                       \E i \in DOMAIN events' : events'[i] = y
      <4>1. /\ \E i \in DOMAIN Append(events, s) : Append(events, s)[i] = s
            /\ \A y : (\E i \in DOMAIN events : events[i] = y) =>
                         \E i \in DOMAIN Append(events, s) : Append(events, s)[i] = y
        BY ONLY SMTT(30), <1>0, s \in Ids, SentHolds
      <4>2. events' = Append(events, s)
        BY <3>1
      <4> QED BY ONLY <4>1, <4>2
    <3>3. \A r \in Ids \ {s} : task'[r] = task[r]
      BY <1>0, <3>1
    <3>4. streams' = streams
      BY <3>1
    <3> QED BY ONLY Zenon, <1>0, <3>2, <3>3, <3>4 DEF SlotsRecoverable
  <2> QED BY <2>1, <2>2
<1>4. ASSUME NEW s \in Ids, TaskMoves(s) PROVE SlotsRecoverable'
  BY <1>0, <1>4 DEF TaskMoves, SlotsRecoverable, TaskStates
<1> QED BY <1>1, <1>2, <1>3, <1>4, StepShape

LEMMA AnsweredStep ==
    ASSUME IInv, [Next]_vars
    PROVE  CallersAnswered'
<1>0. /\ CallersAnswered /\ task \in [Ids -> TaskStates]
      /\ answer \in [Ids -> {"none", "ok", "error"}]
  BY Zenon DEF IInv, TypeOK
<1>1. CASE Open
  BY Zenon, <1>0, <1>1 DEF Open, CallersAnswered
<1>2. CASE LoopMoves
  BY Zenon, <1>0, <1>2 DEF LoopMoves, CallersAnswered
<1>3. ASSUME NEW s \in Ids, Notify(s) PROVE CallersAnswered'
  BY Zenon, <1>0, <1>3 DEF Notify, Goto, CallersAnswered
<1>4. ASSUME NEW s \in Ids, TaskMoves(s) PROVE CallersAnswered'
  BY Zenon, <1>0, <1>4 DEF TaskMoves, CallersAnswered
<1> QED BY <1>1, <1>2, <1>3, <1>4, StepShape

\* A PING stays the only one until its PONG has been read.
LEMMA BeatStep ==
    ASSUME IInv, [Next]_vars
    PROVE  BeatInv'
<1>0. /\ BeatInv /\ control \in Seq(0 .. MaxBeat) /\ DOMAIN control = 1 .. Len(control)
      /\ Len(control) \in Nat /\ beat \in 1 .. MaxBeat
  BY SMTT(30), LenProperties DEF IInv, TypeOK
<1>s. ASSUME NEW x \in 0 .. MaxBeat, ControlSend(x)
      PROVE  /\ DOMAIN control' = 1 .. (Len(control) + 1)
             /\ control'[Len(control) + 1] = x
             /\ \A i \in 1 .. Len(control) : control'[i] = control[i]
  BY SMTT(40), <1>0, <1>s, AppendProperties DEF ControlSend
<1>z. ASSUME ControlSend(0), UNCHANGED <<loop, sending, pending, echo>>
      PROVE  BeatInv'
  <2>1. 0 \in 0 .. MaxBeat
    BY MaxBeatAssumption
  <2>2. \A i \in DOMAIN control' : i \in 1 .. Len(control) \/ i = Len(control) + 1
    BY <1>0, <1>s, <1>z, <2>1
  <2>3. \A i \in DOMAIN control' : control'[i] # 0 =>
           i \in DOMAIN control /\ control'[i] = control[i]
    BY <1>0, <1>s, <1>z, <2>1, <2>2
  <2> QED BY <1>0, <1>z, <2>3 DEF BeatInv
<1>1. CASE UNCHANGED <<loop, sending, pending, echo, control>>
  BY <1>0, <1>1 DEF BeatInv
<1>2. ASSUME NEW s \in Ids, Overflow(s) PROVE BeatInv'
  BY <1>0, <1>2 DEF Overflow, AwaitReset, beatVars, taskVars, writerVars, BeatInv
<1>3. CASE ReceivePong
  BY <1>0, <1>3 DEF ReceivePong, Fail, taskVars, writerVars, BeatInv
<1>4. CASE EndOfSession
  BY <1>0, <1>4 DEF EndOfSession, Break, beatVars, taskVars, writerVars, BeatInv
<1>5. CASE SessionError
  BY <1>0, <1>5 DEF SessionError, Fail, beatVars, taskVars, writerVars, BeatInv
<1>6. CASE BeginDrain
  BY <1>0, <1>6 DEF BeginDrain, Break, beatVars, taskVars, writerVars, BeatInv
<1>7. CASE ReceiveEvent
  BY <1>0, <1>7 DEF ReceiveEvent, Break, beatVars, taskVars, writerVars, BeatInv
<1>8. CASE HeartbeatDue
  BY <1>0, <1>8 DEF HeartbeatDue, beatVars, taskVars, writerVars, BeatInv
<1>9. CASE LoopSends
  <2>1. CASE sending = "ping" /\ loop' = "run"
    <3>1. /\ beat \in 0 .. MaxBeat /\ ControlSend(beat) /\ pending' = beat /\ beat # 0
          /\ echo' = echo /\ sending' = "none" /\ loop = "send"
      BY <1>0, <1>9, <2>1, MaxBeatAssumption DEF LoopSends, Fail
    <3>2. echo = 0 /\ \A i \in 1 .. Len(control) : control[i] = 0
      BY <1>0, <2>1, <3>1 DEF BeatInv
    <3>3. \A i \in DOMAIN control' : i \in 1 .. Len(control) \/ i = Len(control) + 1
      BY <1>0, <1>s, <3>1
    <3>4. \A i \in DOMAIN control' :
             control'[i] \in {0, beat} /\ (control'[i] # 0 => i = Len(control) + 1)
      BY <1>0, <1>s, <3>1, <3>2, <3>3
    <3> QED BY <3>1, <3>2, <3>4 DEF BeatInv
  <2>2. CASE sending # "ping"
    <3>1. /\ ControlSend(0) /\ pending' = pending /\ echo' = echo
          /\ sending' = "none" /\ loop = "send" /\ loop' = "run"
      BY <1>9, <2>2 DEF LoopSends
    <3>2. 0 \in 0 .. MaxBeat
      BY MaxBeatAssumption
    <3>3. \A i \in DOMAIN control' : control'[i] # 0 =>
             i \in DOMAIN control /\ control'[i] = control[i]
      BY <1>0, <1>s, <3>1, <3>2
    <3> QED BY <1>0, <3>1, <3>3 DEF BeatInv
  <2>3. CASE loop' # "run"
    BY <1>9, <2>3 DEF LoopSends, Fail, BeatInv
  <2> QED BY <2>1, <2>2, <2>3
<1>10. CASE LoopSendFails
  BY <1>0, <1>10 DEF LoopSendFails, Fail, beatVars, taskVars, writerVars, BeatInv
<1>11. CASE WriterEnded
  BY <1>0, <1>11 DEF WriterEnded, Fail, beatVars, taskVars, writerVars, BeatInv
<1>12. CASE TeardownDone
  BY <1>0, <1>12 DEF TeardownDone, beatVars, taskVars, writerVars, BeatInv
<1>13. CASE WriterTakes
  <2>1. /\ DOMAIN control' = 1 .. (Len(control) - 1) /\ Head(control) = control[1]
        /\ \A i \in 1 .. (Len(control) - 1) : control'[i] = control[i + 1]
        /\ Len(control) >= 1
    BY <1>0, <1>13, HeadTailProperties, EmptySeq DEF WriterTakes
  <2>2. 1 \in DOMAIN control
    BY <1>0, <2>1
  <2>3. \A i \in DOMAIN control' : /\ i + 1 \in DOMAIN control /\ i + 1 # 1
                                   /\ control'[i] = control[i + 1]
    BY <1>0, <2>1
  <2>4. \A i, j \in DOMAIN control' : i + 1 = j + 1 => i = j
    BY <1>0, <2>1
  <2>5. /\ echo' = IF control[1] = 0 THEN echo ELSE control[1]
        /\ UNCHANGED <<loop, sending, pending>>
    BY <1>13, <2>1 DEF WriterTakes, loopVars
  <2> QED BY <1>0, <2>2, <2>3, <2>4, <2>5 DEF BeatInv
<1>14. CASE WriterFails
  <2>1. DOMAIN control' = {}
    BY <1>14, EmptySeq DEF WriterFails
  <2> QED BY <1>0, <1>14, <2>1 DEF WriterFails, BeatInv, loopVars, beatVars
<1>15. ASSUME NEW s \in Ids, SendOpen(s) PROVE BeatInv'
  BY <1>0, <1>z, <1>15 DEF SendOpen, BeatInv, loopVars, beatVars
<1>16. ASSUME NEW s \in Ids, SendReset(s) PROVE BeatInv'
  BY Zenon, <1>0, <1>z, <1>16 DEF SendReset, BeatInv, loopVars, beatVars
<1>17. ASSUME NEW s \in Ids, NEW k \in AgentSends, Unknown(s, k) PROVE BeatInv'
  BY <1>0, <1>17 DEF Unknown, AwaitReset, beatVars, taskVars, writerVars, BeatInv
<1> QED
  BY Zenon, <1>0, <1>1, <1>2, <1>3, <1>4, <1>5, <1>6, <1>7, <1>8, <1>9, <1>10, <1>11, <1>12, <1>13, <1>14, <1>15, <1>16, <1>17
     DEF Next, vars, ReceiveFrame, TaskStep, Receive, LoopStep, WriterStep, beatVars,
         loopVars, taskVars, writerVars, Open, WriterFinishes, OpenTimeout, WriteDone,
         DataSent, Graceful, Notify, FirstFrame, InboundClosed, RelayFrame, ReadIngress,
         Idle, Dispatch

-----------------------------------------------------------------------------
(* The theorems.                                                           *)

LEMMA InitInv == Init => IInv
<1> SUFFICES ASSUME Init PROVE IInv
  OBVIOUS
<1>1. /\ 1 \in 0 .. LastId /\ 0 \in 0 .. MaxBeat /\ 1 \in 1 .. MaxBeat
  BY LastIdAssumption, MaxBeatAssumption
<1>2. /\ Cardinality({}) <= MaxStreams
      /\ Len(<<>>) <= MaxStreams /\ Len(<<>>) <= ControlCapacity
      /\ Len(<<>>) <= InboundCapacity
  BY FS_EmptySet, EmptySeq, MaxStreamsAssumption, ControlCapacityAssumption,
     InboundCapacityAssumption
<1>3. <<>> \in Seq(Ids) /\ <<>> \in Seq(0 .. MaxBeat) /\ <<>> \in Seq(FrameKinds)
  BY EmptySeq
<1>4. TypeOK
  BY Zenon, <1>1, <1>2, <1>3 DEF Init, TypeOK, TaskStates
<1>5. FreshInv /\ SlotsRecoverable /\ CallersAnswered
  BY DEF Init, FreshInv, LoopGone, SlotsRecoverable, CallersAnswered
<1>6. BeatInv
  <2>1. DOMAIN control = {}
    BY EmptySeq DEF Init
  <2> QED BY <2>1 DEF Init, BeatInv
<1> QED BY <1>4, <1>5, <1>6 DEF IInv

\* The inductive invariant: bounded channels, unused fresh ids, recoverable
\* slots, answered callers, one PING at a time.
THEOREM SessionInductive == Spec => []IInv
<1>1. ASSUME IInv, [Next]_vars PROVE IInv'
  BY <1>1, TypeStep, FreshStep, SlotsStep, AnsweredStep, BeatStep DEF IInv
<1> QED BY <1>1, InitInv, PTL DEF Spec

\* Every channel and the stream table of run_edge_session stay within their
\* capacities.
THEOREM TypeCorrect == Spec => []TypeOK
<1>1. IInv => TypeOK
  BY DEF IInv
<1> QED BY <1>1, SessionInductive, PTL

\* No slot of the stream table is lost: a mapped stream has a running task or
\* an unread Closed event.
THEOREM SlotsSafe == Spec => []SlotsRecoverable
<1>1. IInv => SlotsRecoverable
  BY DEF IInv
<1> QED BY <1>1, SessionInductive, PTL

\* No stream task relays for, or leaves behind, a caller without an answer.
THEOREM AnswersSafe == Spec => []CallersAnswered
<1>1. IInv => CallersAnswered
  BY DEF IInv
<1> QED BY <1>1, SessionInductive, PTL

\* The PONG of an Agent that echoes what it is sent is the one the loop of
\* run_edge_session waits for.
THEOREM PongSafe == Spec => []PongExpected
<1>1. IInv => PongExpected
  BY DEF IInv, BeatInv, PongExpected
<1> QED BY <1>1, SessionInductive, PTL

\* A stream id names one stream only, and the answer its caller got stands.
THEOREM IdsFresh == Spec => IdsNeverReused
<1> DEFINE Kept == \A s \in Ids : task[s] = "done" =>
                        task'[s] = "done" /\ answer'[s] = answer[s]
<1>1. ASSUME IInv, [Next]_vars PROVE [Kept]_vars
  <2>0. /\ task \in [Ids -> TaskStates] /\ answer \in [Ids -> {"none", "ok", "error"}]
        /\ nextId \in 0 .. LastId /\ FreshInv
    BY <1>1 DEF IInv, TypeOK
  <2>1. CASE Open
    <3>1. nextId \in Ids /\ task[nextId] = "none"
      BY <2>0, <2>1, LastIdAssumption DEF Open, FreshInv, Ids
    <3> QED BY <2>0, <2>1, <3>1 DEF Open
  <2>2. CASE LoopMoves
    BY <2>0, <2>2 DEF LoopMoves
  <2>3. ASSUME NEW s \in Ids, Notify(s) PROVE Kept
    BY Zenon, <2>0, <2>3 DEF Notify, Goto
  <2>4. ASSUME NEW s \in Ids, TaskMoves(s) PROVE Kept
    BY <2>0, <2>4 DEF TaskMoves
  <2> QED BY Zenon, <1>1, <2>1, <2>2, <2>3, <2>4, StepShape
<1>2. Spec => [][Kept]_vars
  BY <1>1, SessionInductive, PTL DEF Spec
<1> QED BY <1>2 DEF IdsNeverReused

\* For any number of streams and any channel capacities a session loses no slot
\* of its table, no caller of open_stream and no heartbeat.
THEOREM SessionSoundProved == Spec => []SessionSound
<1>1. SlotsRecoverable /\ CallersAnswered /\ PongExpected => SessionSound
  BY DEF SessionSound
<1> QED BY <1>1, SlotsSafe, AnswersSafe, PongSafe, PTL

-----------------------------------------------------------------------------
(* The link between one Agent and the Edge (AgentLink).                    *)

Reply ==
  [kind : {"REGISTERED"}, sid : Nat] \cup [kind : {"ERROR"}, code : {"unauthorized", "already"}]

LinkType ==
  /\ agent \in {"backoff", "hello", "register", "await", "session", "exited"}
  /\ held \in Links \cup {NoConn} /\ told \in Nat
  /\ up \in [Links -> Seq({"HELLO", "REGISTER"})] /\ down \in [Links -> Seq(Reply)]
  /\ ends \in [Links -> SUBSET {"agent", "edge"}] /\ cut \subseteq Links
  /\ edge \in [Links -> {"none", "backlog", "hello", "register", "reply", "publish", "session",
                         "closing"}]
  /\ sid \in [Links -> Nat] /\ claim \in Links \cup {NoConn} /\ nextSid \in Nat
  /\ granted \in BOOLEAN

\* Each end of a connection is open exactly while its owner works with it.
EndsInv ==
  /\ held = NoConn <=> agent \in {"backoff", "exited"}
  /\ \A c \in Links : /\ "agent" \in ends[c] <=> held = c
                      /\ "edge" \in ends[c] <=> edge[c] \notin {"none", "closing"}

\* The tunnel belongs to the one task that claimed it.
LinkClaimInv == \A c \in Links : edge[c] \in {"reply", "publish", "session", "closing"} => claim = c

\* A reply that is true of its connection.
Fits(c, r) ==
  /\ r.kind = "REGISTERED" /\ "edge" \in ends[c] =>
       edge[c] \in {"publish", "session"} /\ r.sid = sid[c]
  /\ r.kind = "ERROR" /\ r.code = "unauthorized" => ~granted

\* What is on its way to the Agent: on a connection whose Edge end is open a
\* REGISTERED names the session of this connection, and an Agent is called
\* unauthorized only when it is.
ReplyInv == \A c \in Links : \A i \in 1 .. Len(down[c]) : Fits(c, down[c][i])

\* What the Agent was told.
ToldInv ==
  /\ agent = "session" /\ "edge" \in ends[held] =>
       edge[held] \in {"publish", "session"} /\ sid[held] = told
  /\ agent = "exited" => ~granted

LinkInv == LinkType /\ EndsInv /\ LinkClaimInv /\ ReplyInv /\ ToldInv

LEMMA LinkInit_LinkInv == ASSUME NoConn \notin Links PROVE LinkInit => LinkInv
BY DEF LinkInit, LinkInv, LinkType, EndsInv, LinkClaimInv, ReplyInv, ToldInv

\* The replies on their way stay true when what they speak of does.
LEMMA RepliesStay ==
  ASSUME ReplyInv, UNCHANGED down, \A d \in Links : \A r : Fits(d, r) => Fits(d, r)'
  PROVE  ReplyInv'
BY Zenon DEF ReplyInv

LEMMA ReplySent ==
  ASSUME LinkType, ReplyInv, NEW c \in Links, NEW f \in Reply, SendDown(c, f), Fits(c, f)',
         \A d \in Links : \A r : Fits(d, r) => Fits(d, r)'
  PROVE  ReplyInv'
<1> SUFFICES ASSUME NEW d \in Links, NEW i \in 1 .. Len(down'[d]), NEW r, r = down'[d][i]
             PROVE  Fits(d, r)'
  BY Zenon DEF ReplyInv
<1>1. down[c] \in Seq(Reply) BY Zenon DEF LinkType
<1>2. CASE down'[d] = down[d] BY Zenon, <1>2 DEF ReplyInv
<1>3. CASE d = c /\ down'[d] = Append(down[c], f)
  <2> DEFINE q == down[c]
  <2>0. /\ Len(down'[d]) = Len(q) + 1 /\ Len(q) \in Nat
        /\ \A k \in 1 .. Len(q) : down'[d][k] = q[k]
        /\ down'[d][Len(q) + 1] = f
    <3>1. q \in Seq(Reply) /\ f \in Reply BY Zenon, <1>1
    <3> HIDE DEF q
    <3>2. /\ Len(Append(q, f)) = Len(q) + 1 /\ Len(q) \in Nat
          /\ \A k \in 1 .. Len(q) : Append(q, f)[k] = q[k]
          /\ Append(q, f)[Len(q) + 1] = f
      BY ONLY SMTT(30), <3>1, AppendProperties, LenProperties
    <3>3. down'[d] = Append(q, f) BY <1>3 DEF q
    <3> QED BY Zenon, <3>2, <3>3
  <2>1. i \in 1 .. Len(q) \/ i = Len(q) + 1
    BY ONLY <2>0, i \in 1 .. Len(down'[d])
  <2>2. CASE i \in 1 .. Len(q)
    <3>1. Fits(c, q[i]) BY Zenon, <2>2 DEF ReplyInv
    <3> QED BY Zenon, <1>3, <2>0, <2>2, <3>1
  <2>3. CASE i = Len(q) + 1 BY Zenon, <1>3, <2>0, <2>3
  <2> QED BY Zenon, <2>1, <2>2, <2>3
<1> QED BY Zenon, <1>2, <1>3 DEF SendDown, LinkType

\* An Agent that drops its connection: nothing it held is left behind.
LEMMA DropKeeps ==
  ASSUME LinkInv, NoConn \notin Links, NEW c \in Links, held = c, NEW e, Drop(c, e),
         e = "unauthorized" => ~granted, e # "unexpected",
         UNCHANGED <<up, cut, edgeVars, granted>>
  PROVE  LinkInv'
<1> USE DEF LinkInv
<1>1. LinkType' BY DEF LinkType, Drop, Retryable, edgeVars
<1>2. EndsInv' BY Zenon DEF LinkType, EndsInv, Drop, Retryable, edgeVars
<1>3. LinkClaimInv' BY Zenon DEF LinkClaimInv, edgeVars
<1>4. ReplyInv' BY SMTT(30) DEF LinkType, ReplyInv, Fits, Drop, edgeVars
<1>5. ToldInv' BY DEF LinkType, ToldInv, Drop, Retryable, edgeVars
<1> QED BY Zenon, <1>1, <1>2, <1>3, <1>4, <1>5

\* A task of the Edge that ends, with or without a last word.
LEMMA FinishKeeps ==
  ASSUME LinkInv, NoConn \notin Links, NEW c \in Links, Finish(c),
         UNCHANGED <<agentVars, down, cut, granted>>
  PROVE  LinkInv'
<1> USE DEF LinkInv, agentVars
<1>1. LinkType' BY SMTT(30) DEF LinkType, Finish
<1>2. EndsInv' BY DEF LinkType, EndsInv, Finish
<1>3. LinkClaimInv' BY Zenon DEF LinkType, LinkClaimInv, Finish
<1>4. ReplyInv'
  <2>1. \A d \in Links : \A r : Fits(d, r) => Fits(d, r)' BY Zenon DEF LinkType, Fits, Finish
  <2> QED BY Zenon, <2>1, RepliesStay
<1>5. ToldInv' BY DEF LinkType, EndsInv, ToldInv, Finish
<1> QED BY Zenon, <1>1, <1>2, <1>3, <1>4, <1>5

LEMMA EndSessionKeeps ==
  ASSUME LinkInv, NoConn \notin Links, NEW c \in Links, EndSession(c)
  PROVE  LinkInv'
<1> USE DEF LinkInv, agentVars
<1>1. LinkType' BY SMTT(30) DEF LinkType, EndSession
<1>2. EndsInv' BY Zenon DEF LinkType, EndsInv, EndSession
<1>3. LinkClaimInv' BY Zenon DEF LinkType, LinkClaimInv, EndSession
<1>4. ReplyInv'
  <2>1. \A d \in Links : \A r : Fits(d, r) => Fits(d, r)' BY DEF LinkType, Fits, EndSession
  <2> QED BY Zenon, <2>1, RepliesStay DEF EndSession
<1>5. ToldInv' BY SMTT(30) DEF LinkType, EndsInv, ToldInv, EndSession
<1> QED BY Zenon, <1>1, <1>2, <1>3, <1>4, <1>5

LEMMA LinkNext_LinkInv ==
  ASSUME LinkInv, NoConn \notin Links, [LinkNext]_linkVars
  PROVE  LinkInv'
<1> USE DEF LinkInv
<1>1. CASE UNCHANGED linkVars
  <2> USE <1>1 DEF linkVars, edgeVars, agentVars, wireVars
  <2>1. LinkType' BY Zenon DEF LinkType
  <2>2. EndsInv' BY Zenon DEF EndsInv
  <2>3. LinkClaimInv' BY Zenon DEF LinkClaimInv
  <2>4. ReplyInv' BY Zenon DEF ReplyInv, Fits
  <2>5. ToldInv' BY Zenon DEF ToldInv
  <2> QED BY <2>1, <2>2, <2>3, <2>4, <2>5
<1>2. CASE Revoke
  BY Zenon, <1>2 DEF Revoke, agentVars, wireVars, edgeVars, LinkType, EndsInv, LinkClaimInv,
                   ReplyInv, Fits, ToldInv
<1>3. ASSUME NEW c \in Links, Cut(c) PROVE LinkInv'
  <2> USE <1>3 DEF Cut, agentVars, edgeVars
  <2>1. LinkType' BY SMTT(30) DEF LinkType
  <2>2. ReplyInv' BY SMTT(30) DEF LinkType, ReplyInv, Fits
  <2>3. EndsInv' /\ LinkClaimInv' /\ ToldInv' BY Zenon DEF LinkType, EndsInv, LinkClaimInv, ToldInv
  <2> QED BY Zenon, <2>1, <2>2, <2>3
<1>4. ASSUME NEW c \in Links, Connect(c) PROVE LinkInv'
  <2> USE <1>4 DEF Connect
  <2>1. LinkType' BY DEF LinkType
  <2>2. EndsInv' BY Zenon DEF LinkType, EndsInv
  <2>3. ReplyInv' BY SMTT(30) DEF LinkType, ReplyInv, Fits
  <2>4. LinkClaimInv' /\ ToldInv' BY DEF LinkType, LinkClaimInv, ToldInv
  <2> QED BY Zenon, <2>1, <2>2, <2>3, <2>4
<1>5. ASSUME NEW c \in Links, SendHello(c) \/ SendRegister(c) PROVE LinkInv'
  <2>1. /\ agent' \in {"register", "await"} /\ agent \in {"hello", "register"}
        /\ UNCHANGED <<held, told, down, ends, cut, edge, sid, claim, nextSid, granted>>
    BY <1>5 DEF SendHello, SendRegister, edgeVars
  <2>2. PICK f \in {"HELLO", "REGISTER"} : SendUp(c, f)
    BY Zenon, <1>5 DEF SendHello, SendRegister
  <2>3. Append(up[c], f) \in Seq({"HELLO", "REGISTER"}) BY AppendProperties DEF LinkType
  <2>4. LinkType' BY Zenon, <2>1, <2>2, <2>3 DEF LinkType, SendUp
  <2>5. EndsInv' /\ LinkClaimInv' /\ ReplyInv' /\ ToldInv'
    BY Zenon, <2>1 DEF EndsInv, LinkClaimInv, ReplyInv, Fits, ToldInv
  <2> QED BY <2>4, <2>5
<1>6. ASSUME NEW c \in Links, AwaitRegistered(c) PROVE LinkInv'
  <2> DEFINE f == Head(down[c])
  <2>0. f = down[c][1] /\ f \in Reply /\ 1 \in 1 .. Len(down[c]) /\ held = c
    BY <1>6 DEF AwaitRegistered, LinkType
  <2>1. CASE f.kind = "REGISTERED"
    <3> DEFINE rest == Tail(down[c])
    <3>1. /\ agent = "await" /\ agent' = "session" /\ told' = f.sid /\ f.sid \in Nat
          /\ down' = [down EXCEPT ![c] = rest]
          /\ UNCHANGED <<held, up, ends, cut, edge, sid, claim, nextSid, granted>>
      BY Zenon, <1>6, <2>0, <2>1 DEF AwaitRegistered, edgeVars, Reply
    <3>2. /\ rest \in Seq(Reply) /\ Len(rest) = Len(down[c]) - 1
          /\ \A i \in 1 .. Len(rest) : rest[i] = down[c][i + 1]
      BY <1>6, HeadTailProperties DEF AwaitRegistered, LinkType
    <3>3. Len(down[c]) \in Nat /\ Len(rest) \in Nat
      BY Zenon, <3>2, LenProperties DEF LinkType
    <3> HIDE DEF f, rest
    <3>4. LinkType' BY Zenon, <3>1, <3>2 DEF LinkType
    <3>5. EndsInv' /\ LinkClaimInv' BY Zenon, <3>1 DEF EndsInv, LinkClaimInv
    <3>6. ReplyInv'
      <4>1. ASSUME NEW d \in Links, NEW i \in 1 .. Len(down'[d])
            PROVE  \E j \in 1 .. Len(down[d]) : down'[d][i] = down[d][j]
        <5>1. CASE d = c
          <6>1. down'[d] = rest BY Zenon, <3>1, <5>1 DEF LinkType
          <6>2. i + 1 \in 1 .. Len(down[d]) /\ down'[d][i] = down[d][i + 1]
            BY SMTT(30), <3>2, <3>3, <5>1, <6>1
          <6> QED BY Zenon, <6>2
        <5>2. CASE d # c BY SMTT(30), <3>1, <5>2 DEF LinkType
        <5> QED BY <5>1, <5>2
      <4> SUFFICES ASSUME NEW d \in Links, NEW i \in 1 .. Len(down'[d]), NEW r, r = down'[d][i]
                   PROVE  Fits(d, r)'
        BY Zenon DEF ReplyInv
      <4>2. PICK j \in 1 .. Len(down[d]) : down'[d][i] = down[d][j] BY Zenon, <4>1
      <4>3. Fits(d, down[d][j]) BY Zenon DEF ReplyInv
      <4>4. Fits(d, r) BY Zenon, <4>2, <4>3
      <4> QED BY Zenon, <3>1, <4>4 DEF Fits
    <3>7. ToldInv' BY Zenon, <2>0, <2>1, <3>1 DEF ReplyInv, Fits, ToldInv
    <3> QED BY SMTT(30), <3>4, <3>5, <3>6, <3>7
  <2>2. CASE f.kind # "REGISTERED"
    <3>1. f.kind = "ERROR" /\ f.code \in {"unauthorized", "already"} BY <2>0, <2>2 DEF Reply
    <3>2. f.code = "unauthorized" => ~granted BY Zenon, <2>0, <3>1 DEF ReplyInv, Fits
    <3>3. Drop(c, f.code) /\ UNCHANGED <<up, cut, edgeVars, granted>>
      BY Zenon, <1>6, <2>2, <3>1 DEF AwaitRegistered
    <3> QED BY Zenon, <2>0, <3>1, <3>2, <3>3, DropKeeps
  <2> QED BY Zenon, <2>1, <2>2
<1>7. ASSUME NEW c \in Links, AgentClosed(c) PROVE LinkInv'
  BY Zenon, <1>7, DropKeeps DEF AgentClosed
<1>8. ASSUME NEW c \in Links, AgentNoticesCut(c) PROVE LinkInv'
  BY <1>8, DropKeeps DEF AgentNoticesCut
<1>9. ASSUME NEW c \in Links, AgentTimesOut(c) PROVE LinkInv'
  BY <1>9, DropKeeps DEF AgentTimesOut
<1>10. ASSUME NEW c \in Links, Unregister(c) \/ EdgeTimesOut(c) PROVE LinkInv'
  BY <1>10, FinishKeeps DEF Unregister, EdgeTimesOut
<1>11. ASSUME NEW c \in Links, AcceptLink(c) PROVE LinkInv'
  <2>1. CASE Cardinality(Working) < MaxLinks
    <3>1. /\ edge[c] = "backlog" /\ edge' = [edge EXCEPT ![c] = "hello"]
          /\ UNCHANGED <<agent, held, told, up, down, ends, cut, sid, claim, nextSid, granted>>
      BY Zenon, <1>11, <2>1 DEF AcceptLink, agentVars
    <3>2. LinkType' BY Zenon, <3>1 DEF LinkType
    <3>3. EndsInv' /\ LinkClaimInv' BY Zenon, <3>1 DEF LinkType, EndsInv, LinkClaimInv
    <3>4. ReplyInv'
      <4>1. \A d \in Links : \A r : Fits(d, r) => Fits(d, r)' BY Zenon, <3>1 DEF LinkType, Fits
      <4> QED BY Zenon, <3>1, <4>1, RepliesStay
    <3>5. ToldInv' BY <3>1 DEF LinkType, EndsInv, ToldInv
    <3> QED BY <3>2, <3>3, <3>4, <3>5
  <2>2. CASE ~(Cardinality(Working) < MaxLinks)
    BY <1>11, <2>2, FinishKeeps DEF AcceptLink
  <2> QED BY Zenon, <2>1, <2>2
<1>12. ASSUME NEW c \in Links, AwaitHello(c) PROVE LinkInv'
  <2> USE <1>12 DEF AwaitHello, agentVars
  <2>1. LinkType' BY SMTT(30) DEF LinkType
  <2>2. EndsInv' BY DEF LinkType, EndsInv
  <2>3. LinkClaimInv' BY DEF LinkType, LinkClaimInv
  <2>4. ReplyInv'
    <3>1. \A d \in Links : \A r : Fits(d, r) => Fits(d, r)' BY DEF LinkType, Fits
    <3> QED BY Zenon, <3>1, RepliesStay
  <2>5. ToldInv' BY DEF LinkType, EndsInv, ToldInv
  <2> QED BY Zenon, <2>1, <2>2, <2>3, <2>4, <2>5
<1>13. ASSUME NEW c \in Links, AwaitRegister(c) PROVE LinkInv'
  <2>1. ASSUME NEW code, Reject(c, code), code \in {"unauthorized", "already"},
               code = "unauthorized" => ~granted, UNCHANGED <<agentVars, cut, granted>>
        PROVE  LinkInv'
    <3> USE <2>1 DEF Reject, SendDown, Finish, agentVars
    <3>1. LinkType' BY SMTT(30) DEF LinkType, Reply
    <3>2. EndsInv' BY SMTT(30) DEF LinkType, EndsInv
    <3>3. LinkClaimInv' BY Zenon DEF LinkType, LinkClaimInv
    <3>4. ReplyInv'
      <4> DEFINE f == [kind |-> "ERROR", code |-> code]
      <4>1. f \in Reply /\ SendDown(c, f) BY Zenon DEF Reply
      <4>2. Fits(c, f)' BY Zenon DEF Fits
      <4>3. \A d \in Links : \A r : Fits(d, r) => Fits(d, r)' BY Zenon DEF LinkType, Fits
      <4> QED BY Zenon, <4>1, <4>2, <4>3, ReplySent
    <3>5. ToldInv' BY DEF LinkType, EndsInv, ToldInv
    <3> QED BY Zenon, <3>1, <3>2, <3>3, <3>4, <3>5
  <2>2. CASE ~granted BY Zenon, <1>13, <2>1, <2>2 DEF AwaitRegister
  <2>3. CASE granted /\ claim # NoConn BY Zenon, <1>13, <2>1, <2>3 DEF AwaitRegister
  <2>4. CASE granted /\ claim = NoConn
    <3>1. /\ edge[c] = "register" /\ edge' = [edge EXCEPT ![c] = "reply"] /\ up[c] # <<>>
          /\ claim = NoConn /\ claim' = c /\ up' = [up EXCEPT ![c] = Tail(@)]
          /\ sid' = [sid EXCEPT ![c] = nextSid] /\ nextSid' = nextSid + 1
          /\ UNCHANGED <<agent, held, told, down, ends, cut, granted>>
      BY Zenon, <1>13, <2>4 DEF AwaitRegister, agentVars
    <3>2. Tail(up[c]) \in Seq({"HELLO", "REGISTER"}) BY Zenon, <3>1, HeadTailProperties DEF LinkType
    <3>3. LinkType' BY SMTT(30), <3>1, <3>2 DEF LinkType
    <3>4. EndsInv' BY Zenon, <3>1 DEF LinkType, EndsInv
    <3>5. LinkClaimInv' BY SMTT(30), <3>1 DEF LinkType, LinkClaimInv
    <3>6. ReplyInv'
      <4>1. \A d \in Links : \A r : Fits(d, r) => Fits(d, r)' BY Zenon, <3>1 DEF LinkType, Fits
      <4> QED BY Zenon, <3>1, <4>1, RepliesStay
    <3>7. ToldInv' BY <3>1 DEF LinkType, EndsInv, ToldInv
    <3> QED BY SMTT(30), <3>3, <3>4, <3>5, <3>6, <3>7
  <2> QED BY Zenon, <2>2, <2>3, <2>4 DEF LinkType
<1>14. ASSUME NEW c \in Links, AnswerRegistered(c) PROVE LinkInv'
  <2> USE <1>14 DEF AnswerRegistered, SendDown, agentVars
  <2>1. LinkType' BY SMTT(30) DEF LinkType, Reply
  <2>2. EndsInv' /\ LinkClaimInv' BY Zenon DEF LinkType, EndsInv, LinkClaimInv
  <2>3. ReplyInv'
    <3> DEFINE f == [kind |-> "REGISTERED", sid |-> sid[c]]
    <3>1. f \in Reply /\ SendDown(c, f) BY Zenon DEF Reply, LinkType
    <3>2. Fits(c, f)' BY Zenon DEF Fits, LinkType
    <3>3. \A d \in Links : \A r : Fits(d, r) => Fits(d, r)' BY DEF LinkType, Fits
    <3> QED BY Zenon, <3>1, <3>2, <3>3, ReplySent
  <2>4. ToldInv' BY Zenon DEF LinkType, EndsInv, ToldInv
  <2> QED BY Zenon, <2>1, <2>2, <2>3, <2>4
<1>15. ASSUME NEW c \in Links, PublishLink(c) PROVE LinkInv'
  <2>1. CASE granted
    <3>1. /\ edge[c] = "publish" /\ edge' = [edge EXCEPT ![c] = "session"]
          /\ UNCHANGED <<agent, held, told, up, down, ends, cut, sid, claim, nextSid, granted>>
      BY Zenon, <1>15, <2>1 DEF PublishLink, agentVars
    <3>2. LinkType' BY Zenon, <3>1 DEF LinkType
    <3>3. EndsInv' /\ LinkClaimInv' BY Zenon, <3>1 DEF LinkType, EndsInv, LinkClaimInv
    <3>4. \A d \in Links : edge[d] \in {"publish", "session"} => edge'[d] \in {"publish", "session"}
      BY SMTT(30), <3>1 DEF LinkType
    <3>5. ReplyInv'
      <4>1. \A d \in Links : \A r : Fits(d, r) => Fits(d, r)' BY Zenon, <3>1, <3>4 DEF Fits
      <4> QED BY Zenon, <3>1, <4>1, RepliesStay
    <3>6. ToldInv' BY Zenon, <3>1, <3>4 DEF LinkType, EndsInv, ToldInv
    <3> QED BY <3>2, <3>3, <3>5, <3>6
  <2>2. CASE ~granted BY Zenon, <1>15, <2>2, FinishKeeps DEF PublishLink
  <2> QED BY Zenon, <2>1, <2>2
<1>16. ASSUME NEW c \in Links, EdgeClosed(c) PROVE LinkInv'
  BY Zenon, <1>16, FinishKeeps, EndSessionKeeps DEF EdgeClosed
<1>17. ASSUME NEW c \in Links, PongTimeout(c) \/ RevokeSession(c) PROVE LinkInv'
  BY <1>17, EndSessionKeeps DEF PongTimeout, RevokeSession
<1> QED
  BY Zenon, <1>1, <1>2, <1>3, <1>4, <1>5, <1>6, <1>7, <1>8, <1>9, <1>10, <1>11, <1>12, <1>13, <1>14,
     <1>15, <1>16, <1>17 DEF LinkNext, AgentStep, EdgeStep

\* The two ends of a link agree, for any number of connections, sessions and
\* mishaps: an Agent in a session was told the id allocated for its own
\* connection, one connection at a time holds the tunnel, and an Agent gives
\* up only when it is not authorized (perform_handshake,
\* perform_authorized_handshake, run_accepted_session).
THEOREM LinkAgreesProved ==
  ASSUME NoConn \notin Links
  PROVE  LinkSpec => []LinkAgrees
<1>1. LinkInit => LinkInv BY LinkInit_LinkInv
<1>2. LinkInv /\ [LinkNext]_linkVars => LinkInv' BY Zenon, LinkNext_LinkInv
<1>3. LinkInv => LinkAgrees
  BY DEF LinkInv, LinkType, EndsInv, LinkClaimInv, ToldInv, LinkAgrees
<1> QED BY <1>1, <1>2, <1>3, PTL DEF LinkSpec
=============================================================================
