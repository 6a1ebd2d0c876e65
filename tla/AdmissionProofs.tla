--------------------------- MODULE AdmissionProofs ---------------------------
(***************************************************************************)
(* Proofs about what is let in, for every value of the constants: the      *)
(* streams of the Agent's session (AgentSession) and the requests of the   *)
(* HTTPS ingress (HttpRateLimit).                                          *)
(***************************************************************************)
EXTENDS AgentSession, HttpRateLimit, FiniteSetTheorems, TLAPS

-----------------------------------------------------------------------------
(* Facts about sequences.                                                  *)

LEMMA LenProperties ==
  ASSUME NEW S, NEW q \in Seq(S)
  PROVE  Len(q) \in Nat /\ DOMAIN q = 1 .. Len(q) /\ q \in [1 .. Len(q) -> S]
  OBVIOUS

LEMMA ElementOfSeq ==
  ASSUME NEW S, NEW q \in Seq(S), NEW i \in 1 .. Len(q) PROVE q[i] \in S
  OBVIOUS

LEMMA EmptySeq ==
  ASSUME NEW S
  PROVE  <<>> \in Seq(S) /\ Len(<<>>) = 0 /\ \A q \in Seq(S) : q # <<>> => Len(q) \in Nat \ {0}
  OBVIOUS

LEMMA FunctionIsSeq ==
  ASSUME NEW S, NEW n \in Nat, NEW f \in [1 .. n -> S] PROVE f \in Seq(S) /\ Len(f) = n
  OBVIOUS

LEMMA HeadTailProperties ==
  ASSUME NEW S, NEW q \in Seq(S), q # <<>>
  PROVE  /\ Head(q) \in S /\ Tail(q) \in Seq(S) /\ Len(Tail(q)) = Len(q) - 1
         /\ \A i \in 1 .. Len(Tail(q)) : Tail(q)[i] = q[i + 1]
  OBVIOUS

LEMMA AppendProperties ==
  ASSUME NEW S, NEW q \in Seq(S), NEW x \in S
  PROVE  /\ Append(q, x) \in Seq(S) /\ Append(q, x) # <<>> /\ Len(Append(q, x)) = Len(q) + 1
         /\ \A i \in 1 .. Len(q) : Append(q, x)[i] = q[i]
         /\ Append(q, x)[Len(q) + 1] = x
  OBVIOUS

LEMMA ConcatProperties ==
  ASSUME NEW S, NEW q \in Seq(S), NEW r \in Seq(S)
  PROVE  /\ q \o r \in Seq(S) /\ Len(q \o r) = Len(q) + Len(r)
         /\ \A i \in 1 .. Len(q) + Len(r) :
               (q \o r)[i] = IF i <= Len(q) THEN q[i] ELSE r[i - Len(q)]
  OBVIOUS

(***************************************************************************)
(* 1. The Agent's session.                                                 *)
(***************************************************************************)
BridgeStates == {"none", "connecting", "acking", "relay", "writing", "sending", "reset", "notify",
                 "done"}

SessionType ==
  /\ loop \in {"run", "send", "join", "flush", "returned"} /\ answering \in Ids \cup {0}
  /\ streams \subseteq Ids /\ settled \subseteq Ids
  /\ writer \in {"up", "finished", "failed"} /\ control \in Nat /\ events \in Seq(Ids)
  /\ bridge \in [Ids -> BridgeStates] /\ inbound \in [Ids -> Seq(FrameKinds)]
  /\ ended \in [Ids -> SUBSET Both]

\* A loop that is over maps nothing.
OverInv == loop \notin {"run", "send"} => streams = {}

\* A mapped stream has a task or a Closed event to come, and an event means
\* that the task is over.
MappedInv ==
  /\ \A i \in 1 .. Len(events) : bridge[events[i]] = "done"
  /\ \A s \in streams : s \in RunningBridges \/ \E i \in 1 .. Len(events) : events[i] = s

\* A stream that was never opened was sent nothing, and one that was sent a
\* reset owes nothing more.
InboundInv ==
  \A s \in Ids : /\ bridge[s] = "none" => inbound[s] = <<>>
                 /\ \A i \in 1 .. Len(inbound[s]) : inbound[s][i] = "reset" => s \in settled

\* The Edge has heard of the stream's end, or the loop is about to tell it.
Heard(s) == s \in settled \/ (loop = "send" /\ answering = s)

\* A task that ends, and one that the loop no longer maps, has been heard of.
HeardInv ==
  loop \in {"run", "send"} /\ writer = "up" =>
    \A s \in Ids : bridge[s] # "none" /\ (s \notin streams \/ bridge[s] \in {"notify", "done"})
                     => Heard(s)

SessionInv == SessionType /\ OverInv /\ MappedInv /\ InboundInv /\ HeardInv

\* No channel of the session ever holds more than its capacity, and the map no
\* more streams than the session allows (mpsc::channel, max_concurrent_streams).
SessionBounds ==
  /\ control <= ControlCapacity /\ Len(events) <= MaxStreams
  /\ \A s \in Ids : Len(inbound[s]) <= InboundCapacity
  /\ IsFiniteSet(streams) /\ Cardinality(streams) <= MaxStreams

LEMMA SessionInit_SessionInv == SessionInit => SessionInv
BY DEF SessionInit, SessionInv, SessionType, BridgeStates, OverInv, MappedInv, InboundInv, HeardInv,
       RunningBridges

\* A step of the loop that leaves the tasks and their channels alone: it may
\* drop streams from the map that the Edge has heard of, and forgets nothing
\* that was heard.
LEMMA LoopKeeps ==
  ASSUME SessionInv, SessionType', UNCHANGED <<bridge, inbound, writer, events>>,
         streams' \subseteq streams, settled \subseteq settled',
         loop' \notin {"run", "send"} => streams' = {},
         loop' \in {"run", "send"} =>
           /\ loop \in {"run", "send"}
           /\ \A s \in Ids : Heard(s) => Heard(s)'
           /\ \A s \in streams \ streams' : Heard(s)'
  PROVE  SessionInv'
<1> USE DEF SessionInv
<1>1. OverInv' BY DEF OverInv
<1>2. RunningBridges' = RunningBridges BY DEF RunningBridges
<1>3. MappedInv' BY <1>2 DEF MappedInv
<1>4. InboundInv' BY DEF InboundInv
<1>5. HeardInv' BY DEF HeardInv
<1> QED BY <1>1, <1>3, <1>4, <1>5

\* A step of a stream task that goes on: it may take a frame and answer the
\* Edge, and it is about to end only when the Edge has heard of that.
LEMMA TaskKeeps ==
  ASSUME SessionInv, NEW s \in Ids, NEW t \in BridgeStates \ {"none", "done"},
         s \in RunningBridges, bridge' = [bridge EXCEPT ![s] = t],
         inbound' = inbound \/ (inbound[s] # <<>> /\ inbound' = [inbound EXCEPT ![s] = Tail(@)]),
         ended' \in [Ids -> SUBSET Both], control' \in Nat,
         settled' \in {settled, settled \cup {s}},
         UNCHANGED <<loop, answering, streams, events, writer>>,
         t = "notify" /\ writer = "up" => s \in settled' \/ Heard(s) \/ loop \notin {"run", "send"}
  PROVE  SessionInv'
<1> USE DEF SessionInv
<1>1. /\ inbound' \in [Ids -> Seq(FrameKinds)]
      /\ \A q \in Ids : \A i \in 1 .. Len(inbound'[q]) :
           \E j \in 1 .. Len(inbound[q]) : inbound'[q][i] = inbound[q][j]
      /\ \A q \in Ids : inbound[q] = <<>> => inbound'[q] = <<>>
  <2>1. CASE inbound' = inbound BY <2>1 DEF SessionType
  <2>2. CASE inbound[s] # <<>> /\ inbound' = [inbound EXCEPT ![s] = Tail(@)]
    <3> DEFINE rest == Tail(inbound[s])
    <3>1. /\ rest \in Seq(FrameKinds) /\ Len(rest) = Len(inbound[s]) - 1
          /\ \A i \in 1 .. Len(rest) : rest[i] = inbound[s][i + 1]
      BY <2>2, HeadTailProperties DEF SessionType
    <3>2. Len(inbound[s]) \in Nat BY LenProperties DEF SessionType
    <3>3. /\ inbound'[s] = rest /\ inbound' \in [Ids -> Seq(FrameKinds)]
          /\ \A q \in Ids \ {s} : inbound'[q] = inbound[q]
      BY Zenon, <2>2, <3>1 DEF SessionType
    <3> HIDE DEF rest
    <3>4. \A i \in 1 .. Len(rest) : i + 1 \in 1 .. Len(inbound[s]) /\ rest[i] = inbound[s][i + 1]
      BY <3>1, <3>2
    <3> QED BY <2>2, <3>3, <3>4
  <2> QED BY <2>1, <2>2
<1>2. SessionType' BY Zenon, <1>1 DEF SessionType, BridgeStates
<1>3. RunningBridges' = RunningBridges /\ \A q \in Ids : bridge'[q] = "none" <=> bridge[q] = "none"
  BY DEF RunningBridges, SessionType, BridgeStates
<1>4. OverInv' BY DEF OverInv
<1>5. MappedInv'
  <2>1. \A q \in Ids : bridge[q] = "done" => bridge'[q] = "done" BY DEF RunningBridges, SessionType
  <2>2. \A i \in 1 .. Len(events) : events[i] \in Ids BY ElementOfSeq DEF SessionType
  <2> QED BY <1>3, <2>1, <2>2 DEF MappedInv
<1>6. InboundInv' BY SMTT(30), <1>1, <1>3 DEF InboundInv
<1>7. HeardInv'
  <2>1. \A q \in Ids : Heard(q) => Heard(q)' BY DEF Heard
  <2>2. \A q \in Ids \ {s} : bridge'[q] = bridge[q] BY DEF SessionType
  <2>3. bridge'[s] = t /\ bridge[s] \notin {"none", "done"} BY DEF SessionType, RunningBridges
  <2> QED BY <1>3, <2>1, <2>2, <2>3 DEF HeardInv, Heard
<1> QED BY <1>2, <1>4, <1>5, <1>6, <1>7

\* A stream task that is over: its Closed event is in the channel, unless the
\* loop maps nothing any more.
LEMMA EndsKeeps ==
  ASSUME SessionInv, NEW s \in Ids, s \in RunningBridges, Ends(s),
         UNCHANGED <<loopVars, control, writer, settled>>,
         loop \in {"run", "send"} => bridge[s] = "notify",
         \/ events' = Append(events, s)
         \/ events' = events /\ loop \notin {"run", "send"}
  PROVE  SessionInv'
<1> USE DEF SessionInv
<1>1. SessionType'
  <2>1. events \in Seq(Ids) BY DEF SessionType
  <2>2. Append(events, s) \in Seq(Ids) BY <2>1, AppendProperties
  <2>3. events' \in Seq(Ids) BY <2>1, <2>2
  <2>4. bridge' \in [Ids -> BridgeStates] BY DEF SessionType, Ends, Goto, BridgeStates
  <2>5. inbound' \in [Ids -> Seq(FrameKinds)] /\ ended' \in [Ids -> SUBSET Both]
    BY EmptySeq DEF SessionType, Ends
  <2> QED BY <2>3, <2>4, <2>5 DEF SessionType, loopVars
<1>2. OverInv' BY DEF OverInv, loopVars
<1>3. /\ bridge'[s] = "done" /\ RunningBridges' = RunningBridges \ {s}
      /\ \A q \in Ids \ {s} : bridge'[q] = bridge[q] /\ inbound'[q] = inbound[q]
      /\ inbound'[s] = <<>> /\ UNCHANGED <<loop, answering, streams, settled, writer>>
  BY DEF Ends, Goto, RunningBridges, SessionType, loopVars
<1>4. MappedInv'
  <2>1. \A i \in 1 .. Len(events) : events[i] \in Ids BY ElementOfSeq DEF SessionType
  <2>2. CASE events' = Append(events, s)
    <3>1. /\ Len(events') = Len(events) + 1 /\ Len(events) \in Nat /\ events'[Len(events')] = s
          /\ \A i \in 1 .. Len(events) : events'[i] = events[i]
      <4>1. events \in Seq(Ids) BY DEF SessionType
      <4>2. Len(events) \in Nat BY <4>1, LenProperties
      <4>3. /\ Len(events') = Len(events) + 1 /\ events'[Len(events) + 1] = s
            /\ \A i \in 1 .. Len(events) : events'[i] = events[i]
        BY <2>2, <4>1, AppendProperties
      <4> QED BY <4>2, <4>3
    <3>2. \A i \in 1 .. Len(events') : i \in 1 .. Len(events) \/ i = Len(events') BY <3>1
    <3>3. \A i \in 1 .. Len(events') : bridge'[events'[i]] = "done"
      BY <1>3, <2>1, <3>1, <3>2 DEF MappedInv
    <3>4. \A i \in 1 .. Len(events) : i \in 1 .. Len(events') BY <3>1
    <3>5. Len(events') \in 1 .. Len(events') BY <3>1
    <3>6. ASSUME NEW q \in streams'
          PROVE  q \in RunningBridges' \/ \E i \in 1 .. Len(events') : events'[i] = q
      <4>1. q \in streams BY <1>3
      <4>2. CASE q = s BY <3>1, <3>5, <4>2
      <4>3. CASE q \in RunningBridges /\ q # s BY <1>3, <4>3
      <4>4. CASE \E i \in 1 .. Len(events) : events[i] = q BY <3>1, <3>4, <4>4
      <4> QED BY <4>1, <4>2, <4>3, <4>4 DEF MappedInv
    <3> QED BY <3>3, <3>6 DEF MappedInv
  <2>3. CASE events' = events /\ loop \notin {"run", "send"}
    BY <1>3, <2>1, <2>3 DEF MappedInv, OverInv
  <2> QED BY <2>2, <2>3
<1>5. InboundInv' BY <1>3 DEF InboundInv
<1>6. HeardInv' BY <1>3 DEF HeardInv, Heard
<1> QED BY <1>1, <1>2, <1>4, <1>5, <1>6

LEMMA SessionNext_SessionInv ==
  ASSUME SessionInv, 0 \notin Ids, [SessionNext]_sessionVars
  PROVE  SessionInv'
<1> USE DEF SessionInv, loopVars, bridgeVars
<1>1. CASE UNCHANGED sessionVars
  BY <1>1 DEF sessionVars, SessionType, OverInv, MappedInv, RunningBridges, InboundInv, HeardInv, Heard
<1>2. CASE Shutdown \/ DeadlinePasses \/ Joined \/ Flushed
  <2>1. /\ UNCHANGED <<answering, streams, events, control, bridge, inbound, ended, writer, settled>>
        /\ loop' = loop \/ (loop \in {"join", "flush"} /\ loop' \in {"flush", "returned"})
    BY <1>2 DEF Shutdown, DeadlinePasses, Joined, Flushed
  <2>2. SessionType' BY <2>1 DEF SessionType
  <2> QED BY <2>1, <2>2, LoopKeeps DEF OverInv, Heard
<1>3. CASE BeginDrain \/ ForcedEnd \/ PeerClosed \/ SessionError \/ Ping
  <2>1. /\ UNCHANGED <<events, control, bridge, inbound, ended, writer, settled>>
        /\ loop = "run" /\ answering' \in {answering, 0}
        /\ \/ loop' \in {"join", "returned"} /\ streams' = {}
           \/ loop' \in {"run", "send"} /\ streams' = streams
    BY <1>3 DEF BeginDrain, ForcedEnd, PeerClosed, SessionError, Ping, Selects, Break, Fail, Await
  <2>2. SessionType' BY <2>1 DEF SessionType
  <2> QED BY <2>1, <2>2, LoopKeeps DEF Heard
<1>4. ASSUME NEW s \in Ids, RefuseOpen(s) \/ Overflow(s) PROVE SessionInv'
  <2>1. /\ UNCHANGED <<events, control, bridge, inbound, ended, writer, settled>>
        /\ loop = "run" /\ loop' = "send" /\ answering' = s
        /\ streams' = streams \/ streams' = streams \ {s}
    BY <1>4 DEF RefuseOpen, Overflow, Selects, Await
  <2>2. SessionType' BY <2>1 DEF SessionType
  <2> QED BY <2>1, <2>2, LoopKeeps DEF Heard
<1>5. ASSUME NEW s \in Ids, NEW k \in FrameKinds, Unknown(s, k) PROVE SessionInv'
  <2>1. /\ UNCHANGED <<events, control, bridge, inbound, ended, writer>>
        /\ loop = "run" /\ streams' = streams \ {s}
        /\ \/ k = "reset" /\ loop' = "run" /\ settled' = settled \cup {s} /\ answering' = answering
           \/ k # "reset" /\ loop' = "send" /\ answering' = s /\ settled' = settled
    BY <1>5 DEF Unknown, Settle, Selects, Await
  <2>2. SessionType' BY <2>1 DEF SessionType
  <2> QED BY <2>1, <2>2, LoopKeeps DEF Heard
<1>6. CASE LoopSends
  <2>1. CASE WriterGone
    <3>1. /\ UNCHANGED <<events, control, bridge, inbound, ended, writer, settled>>
          /\ loop' = "returned" /\ streams' = {} /\ answering' = 0
      BY <1>6, <2>1 DEF LoopSends, Fail
    <3>2. SessionType' BY <3>1 DEF SessionType
    <3> QED BY <3>1, <3>2, LoopKeeps
  <2>2. CASE ~WriterGone
    <3>1. /\ UNCHANGED <<events, streams, bridge, inbound, ended, writer>>
          /\ loop = "send" /\ loop' = "run" /\ answering' = 0 /\ control' = control + 1
          /\ settled' = settled \cup ({answering} \ {0})
      BY <1>6, <2>2 DEF LoopSends
    <3>2. SessionType' BY <3>1 DEF SessionType
    <3>3. \A s \in Ids : Heard(s) => Heard(s)' BY <3>1 DEF Heard
    <3> QED BY <3>1, <3>2, <3>3, LoopKeeps
  <2> QED BY <2>1, <2>2
<1>7. ASSUME NEW s \in Ids, OpenStream(s) PROVE SessionInv'
  <2>1. /\ UNCHANGED <<loop, answering, events, control, writer, inbound, ended>>
        /\ loop = "run" /\ bridge[s] = "none" /\ streams' = streams \cup {s}
        /\ bridge' = [bridge EXCEPT ![s] = "connecting"] /\ settled' = settled \ {s}
    BY <1>7 DEF OpenStream, Selects
  <2>2. /\ bridge'[s] = "connecting" /\ \A q \in Ids \ {s} : bridge'[q] = bridge[q]
        /\ RunningBridges' = RunningBridges \cup {s}
    BY <2>1 DEF SessionType, RunningBridges
  <2>3. SessionType' BY <2>1 DEF SessionType, BridgeStates
  <2>4. OverInv' BY <2>1 DEF OverInv
  <2>5. MappedInv'
    <3>1. \A i \in 1 .. Len(events) : events[i] \in Ids BY ElementOfSeq DEF SessionType
    <3> QED BY <2>1, <2>2, <3>1 DEF MappedInv
  <2>6. InboundInv'
    <3>1. inbound[s] = <<>> /\ Len(inbound[s]) = 0 BY <2>1 DEF InboundInv
    <3> QED BY <2>1, <2>2, <3>1 DEF InboundInv
  <2>7. HeardInv' BY <2>1, <2>2 DEF HeardInv, Heard
  <2> QED BY <2>3, <2>4, <2>5, <2>6, <2>7
<1>8. ASSUME NEW s \in Ids, NEW k \in FrameKinds, Dispatch(s, k) PROVE SessionInv'
  <2>1. /\ UNCHANGED <<loop, answering, streams, events, control, writer, bridge, ended>>
        /\ s \in streams /\ inbound' = [inbound EXCEPT ![s] = Append(@, k)]
        /\ settled' = IF k = "reset" THEN settled \cup {s} ELSE settled
    BY <1>8 DEF Dispatch, Settle
  <2> DEFINE more == Append(inbound[s], k)
  <2>2. /\ more \in Seq(FrameKinds) /\ Len(more) = Len(inbound[s]) + 1 /\ Len(inbound[s]) \in Nat
        /\ more[Len(more)] = k /\ \A i \in 1 .. Len(inbound[s]) : more[i] = inbound[s][i]
    <3>1. inbound[s] \in Seq(FrameKinds) BY DEF SessionType
    <3>2. Len(inbound[s]) \in Nat BY <3>1, LenProperties
    <3>3. /\ more \in Seq(FrameKinds) /\ Len(more) = Len(inbound[s]) + 1
          /\ more[Len(inbound[s]) + 1] = k /\ \A i \in 1 .. Len(inbound[s]) : more[i] = inbound[s][i]
      BY SMTT(30), <3>1, AppendProperties
    <3> QED BY Zenon, <3>2, <3>3
  <2>3. /\ inbound'[s] = more /\ inbound' \in [Ids -> Seq(FrameKinds)]
        /\ \A q \in Ids \ {s} : inbound'[q] = inbound[q]
    BY <2>1, <2>2 DEF SessionType
  <2> HIDE DEF more
  <2>4. SessionType' BY <2>1, <2>3 DEF SessionType
  <2>5. OverInv' BY <2>1 DEF OverInv
  <2>6. MappedInv' BY <2>1 DEF MappedInv, RunningBridges
  <2>7. InboundInv'
    <3>1. bridge[s] # "none" BY <2>1 DEF MappedInv, RunningBridges
    <3>2. \A i \in 1 .. Len(more) : i \in 1 .. Len(inbound[s]) \/ i = Len(more) BY <2>2
    <3>3. settled \subseteq settled' /\ (k = "reset" => s \in settled') BY <2>1
    <3>4. \A i \in 1 .. Len(more) : more[i] = "reset" => s \in settled'
      BY <2>2, <3>2, <3>3 DEF InboundInv
    <3> QED BY <2>1, <2>3, <3>1, <3>3, <3>4 DEF InboundInv
  <2>8. HeardInv' BY <2>1 DEF HeardInv, Heard
  <2> QED BY <2>4, <2>5, <2>6, <2>7, <2>8
<1>9. CASE ReceiveEvent
  <2> DEFINE s == Head(events)
             rest == Tail(events)
  <2>1. /\ UNCHANGED <<answering, control, writer, bridge, inbound, ended, settled>>
        /\ loop = "run" /\ events # <<>> /\ events' = rest
        /\ \/ loop' = "join" /\ streams' = {}
           \/ loop' = "run" /\ streams' = streams \ {s}
    BY <1>9 DEF ReceiveEvent, Selects, Break
  <2>2. /\ s \in Ids /\ s = events[1] /\ rest \in Seq(Ids) /\ Len(rest) = Len(events) - 1
        /\ \A i \in 1 .. Len(rest) : rest[i] = events[i + 1]
    BY <2>1, HeadTailProperties DEF SessionType
  <2>3. Len(events) \in Nat \ {0} BY <2>1, EmptySeq, LenProperties DEF SessionType
  <2> HIDE DEF s, rest
  <2>4. SessionType' BY <2>1, <2>2 DEF SessionType
  <2>5. OverInv' BY <2>1 DEF OverInv
  <2>6. MappedInv'
    <3>1. \A i \in 1 .. Len(rest) : i + 1 \in 1 .. Len(events) BY <2>2, <2>3
    <3>2. \A i \in 1 .. Len(events) : i = 1 \/ i - 1 \in 1 .. Len(rest) BY <2>2, <2>3
    <3>3. \A i \in 1 .. Len(events') : bridge'[events'[i]] = "done"
      BY <2>1, <2>2, <3>1 DEF MappedInv
    <3>4. ASSUME NEW q \in streams' PROVE q \in RunningBridges' \/ \E i \in 1 .. Len(events') : events'[i] = q
      <4>1. q \in streams /\ q # s /\ RunningBridges' = RunningBridges BY <2>1 DEF RunningBridges
      <4>2. CASE \E i \in 1 .. Len(events) : events[i] = q
        <5>1. PICK i \in 1 .. Len(events) : events[i] = q BY <4>2
        <5>2. i - 1 \in 1 .. Len(rest) BY <2>2, <3>2, <4>1, <5>1
        <5>3. rest[i - 1] = events[(i - 1) + 1] BY <2>2, <5>2
        <5>4. rest[i - 1] = q BY <5>1, <5>3, <2>3
        <5> QED BY <2>1, <5>2, <5>4
      <4> QED BY <4>1, <4>2 DEF MappedInv
    <3> QED BY <3>3, <3>4 DEF MappedInv
  <2>7. InboundInv' BY <2>1 DEF InboundInv
  <2>8. HeardInv'
    <3>1. bridge[s] = "done" BY SMTT(30), <2>2, <2>3 DEF MappedInv
    <3> QED BY <2>1, <3>1 DEF HeardInv, Heard
  <2> QED BY <2>4, <2>5, <2>6, <2>7, <2>8
<1>10. CASE WriterStep \/ WriterFails
  <2>1. /\ UNCHANGED <<loop, answering, streams, events, bridge, inbound, ended, settled>>
        /\ writer = "up" /\ writer' \in {"up", "finished", "failed"} /\ control' \in Nat
    BY SMTT(30), <1>10 DEF WriterStep, WriterTakes, WriterFinishes, WriterFails, SessionType
  <2> QED BY <2>1 DEF SessionType, OverInv, MappedInv, RunningBridges, InboundInv, HeardInv, Heard
<1>11. ASSUME NEW s \in Ids,
              \/ ConnectLocal(s) \/ ConnectInterrupted(s) \/ Acknowledge(s) \/ RelayFrame(s)
              \/ InboundClosed(s) \/ DataSent(s) \/ Idle(s) \/ Graceful(s) \/ SendReset(s)
              \/ WriteDone(s) \/ ReadLocal(s)
       PROVE  SessionInv'
  <2>1. s \in RunningBridges /\ bridge[s] # "none"
    BY Zenon, <1>11 DEF ConnectLocal, ConnectInterrupted, Acknowledge, RelayFrame, InboundClosed, DataSent,
                 Idle, Graceful, SendReset, WriteDone, ReadLocal, Relays, RunningBridges
  <2>2. control \in Nat /\ control + 1 \in Nat /\ ended \in [Ids -> SUBSET Both]
    BY DEF SessionType
  <2>3. \A d \in Both : [ended EXCEPT ![s] = @ \cup {d}] \in [Ids -> SUBSET Both] BY <2>2
  <2>4. Closed(s) => Heard(s) \/ loop \notin {"run", "send"} \/ writer # "up"
    BY Zenon, <2>1 DEF Closed, HeardInv
  <2>5. ASSUME inbound[s] # <<>> /\ Head(inbound[s]) = "reset" PROVE s \in settled
    <3>1. inbound[s] \in Seq(FrameKinds) BY DEF SessionType
    <3>2. 1 \in 1 .. Len(inbound[s]) /\ inbound[s][1] = "reset"
      BY <2>5, <3>1, EmptySeq, LenProperties, HeadTailProperties
    <3> QED BY <3>2 DEF InboundInv
  <2>6. CASE ConnectLocal(s) \/ DataSent(s) \/ Idle(s) \/ WriteDone(s)
    <3>1. PICK t \in {"acking", "reset", "notify", "relay"} :
            /\ bridge' = [bridge EXCEPT ![s] = t] /\ (t = "notify" => WriterGone)
            /\ UNCHANGED <<loop, answering, streams, events, control, writer, inbound, ended, settled>>
      BY <2>6 DEF ConnectLocal, DataSent, Idle, WriteDone, Goto
    <3> QED BY Zenon, <2>1, <2>2, <3>1, TaskKeeps DEF BridgeStates, WriterGone
  <2>7. CASE ConnectInterrupted(s)
    <3>1. PICK t \in {"reset", "notify"} :
            /\ bridge' = [bridge EXCEPT ![s] = t]
            /\ UNCHANGED <<loop, answering, streams, events, control, writer, ended, settled>>
            /\ inbound' = inbound \/ (inbound[s] # <<>> /\ inbound' = [inbound EXCEPT ![s] = Tail(@)])
            /\ t = "notify" => Closed(s) \/ (inbound[s] # <<>> /\ Head(inbound[s]) = "reset")
      BY <2>7 DEF ConnectInterrupted, Goto, Takes
    <3> QED BY Zenon, <2>1, <2>2, <2>4, <2>5, <3>1, TaskKeeps DEF BridgeStates
  <2>8. CASE Acknowledge(s)
    <3>1. PICK t \in {"relay", "notify"} :
            /\ bridge' = [bridge EXCEPT ![s] = t] /\ (t = "notify" => WriterGone)
            /\ control' \in {control, control + 1}
            /\ UNCHANGED <<loop, answering, streams, events, writer, inbound, ended, settled>>
      BY <2>8 DEF Acknowledge, Goto
    <3> QED BY Zenon, <2>1, <2>2, <3>1, TaskKeeps DEF BridgeStates, WriterGone
  <2>9. CASE RelayFrame(s)
    <3>1. PICK t \in {"writing", "relay", "reset", "notify"} :
            /\ bridge' = [bridge EXCEPT ![s] = t]
            /\ UNCHANGED <<loop, answering, streams, events, control, writer, settled>>
            /\ inbound[s] # <<>> /\ inbound' = [inbound EXCEPT ![s] = Tail(@)]
            /\ ended' = ended \/ ended' = [ended EXCEPT ![s] = @ \cup {"peer"}]
            /\ t = "notify" => Head(inbound[s]) = "reset"
      BY <2>9 DEF RelayFrame, Goto, Takes
    <3>2. ended' \in [Ids -> SUBSET Both] BY <2>2, <2>3, <3>1 DEF Both
    <3> QED BY Zenon, <2>1, <2>2, <2>5, <3>1, <3>2, TaskKeeps DEF BridgeStates
  <2>10. CASE InboundClosed(s)
    <3>1. /\ bridge' = [bridge EXCEPT ![s] = "notify"] /\ Closed(s)
          /\ UNCHANGED <<loop, answering, streams, events, control, writer, inbound, ended, settled>>
      BY <2>10 DEF InboundClosed, Goto
    <3> QED BY Zenon, <2>1, <2>2, <2>4, <3>1, TaskKeeps DEF BridgeStates
  <2>11. CASE Graceful(s) \/ SendReset(s)
    <3>1. /\ bridge' = [bridge EXCEPT ![s] = "notify"] /\ control' \in {control, control + 1}
          /\ settled' = settled \cup {s}
          /\ UNCHANGED <<loop, answering, streams, events, writer, inbound, ended>>
      BY <2>11 DEF Graceful, SendReset, Goto
    <3> QED BY Zenon, <2>1, <2>2, <3>1, TaskKeeps DEF BridgeStates
  <2>12. CASE ReadLocal(s)
    <3>1. PICK t \in {"sending", "reset"} :
            /\ bridge' = [bridge EXCEPT ![s] = t]
            /\ UNCHANGED <<loop, answering, streams, events, control, writer, inbound, settled>>
            /\ ended' = ended \/ ended' = [ended EXCEPT ![s] = @ \cup {"local"}]
      BY <2>12 DEF ReadLocal, Goto
    <3>2. ended' \in [Ids -> SUBSET Both] BY <2>2, <2>3, <3>1 DEF Both
    <3> QED BY Zenon, <2>1, <2>2, <3>1, <3>2, TaskKeeps DEF BridgeStates
  <2> QED BY <1>11, <2>6, <2>7, <2>8, <2>9, <2>10, <2>11, <2>12
<1>12. ASSUME NEW s \in Ids, Notify(s) PROVE SessionInv'
  <2>1. s \in RunningBridges BY <1>12 DEF Notify, RunningBridges
  <2> QED BY <1>12, <2>1, EndsKeeps DEF Notify
<1>13. ASSUME NEW s \in Ids, Aborted(s) PROVE SessionInv'
  BY <1>13, EndsKeeps DEF Aborted
<1> QED BY Zenon, <1>1, <1>2, <1>3, <1>4, <1>5, <1>6, <1>7, <1>8, <1>9, <1>10, <1>11, <1>12, <1>13
        DEF SessionNext, LoopStep, BridgeStep

\* No stream is forgotten on one side: while the session lives and its writer
\* writes, a stream of the map has a task or a Closed event to come, and the
\* Edge has heard of every stream whose task is over (run_multiplexed_inner,
\* run_local_stream), for any stream ids and any capacities.
THEOREM AgentStreamsSoundProved ==
  ASSUME 0 \notin Ids
  PROVE  SessionSpec => []AgentStreamsSound
<1>1. SessionInit => SessionInv BY SessionInit_SessionInv
<1>2. SessionInv /\ [SessionNext]_sessionVars => SessionInv' BY SessionNext_SessionInv
<1>3. SessionInv => AgentStreamsSound
  <2>1. SessionInv => DOMAIN events = 1 .. Len(events) BY LenProperties DEF SessionInv, SessionType
  <2> QED BY ZenonT(40), <2>1 DEF SessionInv, SessionType, MappedInv, HeardInv, Heard, AgentStreamsSound
<1> QED BY <1>1, <1>2, <1>3, PTL DEF SessionSpec

\* What a step of the session may do to its channels and to the map.
LEMMA SessionStepShape ==
  ASSUME [SessionNext]_sessionVars
  PROVE  /\ \/ control' = control \/ control' = 0 \/ control' = control - 1
            \/ control < ControlCapacity /\ control' = control + 1
         /\ \/ events' = events \/ (events # <<>> /\ events' = Tail(events))
            \/ \E s \in Ids : Len(events) < MaxStreams /\ events' = Append(events, s)
         /\ \/ inbound' = inbound
            \/ \E q \in Ids, k \in FrameKinds :
                 Len(inbound[q]) < InboundCapacity /\ inbound' = [inbound EXCEPT ![q] = Append(@, k)]
            \/ \E q \in Ids : \/ inbound[q] # <<>> /\ inbound' = [inbound EXCEPT ![q] = Tail(@)]
                              \/ inbound' = [inbound EXCEPT ![q] = <<>>]
         /\ \/ streams' \subseteq streams
            \/ Cardinality(streams) < MaxStreams /\ \E s \in Ids : streams' = streams \cup {s}
<1> USE DEF SessionNext, sessionVars, LoopStep, WriterStep, BridgeStep, Shutdown, DeadlinePasses,
      BeginDrain, ForcedEnd, LoopSends, Joined, Flushed, ReceiveEvent, WriterTakes, WriterFinishes,
      WriterFails, Ping, PeerClosed, SessionError, OpenStream, RefuseOpen, Overflow, Dispatch,
      Unknown, ConnectLocal, ConnectInterrupted, Acknowledge, RelayFrame, InboundClosed, DataSent,
      Idle, Graceful, SendReset, Notify, Aborted, WriteDone, ReadLocal
<1>1. \/ control' = control \/ control' = 0 \/ control' = control - 1
      \/ control < ControlCapacity /\ control' = control + 1
  BY ZenonT(40) DEF ControlRoom
<1>2. \/ events' = events \/ (events # <<>> /\ events' = Tail(events))
      \/ \E s \in Ids : Len(events) < MaxStreams /\ events' = Append(events, s)
  BY ZenonT(40)
<1>3. \/ inbound' = inbound
      \/ \E q \in Ids, k \in FrameKinds :
           Len(inbound[q]) < InboundCapacity /\ inbound' = [inbound EXCEPT ![q] = Append(@, k)]
      \/ \E q \in Ids : \/ inbound[q] # <<>> /\ inbound' = [inbound EXCEPT ![q] = Tail(@)]
                        \/ inbound' = [inbound EXCEPT ![q] = <<>>]
  BY ZenonT(40) DEF bridgeVars, Takes, Ends
<1>4. \/ streams' \subseteq streams
      \/ Cardinality(streams) < MaxStreams /\ \E s \in Ids : streams' = streams \cup {s}
  BY ZenonT(40) DEF loopVars, Break, Fail
<1> HIDE DEF SessionNext
<1> QED BY <1>1, <1>2, <1>3, <1>4

\* The session's memory stays within its configuration: no channel ever holds
\* more than its capacity, and the map no more streams than the session allows
\* (the mpsc channels and max_concurrent_streams of run_multiplexed_inner).
THEOREM SessionStaysBounded ==
  ASSUME 0 \notin Ids, MaxStreams \in Nat, InboundCapacity \in Nat, ControlCapacity \in Nat
  PROVE  SessionSpec => []SessionBounds
<1>1. SessionInit => SessionInv /\ SessionBounds
  <2>1. IsFiniteSet({}) /\ Cardinality({}) = 0 BY FS_EmptySet
  <2> QED BY <2>1, SessionInit_SessionInv DEF SessionInit, SessionBounds
<1>2. ASSUME SessionInv, SessionBounds, [SessionNext]_sessionVars PROVE SessionInv' /\ SessionBounds'
  <2>1. SessionInv' BY <1>2, SessionNext_SessionInv
  <2>2. SessionType /\ SessionBounds BY <1>2 DEF SessionInv
  <2>3. control' <= ControlCapacity
    <3>1. control' = control \/ control' = 0 \/ control' = control - 1
          \/ (control < ControlCapacity /\ control' = control + 1)
      BY <1>2, SessionStepShape
    <3> QED BY <2>2, <3>1 DEF SessionType, SessionBounds
  <2>4. Len(events') <= MaxStreams
    <3>1. \/ events' = events \/ (events # <<>> /\ events' = Tail(events))
          \/ \E s \in Ids : Len(events) < MaxStreams /\ events' = Append(events, s)
      BY <1>2, SessionStepShape
    <3>2. events \in Seq(Ids) /\ Len(events) \in Nat BY <2>2, LenProperties DEF SessionType
    <3>3. events # <<>> => Len(Tail(events)) = Len(events) - 1 BY <3>2, HeadTailProperties
    <3>4. \A s \in Ids : Len(Append(events, s)) = Len(events) + 1 BY <3>2, AppendProperties
    <3> QED BY <2>2, <3>1, <3>2, <3>3, <3>4 DEF SessionBounds
  <2>5. ASSUME NEW s \in Ids PROVE Len(inbound'[s]) <= InboundCapacity
    <3>1. \/ inbound' = inbound
          \/ \E q \in Ids, k \in FrameKinds :
               Len(inbound[q]) < InboundCapacity /\ inbound' = [inbound EXCEPT ![q] = Append(@, k)]
          \/ \E q \in Ids : \/ inbound[q] # <<>> /\ inbound' = [inbound EXCEPT ![q] = Tail(@)]
                            \/ inbound' = [inbound EXCEPT ![q] = <<>>]
      BY <1>2, SessionStepShape
    <3>2. inbound[s] \in Seq(FrameKinds) /\ Len(inbound[s]) \in Nat
      BY <2>2, LenProperties DEF SessionType
    <3>3. inbound[s] # <<>> => Len(Tail(inbound[s])) = Len(inbound[s]) - 1
      BY <3>2, HeadTailProperties
    <3>4. \A k \in FrameKinds : Len(Append(inbound[s], k)) = Len(inbound[s]) + 1
      BY <3>2, AppendProperties
    <3>5. Len(<<>>) = 0 OBVIOUS
    <3>6. inbound \in [Ids -> Seq(FrameKinds)] BY <2>2 DEF SessionType
    <3>7. CASE inbound'[s] = inbound[s] BY <2>2, <3>7 DEF SessionBounds
    <3>8. CASE inbound'[s] # inbound[s]
      <4>1. \/ inbound[s] # <<>> /\ inbound'[s] = Tail(inbound[s])
            \/ inbound'[s] = <<>>
            \/ Len(inbound[s]) < InboundCapacity
                 /\ \E k \in FrameKinds : inbound'[s] = Append(inbound[s], k)
        BY Zenon, <3>1, <3>6, <3>8
      <4>2. Len(inbound[s]) <= InboundCapacity BY <2>2 DEF SessionBounds
      <4>3. CASE /\ Len(inbound[s]) < InboundCapacity
                 /\ \E k \in FrameKinds : inbound'[s] = Append(inbound[s], k)
        BY <4>3, <3>2, <3>4
      <4>4. CASE inbound[s] # <<>> /\ inbound'[s] = Tail(inbound[s]) BY <4>2, <4>4, <3>2, <3>3
      <4>5. CASE inbound'[s] = <<>> BY <4>5, <3>5
      <4> QED BY <4>1, <4>3, <4>4, <4>5
    <3> QED BY <3>7, <3>8
  <2>6. IsFiniteSet(streams') /\ Cardinality(streams') <= MaxStreams
    <3>1. \/ streams' \subseteq streams
          \/ Cardinality(streams) < MaxStreams /\ \E s \in Ids : streams' = streams \cup {s}
      BY <1>2, SessionStepShape
    <3>2. IsFiniteSet(streams) /\ Cardinality(streams) <= MaxStreams /\ Cardinality(streams) \in Nat
      BY <2>2, FS_CardinalityType DEF SessionBounds
    <3>3. CASE streams' \subseteq streams
      <4>1. IsFiniteSet(streams') /\ Cardinality(streams') <= Cardinality(streams)
        BY <3>2, <3>3, FS_Subset
      <4>2. Cardinality(streams') \in Nat BY <4>1, FS_CardinalityType
      <4> QED BY <3>2, <4>1, <4>2
    <3>4. CASE Cardinality(streams) < MaxStreams /\ \E s \in Ids : streams' = streams \cup {s}
      <4>1. PICK s \in Ids : streams' = streams \cup {s} BY <3>4
      <4>2. /\ IsFiniteSet(streams')
            /\ Cardinality(streams') = IF s \in streams THEN Cardinality(streams)
                                       ELSE Cardinality(streams) + 1
        BY <3>2, <4>1, FS_AddElement
      <4> QED BY <3>2, <3>4, <4>2
    <3> QED BY <3>1, <3>3, <3>4
  <2> QED BY <2>1, <2>3, <2>4, <2>5, <2>6 DEF SessionBounds
<1>3. SessionInv /\ SessionBounds => SessionBounds OBVIOUS
<1> QED BY <1>1, <1>2, <1>3, PTL DEF SessionSpec

(***************************************************************************)
(* 2. The request rates.                                                   *)
(*                                                                         *)
(* A window of admissions is bounded by an account of the bucket: what was *)
(* admitted since the window began and what is left in the bucket never    *)
(* exceed the burst and what the rate has earned since.  The account of an *)
(* address outlives its bucket: while it is not tracked, every stamp that  *)
(* may still arrive is late enough to have earned the full bucket it will  *)
(* be given.                                                               *)
(***************************************************************************)
Bucket == [rate : Nat, capacity : Nat, tokens : Nat, last_refill : Nat]
Entry == [bucket : Bucket, last_seen : Nat]
Admission == [peer : Peers, at : Nat, peerAt : Nat]
Request == [peer : Peers, at : Nat]

\* A bucket of the given quota, refilled no later than now.
Holds(b, rate, burst, now) ==
  /\ b \in Bucket /\ b.rate = rate /\ b.capacity = burst * Scale
  /\ b.tokens <= b.capacity /\ b.last_refill <= now

\* A call waits with a stamp that is at most MaxWait old.
CallInv ==
  /\ clock \in Nat /\ idleTtl \in IdleTtls
  /\ DOMAIN call = Threads
  /\ \A t \in Threads : call[t] # NoCall =>
        /\ call[t] \in Request
        /\ clock - MaxWait <= call[t].at /\ call[t].at <= clock

\* A table of the buckets of tracked addresses.
TableOK(f) ==
  /\ DOMAIN f \subseteq Peers /\ f \in [DOMAIN f -> Entry]
  /\ \A p \in DOMAIN f :
        /\ Holds(f[p].bucket, PeerRate, PeerBurst, clock)
        /\ f[p].bucket.last_refill <= f[p].last_seen + MaxWait

\* The eviction order lists the tracked addresses, each once.
OrderOK(q, D) ==
  /\ q \in Seq(Peers)
  /\ \A i, j \in 1 .. Len(q) : q[i] = q[j] => i = j
  /\ {q[i] : i \in 1 .. Len(q)} = D

\* The account of the process's bucket, and its windows, for a log.
Covered(s, b) ==
  \A i \in 1 .. Len(s) :
    (Len(s) - i + 1) * Scale + b.tokens
      <= GlobalBurst * Scale + GlobalRate * (b.last_refill - s[i].at)

Window(s) ==
  \A i, j \in 1 .. Len(s) :
    i <= j => (j - i + 1) * Scale <= GlobalBurst * Scale + GlobalRate * (s[j].at - s[i].at)

\* The idle time outlasts the refill of a lost bucket.
Lasting == (idleTtl - 2 * MaxWait) * PeerRate >= PeerBurst * Scale

\* The account of an address in table f, with its bucket and without.
Account(f, p, i) ==
  IF p \in DOMAIN f
  THEN Admitted(p, i, Len(log)) * Scale + f[p].bucket.tokens
         <= PeerBurst * Scale + PeerRate * (f[p].bucket.last_refill - log[i].peerAt)
  ELSE Admitted(p, i, Len(log)) * Scale <= PeerRate * (clock - MaxWait - log[i].peerAt)

Accounts(f) == Lasting => \A i \in 1 .. Len(log) : Account(f, log[i].peer, i)

\* A table, its eviction order and its accounts, all in order.
Kept(f, q) == /\ TableOK(f) /\ OrderOK(q, DOMAIN f) /\ Len(q) <= MaxTrackedIps /\ Accounts(f)

RateInv ==
  /\ CallInv /\ log \in Seq(Admission)
  /\ Holds(global, GlobalRate, GlobalBurst, clock) /\ Covered(log, global) /\ Window(log)
  /\ Kept(peers, order) /\ PeerWindowBound
  /\ RetryAfterExact

-----------------------------------------------------------------------------
(* Arithmetic.                                                             *)

LEMMA Distribute ==
  ASSUME NEW a \in Int, NEW b \in Int, NEW c \in Int
  PROVE  a * (b + c) = a * b + a * c /\ (b + c) * a = b * a + c * a /\ a * b \in Int /\ a * b = b * a
  OBVIOUS

LEMMA Monotone ==
  ASSUME NEW a \in Nat, NEW b \in Int, NEW c \in Int, b <= c
  PROVE  a * b <= a * c
<1>1. PICK d \in Nat : c = b + d
  <2>1. c - b \in Nat /\ c = b + (c - b) OBVIOUS
  <2> QED BY <2>1
<1>2. a * d \in Nat OBVIOUS
<1>3. a * c = a * b + a * d BY <1>1, Distribute
<1>4. a * b \in Int OBVIOUS
<1> QED BY <1>2, <1>3, <1>4

\* Division rounds down.
LEMMA Division ==
  ASSUME NEW x \in Int, NEW r \in Nat \ {0}
  PROVE  x \div r \in Int /\ r * (x \div r) <= x /\ x < r * (x \div r) + r
  OBVIOUS

LEMMA ConstantFacts ==
  /\ Scale \in Nat \ {0} /\ GlobalRate \in Nat \ {0} /\ PeerRate \in Nat \ {0}
  /\ GlobalBurst \in Nat \ {0} /\ PeerBurst \in Nat \ {0}
  /\ MaxTrackedIps \in Nat /\ CleanupBatch \in Nat /\ MaxWait \in Nat /\ IdleTtls \subseteq Nat
  /\ GlobalBurst * Scale \in Nat /\ PeerBurst * Scale \in Nat
  /\ Scale <= GlobalBurst * Scale /\ Scale <= PeerBurst * Scale
<1>1. /\ Scale \in Nat \ {0} /\ GlobalRate \in Nat \ {0} /\ PeerRate \in Nat \ {0}
      /\ GlobalBurst \in Nat \ {0} /\ PeerBurst \in Nat \ {0}
      /\ MaxTrackedIps \in Nat /\ CleanupBatch \in Nat /\ MaxWait \in Nat /\ IdleTtls \subseteq Nat
  BY RateConfigAssumption DEF ConfigValid, QuotaValid
<1>2. GlobalBurst * Scale \in Nat /\ PeerBurst * Scale \in Nat
  BY <1>1
<1>3. Scale * 1 <= Scale * GlobalBurst /\ Scale * 1 <= Scale * PeerBurst
  BY <1>1, Monotone
<1>4. Scale <= GlobalBurst * Scale /\ Scale <= PeerBurst * Scale
  BY <1>1, <1>3
<1> QED BY <1>1, <1>2, <1>4

-----------------------------------------------------------------------------
(* Token buckets. *)

\* A bucket has its fields.
LEMMA BucketFields ==
  ASSUME NEW b \in Bucket
  PROVE  b.rate \in Nat /\ b.capacity \in Nat /\ b.tokens \in Nat /\ b.last_refill \in Nat
  BY DEF Bucket

\* A new bucket is full.
LEMMA NewBucketFacts ==
  ASSUME NEW rate \in Nat, NEW burst \in Nat, NEW now \in Nat
  PROVE  /\ Holds(NewBucket(rate, burst, now), rate, burst, now)
         /\ NewBucket(rate, burst, now).tokens = burst * Scale
         /\ NewBucket(rate, burst, now).last_refill = now
<1>1. burst * Scale \in Nat
  BY ConstantFacts
<1> DEFINE B == burst * Scale
<1> HIDE DEF B
<1>2. B \in Nat
  BY <1>1 DEF B
<1>3. NewBucket(rate, burst, now) = [rate |-> rate, capacity |-> B, tokens |-> B, last_refill |-> now]
  BY Zenon DEF NewBucket, B
<1>4. NewBucket(rate, burst, now) \in Bucket
  BY SMTT(30), <1>2, <1>3 DEF Bucket
<1> QED BY <1>2, <1>3, <1>4 DEF Holds, B

\* A refill earns at most the rate, and moves last_refill forward only.
LEMMA RefillFacts ==
  ASSUME NEW b, NEW rate \in Nat, NEW burst \in Nat, NEW c \in Nat, Holds(b, rate, burst, c),
         NEW now \in Nat, now <= c
  PROVE  /\ Holds(Refill(b, now), rate, burst, c)
         /\ Refill(b, now).last_refill = IF now <= b.last_refill THEN b.last_refill ELSE now
         /\ Refill(b, now).tokens <= b.tokens + rate * (Refill(b, now).last_refill - b.last_refill)
<1>1. b \in Bucket /\ b.rate = rate /\ b.capacity = burst * Scale /\ b.tokens <= b.capacity /\ b.last_refill <= c
  BY DEF Holds
<1>2. b.capacity \in Nat /\ b.tokens \in Nat /\ b.last_refill \in Nat
  BY <1>1, BucketFields
<1>3. CASE now <= b.last_refill
  <2>1. Refill(b, now) = b
    BY <1>3 DEF Refill
  <2>2. rate * (b.last_refill - b.last_refill) = 0
    BY <1>2
  <2> QED BY <1>2, <1>3, <2>1, <2>2
<1>4. CASE ~(now <= b.last_refill)
  <2> DEFINE e == (now - b.last_refill) * rate
             k == MinOf(b.tokens + e, b.capacity)
  <2>1. Refill(b, now) = [b EXCEPT !.tokens = MinOf(b.tokens + (now - b.last_refill) * b.rate, b.capacity),
                                   !.last_refill = now]
    BY <1>4, Zenon DEF Refill
  <2>2. Refill(b, now) = [b EXCEPT !.tokens = k, !.last_refill = now]
    BY <1>1, <2>1, Zenon
  <2>3. now - b.last_refill \in Nat
    BY <1>2, <1>4
  <2>4. e \in Nat /\ e = rate * (now - b.last_refill)
    BY <2>3
  <2> HIDE DEF e
  <2>5. k \in Nat /\ k <= b.tokens + e /\ k <= b.capacity
    BY <1>2, <2>4 DEF MinOf
  <2> HIDE DEF k
  <2>6. /\ Refill(b, now).tokens = k /\ Refill(b, now).last_refill = now
        /\ Refill(b, now).rate = b.rate /\ Refill(b, now).capacity = b.capacity
        /\ Refill(b, now) \in Bucket
    BY <1>1, <2>2, <2>5, Zenon DEF Bucket
  <2>7. Holds(Refill(b, now), rate, burst, c)
    BY <1>1, <2>5, <2>6, Zenon DEF Holds
  <2> QED BY <1>4, <2>4, <2>5, <2>6, <2>7
<1> QED BY <1>3, <1>4

\* A request takes one token of a bucket that has one.
LEMMA ConsumeFacts ==
  ASSUME NEW b, NEW rate, NEW burst, NEW c \in Nat, Holds(b, rate, burst, c), ~Spent(b)
  PROVE  /\ Holds(Consume(b), rate, burst, c)
         /\ Consume(b).tokens = b.tokens - Scale
         /\ Consume(b).last_refill = b.last_refill
<1>1. b \in Bucket /\ b.rate = rate /\ b.capacity = burst * Scale /\ b.tokens <= b.capacity /\ b.last_refill <= c
  BY DEF Holds
<1>2. b.capacity \in Nat /\ b.tokens \in Nat /\ b.last_refill \in Nat
  BY <1>1, BucketFields
<1>3. Scale \in Nat /\ b.tokens >= Scale
  BY <1>2, ConstantFacts DEF Spent
<1>4. Consume(b) = [b EXCEPT !.tokens = b.tokens - Scale]
  BY <1>3 DEF Consume
<1>5. b.tokens - Scale \in Nat /\ b.tokens - Scale <= b.capacity
  BY <1>1, <1>2, <1>3
<1>6. /\ Consume(b).tokens = b.tokens - Scale /\ Consume(b).last_refill = b.last_refill
      /\ Consume(b).rate = b.rate /\ Consume(b).capacity = b.capacity /\ Consume(b) \in Bucket
  BY <1>1, <1>4, <1>5 DEF Bucket
<1> QED BY <1>1, <1>5, <1>6, Zenon DEF Holds

\* The retry a spent bucket promises is the least wait that earns a token.
LEMMA RetryFacts ==
  ASSUME NEW b, NEW rate \in Nat \ {0}, NEW burst, NEW c, Holds(b, rate, burst, c), Spent(b)
  PROVE  /\ b.tokens + RetryAfter(b) * b.rate >= Scale
         /\ b.tokens + (RetryAfter(b) - 1) * b.rate < Scale
<1>1. b \in Bucket /\ b.rate = rate /\ b.tokens \in Nat /\ Scale \in Nat
  BY BucketFields, ConstantFacts DEF Holds
<1> DEFINE x == Scale - b.tokens + rate - 1
           q == x \div rate
<1>2. RetryAfter(b) = q
  BY <1>1, Zenon DEF RetryAfter
<1>3. x \in Int
  BY <1>1
<1> HIDE DEF x
<1>4. q \in Int /\ rate * q <= x /\ x < rate * q + rate
  BY <1>3, Division
<1> HIDE DEF q
<1>5. q * rate = rate * q /\ (q - 1) * rate = rate * q - rate /\ rate * q \in Int
  BY <1>4
<1> DEFINE m == rate * q
<1> HIDE DEF m
<1>6. m <= x /\ x < m + rate /\ q * rate = m /\ (q - 1) * rate = m - rate /\ m \in Int
  BY <1>4, <1>5 DEF m
<1>7. b.tokens + m >= Scale /\ b.tokens + (m - rate) < Scale
  BY <1>1, <1>6 DEF x
<1> QED BY <1>1, <1>2, <1>6, <1>7

-----------------------------------------------------------------------------
(* The eviction order. *)

\* Nth numbers the members of a finite set of numbers.
LEMMA Numbered ==
  ASSUME NEW S, S \subseteq Nat, IsFiniteSet(S)
  PROVE  /\ Cardinality(S) \in Nat
         /\ \A k \in 1 .. Cardinality(S) : Nth(S, k) \in S
         /\ \A k, l \in 1 .. Cardinality(S) : Nth(S, k) = Nth(S, l) => k = l
         /\ \A i \in S : \E k \in 1 .. Cardinality(S) : Nth(S, k) = i
<1> DEFINE n == Cardinality(S)
           upto(i) == {j \in S : j <= i}
           rank == [i \in S |-> Cardinality(upto(i))]
<1>1. n \in Nat
  BY FS_CardinalityType
<1>2. ASSUME NEW i \in S PROVE /\ IsFiniteSet(upto(i)) /\ Cardinality(upto(i)) \in 1 .. n
  <2>1. upto(i) \subseteq S /\ i \in upto(i)
    OBVIOUS
  <2>2. IsFiniteSet(upto(i)) /\ Cardinality(upto(i)) <= n
    BY <2>1, FS_Subset
  <2>3. Cardinality(upto(i)) \in Nat /\ Cardinality(upto(i)) # 0
    BY <2>1, <2>2, FS_CardinalityType, FS_EmptySet, Zenon
  <2> QED BY <1>1, <2>2, <2>3
<1>3. ASSUME NEW i \in S, NEW j \in S, i < j PROVE Cardinality(upto(i)) # Cardinality(upto(j))
  <2>0. i \in Nat /\ j \in Nat
    OBVIOUS
  <2>1. upto(i) \subseteq upto(j) /\ j \in upto(j) /\ j \notin upto(i)
    <3>1. \A k \in S : k \in Nat
      OBVIOUS
    <3>2. \A k \in Nat : k <= i => k <= j
      BY <1>3, <2>0
    <3>3. j <= j /\ ~(j <= i)
      BY <1>3, <2>0
    <3> QED BY <3>1, <3>2, <3>3, Zenon
  <2>2. upto(i) # upto(j) /\ IsFiniteSet(upto(j))
    BY <1>2, <2>1
  <2> HIDE DEF upto
  <2> QED BY <2>1, <2>2, FS_Subset
<1>4. ASSUME NEW i \in S, NEW j \in S, Cardinality(upto(i)) = Cardinality(upto(j)) PROVE i = j
  <2>1. i \in Nat /\ j \in Nat
    OBVIOUS
  <2>2. ~(i < j) /\ ~(j < i)
    BY <1>3, <1>4
  <2> QED BY <2>1, <2>2
<1> HIDE DEF upto
<1>5. rank \in [S -> 1 .. n]
  BY <1>2
<1>6. rank \in Injection(S, 1 .. n)
  BY <1>4, <1>5 DEF Injection, IsInjective
<1>7. IsFiniteSet(1 .. n) /\ Cardinality(1 .. n) = n
  BY <1>1, FS_Interval
<1>8. rank \in Surjection(S, 1 .. n)
  BY <1>6, <1>7, FS_Injection
<1>9. ASSUME NEW k \in 1 .. n PROVE \E i \in S : Cardinality(upto(i)) = k
  BY <1>8, Zenon DEF Surjection
<1>10. ASSUME NEW k \in 1 .. n PROVE Nth(S, k) \in S /\ Cardinality(upto(Nth(S, k))) = k
  <2>1. Nth(S, k) = CHOOSE i \in S : Cardinality(upto(i)) = k
    BY Zenon DEF Nth, upto
  <2> QED BY <1>9, <2>1, Zenon
<1>11. ASSUME NEW i \in S PROVE \E k \in 1 .. n : Nth(S, k) = i
  <2>1. Cardinality(upto(i)) \in 1 .. n
    BY <1>2
  <2> QED BY <1>4, <1>10, <2>1, Zenon
<1>12. ASSUME NEW k \in 1 .. n, NEW l \in 1 .. n, Nth(S, k) = Nth(S, l) PROVE k = l
  BY <1>10, <1>12, Zenon
<1> HIDE DEF n
<1>13. n = Cardinality(S)
  BY DEF n
<1> QED BY <1>1, <1>10, <1>11, <1>12, <1>13, Zenon

\* An order is as long as the table is large.
LEMMA ListedOnce ==
  ASSUME NEW q, NEW D, OrderOK(q, D)
  PROVE  IsFiniteSet(D) /\ Cardinality(D) = Len(q)
<1> DEFINE T == {q[i] : i \in 1 .. Len(q)}
           f == [i \in 1 .. Len(q) |-> q[i]]
<1>0. q \in Seq(Peers) /\ (\A i, j \in 1 .. Len(q) : q[i] = q[j] => i = j) /\ T = D
  BY Zenon DEF OrderOK
<1>1. Len(q) \in Nat
  BY Zenon, <1>0, LenProperties
<1>2. f \in Bijection(1 .. Len(q), T)
  BY <1>0 DEF Bijection, Injection, IsInjective, Surjection
<1>3. ExistsBijection(1 .. Len(q), T)
  BY <1>2, Zenon DEF ExistsBijection
<1>4. \A n \in Nat : IsFiniteSet(1 .. n) /\ Cardinality(1 .. n) = n
  BY FS_Interval
<1> HIDE DEF T
<1>5. IsFiniteSet(T) /\ Cardinality(T) = Len(q)
  BY <1>1, <1>3, <1>4, FS_Bijection, Zenon
<1> QED BY <1>0, <1>5, Zenon

\* An address goes to the back of the order.
LEMMA OrderAppend ==
  ASSUME NEW q, NEW D, OrderOK(q, D), NEW p \in Peers, p \notin D
  PROVE  OrderOK(Append(q, p), D \cup {p}) /\ Len(Append(q, p)) = Len(q) + 1
<1> DEFINE r == Append(q, p)
           n == Len(q)
<1>0. /\ q \in Seq(Peers) /\ \A i, j \in 1 .. n : q[i] = q[j] => i = j
      /\ {q[i] : i \in 1 .. n} = D
  BY Zenon DEF OrderOK
<1>1. /\ n \in Nat /\ r \in Seq(Peers) /\ Len(r) = n + 1 /\ r[n + 1] = p
      /\ \A i \in 1 .. n : r[i] = q[i]
  BY SMTT(30), <1>0, AppendProperties, LenProperties
<1>2. \A i \in 1 .. n + 1 : i = n + 1 \/ i \in 1 .. n
  BY <1>1
<1>3. \A i \in 1 .. n : i \in 1 .. n + 1
  BY <1>1
<1>4. n + 1 \in 1 .. n + 1
  BY <1>1
<1>5. \A i \in 1 .. n : q[i] # p
  BY <1>0, Zenon
<1> HIDE DEF r
<1>6. \A i, j \in 1 .. Len(r) : r[i] = r[j] => i = j
  BY <1>0, <1>1, <1>2, <1>5, Zenon
<1>7. {r[i] : i \in 1 .. Len(r)} = {q[i] : i \in 1 .. n} \cup {p}
  <2> DEFINE M == {q[i] : i \in 1 .. n}
             N == {r[i] : i \in 1 .. Len(r)}
  <2>1. ASSUME NEW x \in N PROVE x \in M \cup {p}
    <3>1. PICK i \in 1 .. n + 1 : x = r[i]
      BY <1>1, Zenon
    <3> QED BY <1>1, <1>2, <3>1, Zenon
  <2>2. ASSUME NEW x \in M PROVE x \in N
    <3>1. PICK i \in 1 .. n : x = q[i]
      BY Zenon
    <3> QED BY <1>1, <1>3, <3>1, Zenon
  <2>3. p \in N
    BY <1>1, <1>4, Zenon
  <2> HIDE DEF M, N
  <2>4. N = M \cup {p}
    BY <2>1, <2>2, <2>3, Zenon
  <2> QED BY <2>4, Zenon DEF M, N
<1>8. OrderOK(r, D \cup {p})
  BY <1>0, <1>1, <1>6, <1>7, Zenon DEF OrderOK
<1> QED BY <1>1, <1>8, Zenon DEF r

\* cleanup_idle_peers keeps the order of the others and forgets the expired.
LEMMA CleanedFacts ==
  ASSUME NEW now, OrderOK(order, DOMAIN peers)
  PROVE  /\ OrderOK(CleanedOrder(now), DOMAIN peers \ Expired(now))
         /\ Len(CleanedOrder(now)) <= Len(order)
<1> DEFINE X == Expired(now)
           L == Len(order)
           n == MinOf(L, CleanupBatch)
           kept == {i \in 1 .. n : order[i] \notin X}
           c == Cardinality(kept)
           A == SubSeq(order, n + 1, L)
           B == [k \in 1 .. c |-> order[Nth(kept, k)]]
           o == A \o B
           src(i) == IF i <= L - n THEN i + n ELSE Nth(kept, i - (L - n))
<1>0. /\ order \in Seq(Peers) /\ L \in Nat /\ \A i \in 1 .. L : order[i] \in Peers
      /\ \A i, j \in 1 .. L : order[i] = order[j] => i = j
      /\ {order[i] : i \in 1 .. L} = DOMAIN peers
  BY LenProperties, ElementOfSeq DEF OrderOK
<1>1. n \in Nat /\ n <= L
  BY <1>0, ConstantFacts DEF MinOf
<1>2. CleanedOrder(now) = o
  BY Zenon DEF CleanedOrder
<1>3. X = {p \in {order[i] : i \in 1 .. n} : IdlePeer(p, now)}
  BY Zenon DEF Expired
<1>4. kept \subseteq 1 .. n /\ IsFiniteSet(kept) /\ c \in Nat /\ c <= n
  <2>1. IsFiniteSet(1 .. n) /\ Cardinality(1 .. n) = n
    BY <1>1, FS_Interval
  <2>2. kept \subseteq 1 .. n
    OBVIOUS
  <2> HIDE DEF kept, n
  <2> QED BY <2>1, <2>2, FS_Subset, FS_CardinalityType, Zenon
<1>5. \A i \in kept : i \in Nat /\ 1 <= i /\ i <= n /\ order[i] \notin X
  BY <1>1
<1>6. \A i \in 1 .. L : i <= n => (i \in kept <=> order[i] \notin X)
  BY <1>1
<1>7. \A i \in 1 .. L : ~(i <= n) => order[i] \notin X
  <2> SUFFICES ASSUME NEW i \in 1 .. L, ~(i <= n), order[i] \in X PROVE FALSE
    BY Zenon
  <2>1. PICK j \in 1 .. n : order[i] = order[j]
    BY <1>3, Zenon
  <2>2. j \in 1 .. L /\ j # i
    BY <1>0, <1>1, <2>1
  <2> QED BY <1>0, <2>1, <2>2, Zenon
<1> HIDE DEF X, n, kept, c
<1>8. /\ \A k \in 1 .. c : Nth(kept, k) \in kept
      /\ \A k, l \in 1 .. c : Nth(kept, k) = Nth(kept, l) => k = l
      /\ \A i \in kept : \E k \in 1 .. c : Nth(kept, k) = i
  <2>1. kept \subseteq Nat
    BY <1>1, <1>4, <1>5
  <2> QED BY <1>4, <2>1, Numbered, Zenon DEF c
<1>9. A \in Seq(Peers) /\ Len(A) = L - n /\ \A i \in 1 .. L - n : A[i] = order[i + n]
  <2>1. \A i \in (n + 1) .. L : order[i] \in Peers
    BY SMTT(30), <1>0, <1>1
  <2>2. Len(A) = L - n /\ A \in Seq(Peers)
    BY SMTT(30), <1>0, <1>1
  <2>3. ASSUME NEW i \in 1 .. L - n PROVE A[i] = order[i + n]
    BY SMTT(30), <1>0, <1>1, <2>2, <2>3
  <2> QED BY <2>2, <2>3
<1>10. B \in Seq(Peers) /\ Len(B) = c /\ \A k \in 1 .. c : B[k] = order[Nth(kept, k)]
  <2>1. ASSUME NEW k \in 1 .. c PROVE order[Nth(kept, k)] \in Peers
    <3>1. Nth(kept, k) \in 1 .. L
      BY <1>0, <1>1, <1>5, <1>8
    <3> QED BY <1>0, <3>1, Zenon
  <2>2. B \in [1 .. c -> Peers]
    BY <2>1, Zenon
  <2>3. B \in Seq(Peers)
    BY <1>4, <2>2, FunctionIsSeq, Zenon
  <2> QED BY <1>4, <2>2, <2>3, LenProperties
<1> HIDE DEF A, B
<1>11. /\ o \in Seq(Peers) /\ Len(o) = (L - n) + c
       /\ \A i \in 1 .. (L - n) + c : o[i] = IF i <= L - n THEN A[i] ELSE B[i - (L - n)]
  <2>1. A \in Seq(Peers) /\ B \in Seq(Peers) /\ Len(A) = L - n /\ Len(B) = c
    BY <1>9, <1>10, Zenon
  <2>2. /\ A \o B \in Seq(Peers) /\ Len(A \o B) = Len(A) + Len(B)
        /\ \A i \in 1 .. Len(A) + Len(B) : (A \o B)[i] = IF i <= Len(A) THEN A[i] ELSE B[i - Len(A)]
    BY <2>1, ConcatProperties, Zenon
  <2> QED BY <2>1, <2>2, Zenon
<1> HIDE DEF o, L
<1>12. ASSUME NEW i \in 1 .. Len(o)
       PROVE  o[i] = order[src(i)] /\ src(i) \in 1 .. L /\ order[src(i)] \notin X
  <2>1. CASE i <= L - n
    <3>1. i \in 1 .. L - n /\ i + n \in 1 .. L /\ ~(i + n <= n)
      BY SMTT(30), <1>0, <1>1, <2>1
    <3>2. src(i) = i + n /\ o[i] = order[i + n]
      BY <1>9, <1>11, <2>1, <3>1
    <3> QED BY <1>7, <3>1, <3>2, Zenon
  <2>2. CASE ~(i <= L - n)
    <3> DEFINE k == i - (L - n)
    <3>1. k \in 1 .. c
      BY <1>0, <1>1, <1>4, <1>11, <2>2
    <3>2. src(i) = Nth(kept, k) /\ o[i] = B[k]
      BY <1>11, <2>2, Zenon
    <3> HIDE DEF k
    <3>3. o[i] = order[Nth(kept, k)] /\ Nth(kept, k) \in kept
      BY <1>8, <1>10, <3>1, <3>2, Zenon
    <3>4. Nth(kept, k) \in 1 .. L /\ order[Nth(kept, k)] \notin X
      BY <1>0, <1>1, <1>5, <3>3
    <3> QED BY <3>2, <3>3, <3>4, Zenon
  <2> QED BY <2>1, <2>2
<1>13. ASSUME NEW i \in 1 .. Len(o), NEW j \in 1 .. Len(o), src(i) = src(j) PROVE i = j
  <2> DEFINE k(m) == m - (L - n)
  <2>1. ASSUME NEW m \in 1 .. Len(o), ~(m <= L - n) PROVE k(m) \in 1 .. c /\ src(m) = Nth(kept, k(m)) /\ src(m) <= n
    <3>1. k(m) \in 1 .. c
      BY SMTT(30), <1>0, <1>1, <1>4, <1>11, <2>1
    <3>2. src(m) = Nth(kept, k(m))
      BY <2>1, Zenon
    <3>3. Nth(kept, k(m)) \in kept
      BY <1>8, <3>1, Zenon
    <3>4. Nth(kept, k(m)) <= n
      BY <1>5, <3>3, Zenon
    <3> HIDE DEF k, src
    <3> QED BY ZenonT(40), <3>1, <3>2, <3>4
  <2>2. ASSUME NEW m \in 1 .. Len(o), m <= L - n PROVE src(m) = m + n /\ ~(src(m) <= n)
    BY SMTT(30), <1>0, <1>1, <2>2
  <2>3. CASE i <= L - n /\ j <= L - n
    BY <1>0, <1>1, <1>13, <2>2, <2>3
  <2>4. CASE ~(i <= L - n) /\ ~(j <= L - n)
    <3>1. k(i) = k(j)
      BY <1>8, <1>13, <2>1, <2>4, Zenon
    <3> QED BY <1>0, <1>1, <3>1
  <2>5. (i <= L - n) <=> (j <= L - n)
    BY <1>13, <2>1, <2>2, Zenon
  <2> QED BY <2>3, <2>4, <2>5, Zenon
<1>14. ASSUME NEW i \in 1 .. L, order[i] \notin X PROVE \E j \in 1 .. Len(o) : o[j] = order[i]
  <2>1. CASE ~(i <= n)
    <3>1. i - n \in 1 .. L - n /\ (i - n) + n = i /\ i - n \in 1 .. Len(o)
      BY SMTT(30), <1>0, <1>1, <1>4, <1>11, <2>1
    <3>2. o[i - n] = A[i - n]
      BY <1>11, <3>1
    <3>3. A[i - n] = order[(i - n) + n]
      BY <1>9, <3>1
    <3> QED BY <3>1, <3>2, <3>3, Zenon
  <2>2. CASE i <= n
    <3>1. PICK k \in 1 .. c : Nth(kept, k) = i
      BY <1>6, <1>8, <1>14, <2>2, Zenon
    <3>2. (L - n) + k \in 1 .. Len(o) /\ ~((L - n) + k <= L - n) /\ ((L - n) + k) - (L - n) = k
      BY <1>0, <1>1, <1>4, <1>11, <3>1
    <3>3. o[(L - n) + k] = B[k]
      BY <1>11, <3>2, Zenon
    <3> QED BY <1>10, <3>1, <3>2, <3>3, Zenon
  <2> QED BY <2>1, <2>2
<1> HIDE DEF src
<1>15. \A i, j \in 1 .. Len(o) : o[i] = o[j] => i = j
  BY <1>0, <1>12, <1>13, Zenon
<1>16. {o[i] : i \in 1 .. Len(o)} = DOMAIN peers \ X
  <2> DEFINE M == {o[i] : i \in 1 .. Len(o)}
  <2>1. ASSUME NEW x \in M PROVE x \in DOMAIN peers \ X
    <3>1. PICK i \in 1 .. Len(o) : x = o[i]
      BY Zenon
    <3> QED BY <1>0, <1>12, <3>1, Zenon
  <2>2. ASSUME NEW x \in DOMAIN peers \ X PROVE x \in M
    <3>1. PICK i \in 1 .. L : x = order[i]
      BY <1>0, <2>2, Zenon
    <3>2. \E j \in 1 .. Len(o) : o[j] = x
      BY <1>14, <2>2, <3>1, Zenon
    <3> QED BY <3>2, Zenon
  <2> HIDE DEF M
  <2>3. M = DOMAIN peers \ X
    BY <2>1, <2>2, Zenon
  <2> QED BY <2>3, Zenon DEF M
<1>17. Len(o) <= L
  BY <1>0, <1>1, <1>4, <1>11
<1>18. OrderOK(o, DOMAIN peers \ X)
  BY <1>11, <1>15, <1>16, Zenon DEF OrderOK
<1> QED BY <1>2, <1>17, <1>18, Zenon DEF X, L

-----------------------------------------------------------------------------
(* The table of buckets, and the accounts kept in it. *)

LEMMA EntryFields ==
  ASSUME NEW f, TableOK(f), NEW p \in DOMAIN f
  PROVE  /\ f[p] \in Entry /\ f[p].last_seen \in Nat /\ f[p].bucket \in Bucket
         /\ f[p].bucket.tokens \in Nat /\ f[p].bucket.last_refill \in Nat
         /\ Holds(f[p].bucket, PeerRate, PeerBurst, clock)
         /\ f[p].bucket.last_refill <= f[p].last_seen + MaxWait
<1>1. f[p] \in Entry /\ Holds(f[p].bucket, PeerRate, PeerBurst, clock)
      /\ f[p].bucket.last_refill <= f[p].last_seen + MaxWait
  BY Zenon DEF TableOK
<1>2. f[p].last_seen \in Nat /\ f[p].bucket \in Bucket
  BY Zenon, <1>1 DEF Entry
<1> QED BY <1>1, <1>2, BucketFields

LEMMA AdmissionFields ==
  ASSUME log \in Seq(Admission), NEW i \in 1 .. Len(log)
  PROVE  log[i].peer \in Peers /\ log[i].at \in Nat /\ log[i].peerAt \in Nat
<1>1. log[i] \in Admission
  BY ElementOfSeq
<1> QED BY <1>1 DEF Admission

LEMMA AdmittedType ==
  ASSUME NEW p, NEW i \in Nat, NEW j \in Nat
  PROVE  Admitted(p, i, j) \in Nat /\ IsFiniteSet({m \in i .. j : log[m].peer = p})
<1>1. IsFiniteSet(i .. j)
  BY FS_Interval
<1>2. {m \in i .. j : log[m].peer = p} \subseteq i .. j
  OBVIOUS
<1>3. IsFiniteSet({m \in i .. j : log[m].peer = p})
  BY <1>1, <1>2, FS_Subset, Zenon
<1> QED BY <1>3, FS_CardinalityType, Zenon DEF Admitted

\* Forgetting idle addresses keeps the table sound.
LEMMA CleanedTable ==
  ASSUME NEW now, TableOK(peers)
  PROVE  /\ TableOK(CleanedPeers(now)) /\ DOMAIN CleanedPeers(now) = DOMAIN peers \ Expired(now)
         /\ \A p \in DOMAIN CleanedPeers(now) : CleanedPeers(now)[p] = peers[p]
<1>1. CleanedPeers(now) = [p \in DOMAIN peers \ Expired(now) |-> peers[p]]
  BY Zenon DEF CleanedPeers
<1>2. /\ DOMAIN CleanedPeers(now) = DOMAIN peers \ Expired(now)
      /\ \A p \in DOMAIN CleanedPeers(now) : CleanedPeers(now)[p] = peers[p]
  BY <1>1, Zenon
<1>3. CleanedPeers(now) \in [DOMAIN CleanedPeers(now) -> Entry]
  BY <1>1, <1>2, Zenon DEF TableOK
<1> QED BY <1>2, <1>3, Zenon DEF TableOK

\* An address that is forgotten has been idle for the time to live.
LEMMA ExpiredIdle ==
  ASSUME NEW now, NEW p \in Expired(now)
  PROVE  now >= peers[p].last_seen /\ now - peers[p].last_seen >= idleTtl
<1>1. IdlePeer(p, now)
  BY Zenon DEF Expired
<1> QED BY <1>1 DEF IdlePeer

\* What is lost with an idle bucket has long been earned.
LEMMA CleanedAccounts ==
  ASSUME NEW now \in Nat, now <= clock, clock \in Nat, idleTtl \in IdleTtls, TableOK(peers),
         log \in Seq(Admission), Accounts(peers)
  PROVE  Accounts(CleanedPeers(now))
<1> DEFINE f == CleanedPeers(now)
<1>1. DOMAIN f = DOMAIN peers \ Expired(now) /\ \A p \in DOMAIN f : f[p] = peers[p]
  BY CleanedTable, Zenon
<1> HIDE DEF f
<1> SUFFICES ASSUME Lasting, NEW i \in 1 .. Len(log) PROVE Account(f, log[i].peer, i)
  BY Zenon DEF Accounts, f
<1> DEFINE p == log[i].peer
<1>2. Account(peers, p, i)
  BY Zenon DEF Accounts
<1>3. i \in Nat /\ Len(log) \in Nat /\ log[i].peerAt \in Nat
  BY AdmissionFields, LenProperties
<1> DEFINE N == Admitted(p, i, Len(log))
           at == log[i].peerAt
<1>4. N \in Nat
  BY <1>3, AdmittedType, Zenon
<1> HIDE DEF N, at, p
<1>5. ASSUME p \in DOMAIN f PROVE Account(f, p, i)
  BY <1>1, <1>2, <1>5, Zenon DEF Account
<1>6. ASSUME p \notin DOMAIN peers PROVE Account(f, p, i)
  <2>1. p \notin DOMAIN f
    BY <1>1, <1>6, Zenon
  <2> QED BY <1>2, <1>6, <2>1, Zenon DEF Account
<1>7. ASSUME p \in DOMAIN peers, p \notin DOMAIN f PROVE Account(f, p, i)
  <2>1. p \in Expired(now)
    BY <1>1, <1>7, Zenon
  <2> DEFINE ls == peers[p].last_seen
             lr == peers[p].bucket.last_refill
             tk == peers[p].bucket.tokens
             B == PeerBurst * Scale
             K == N * Scale
  <2>2. ls \in Nat /\ lr \in Nat /\ tk \in Nat /\ lr <= ls + MaxWait
    BY Zenon, <1>7, EntryFields
  <2>3. now >= ls /\ now - ls >= idleTtl
    BY <2>1, ExpiredIdle
  <2>4. K + tk <= B + PeerRate * (lr - at)
    BY <1>2, <1>7, Zenon DEF Account, N, at
  <2>5. (idleTtl - 2 * MaxWait) * PeerRate >= B
    BY DEF Lasting
  <2>6. /\ B \in Nat /\ K \in Nat /\ PeerRate \in Nat /\ MaxWait \in Nat /\ idleTtl \in Nat /\ at \in Nat
    <3>1. Scale \in Nat /\ PeerBurst * Scale \in Nat
      BY ConstantFacts
    <3> QED BY <1>3, <1>4, <3>1, ConstantFacts DEF at
  <2> HIDE DEF ls, lr, tk, B, K
  <2> DEFINE x == idleTtl - 2 * MaxWait
             y == lr - at
             z == clock - MaxWait - at
  <2>7. x \in Int /\ y \in Int /\ z \in Int /\ x + y <= z
    BY <2>2, <2>3, <2>6
  <2>8. B <= PeerRate * x
    BY <2>5, <2>6, <2>7
  <2>9. K + tk <= B + PeerRate * y
    BY <2>4
  <2> HIDE DEF x, y, z
  <2>10. PeerRate * (x + y) = PeerRate * x + PeerRate * y /\ PeerRate * x \in Int /\ PeerRate * y \in Int
    BY <2>6, <2>7, Distribute
  <2>11. PeerRate * (x + y) <= PeerRate * z /\ PeerRate * z \in Int
    <3>1. x + y \in Int
      BY SMTT(30), <2>7
    <3> QED BY <2>6, <2>7, <3>1, Monotone
  <2>12. K <= PeerRate * z
    BY SMTT(30), <2>2, <2>6, <2>8, <2>9, <2>10, <2>11
  <2> QED BY <1>7, <2>12, Zenon DEF Account, K, N, z, at
<1> QED BY <1>5, <1>6, <1>7, Zenon DEF p

\* An address that is met again gets a full bucket.
LEMMA InsertTable ==
  ASSUME NEW f, TableOK(f), NEW p \in Peers, p \notin DOMAIN f,
         NEW now \in Nat, now <= clock, clock \in Nat
  PROVE  /\ TableOK(Insert(f, p, now)) /\ DOMAIN Insert(f, p, now) = DOMAIN f \cup {p}
         /\ \A q \in DOMAIN f : Insert(f, p, now)[q] = f[q]
         /\ Insert(f, p, now)[p].bucket.tokens = PeerBurst * Scale
         /\ Insert(f, p, now)[p].bucket.last_refill = now
<1> DEFINE b == NewBucket(PeerRate, PeerBurst, now)
           e == [bucket |-> b, last_seen |-> now]
           g == Insert(f, p, now)
<1>1. /\ Holds(b, PeerRate, PeerBurst, now) /\ b.tokens = PeerBurst * Scale /\ b.last_refill = now
  BY NewBucketFacts, ConstantFacts
<1>2. Holds(b, PeerRate, PeerBurst, clock) /\ b \in Bucket
  <2>1. b.last_refill <= clock
    BY <1>1
  <2> QED BY <1>1, <2>1, Zenon DEF Holds
<1> HIDE DEF b
<1>3. e \in Entry /\ e.bucket = b /\ e.last_seen = now
  BY <1>2 DEF Entry
<1>4. g = [q \in DOMAIN f \cup {p} |-> IF q = p THEN e ELSE f[q]]
  BY Zenon DEF Insert, b
<1> HIDE DEF e
<1>5. /\ DOMAIN g = DOMAIN f \cup {p} /\ g[p] = e /\ \A q \in DOMAIN f : g[q] = f[q]
  BY <1>4, Zenon
<1>6. g \in [DOMAIN g -> Entry] /\ DOMAIN g \subseteq Peers
  BY <1>3, <1>4, <1>5, Zenon DEF TableOK
<1>7. now <= now + MaxWait
  BY SMTT(30), ConstantFacts
<1>8. ASSUME NEW q \in DOMAIN g
      PROVE  /\ Holds(g[q].bucket, PeerRate, PeerBurst, clock)
             /\ g[q].bucket.last_refill <= g[q].last_seen + MaxWait
  <2>1. CASE q = p
    BY <1>1, <1>2, <1>3, <1>5, <1>7, <2>1, Zenon
  <2>2. CASE q # p
    BY <1>5, <1>8, <2>2, Zenon DEF TableOK
  <2> QED BY Zenon, <2>1, <2>2
<1> HIDE DEF g
<1>9. TableOK(g)
  BY <1>6, <1>8, Zenon DEF TableOK
<1> QED BY <1>1, <1>3, <1>5, <1>9, Zenon DEF g

LEMMA InsertEntry ==
  ASSUME NEW f, NEW p, NEW now \in Nat
  PROVE  /\ Insert(f, p, now)[p].bucket.tokens = PeerBurst * Scale
         /\ Insert(f, p, now)[p].bucket.last_refill = now
<1> DEFINE b == NewBucket(PeerRate, PeerBurst, now)
<1>1. b.tokens = PeerBurst * Scale /\ b.last_refill = now
  BY SMTT(30), NewBucketFacts, ConstantFacts
<1> HIDE DEF b
<1>2. Insert(f, p, now)[p].bucket = b
  BY DEF Insert, b
<1> QED BY <1>1, <1>2, Zenon

\* The stamp it comes with has earned the bucket.
LEMMA InsertAccounts ==
  ASSUME NEW f, TableOK(f), NEW p \in Peers, p \notin DOMAIN f,
         NEW now \in Nat, clock - MaxWait <= now, now <= clock, clock \in Nat,
         log \in Seq(Admission), Accounts(f)
  PROVE  Accounts(Insert(f, p, now))
<1> DEFINE g == Insert(f, p, now)
<1>a. g[p].bucket.tokens = PeerBurst * Scale /\ g[p].bucket.last_refill = now
  BY ONLY InsertEntry, now \in Nat
<1>c. DOMAIN g = DOMAIN f \cup {p}
  BY ONLY InsertTable, TableOK(f), p \notin DOMAIN f, now <= clock, clock \in Nat, p \in Peers,
          now \in Nat, Zenon
<1>b. \A q \in DOMAIN f : g[q] = f[q]
  BY ONLY InsertTable, TableOK(f), p \notin DOMAIN f, now <= clock, clock \in Nat, p \in Peers,
          now \in Nat, Zenon
<1>1. /\ DOMAIN g = DOMAIN f \cup {p}
      /\ \A q \in DOMAIN f : g[q] = f[q]
      /\ g[p].bucket.tokens = PeerBurst * Scale /\ g[p].bucket.last_refill = now
  BY <1>a, <1>b, <1>c, Zenon
<1> HIDE DEF g
<1> SUFFICES ASSUME Lasting, NEW i \in 1 .. Len(log) PROVE Account(g, log[i].peer, i)
  BY Zenon DEF Accounts, g
<1> DEFINE q == log[i].peer
<1>2. Account(f, q, i)
  BY Zenon DEF Accounts
<1> DEFINE N == Admitted(q, i, Len(log))
           at == log[i].peerAt
<1>3. N \in Nat /\ at \in Nat
  <2>1. i \in Nat /\ Len(log) \in Nat /\ log[i].peerAt \in Nat
    BY AdmissionFields, LenProperties
  <2> QED BY <2>1, AdmittedType, Zenon
<1> HIDE DEF N, at, q
<1>4. ASSUME q \in DOMAIN f PROVE Account(g, q, i)
  <2>1. q \in DOMAIN g /\ g[q] = f[q]
    BY <1>1, <1>4, Zenon
  <2> QED BY <1>2, <1>4, <2>1, Zenon DEF Account
<1>5. ASSUME q \notin DOMAIN f, q # p PROVE Account(g, q, i)
  <2>1. q \notin DOMAIN g
    BY <1>1, <1>5, Zenon
  <2> QED BY <1>2, <1>5, <2>1, Zenon DEF Account
<1>6. ASSUME q = p PROVE Account(g, q, i)
  <2>1. q \notin DOMAIN f /\ q \in DOMAIN g
    BY <1>1, <1>6, Zenon
  <2> DEFINE K == N * Scale
             B == PeerBurst * Scale
             y == clock - MaxWait - at
             z == now - at
  <2>2. K <= PeerRate * y
    BY <1>2, <2>1, Zenon DEF Account, N, at
  <2>3. PeerRate \in Nat /\ B \in Nat /\ K \in Nat /\ MaxWait \in Nat
    <3>1. Scale \in Nat /\ PeerBurst * Scale \in Nat
      BY ConstantFacts
    <3> QED BY <1>3, <3>1, ConstantFacts
  <2>4. y \in Int /\ z \in Int /\ y <= z
    BY <1>3, <2>3
  <2> HIDE DEF K, B, y, z
  <2>5. PeerRate * y <= PeerRate * z /\ PeerRate * y \in Int /\ PeerRate * z \in Int
    BY <2>3, <2>4, Monotone
  <2>6. K + B <= B + PeerRate * z
    BY <2>2, <2>3, <2>5
  <2>7. g[q].bucket.tokens = B /\ g[q].bucket.last_refill = now
    BY <1>1, <1>6, Zenon DEF B
  <2> QED BY <2>1, <2>6, <2>7, Zenon DEF Account, K, B, z, N, at
<1> QED BY <1>4, <1>5, <1>6, Zenon DEF q

\* A refill of an address's bucket is covered by the time it stands for.
LEMMA RefillTable ==
  ASSUME NEW f, TableOK(f), NEW p \in DOMAIN f, NEW now \in Nat, clock - MaxWait <= now,
         now <= clock, clock \in Nat, NEW b, Holds(b, PeerRate, PeerBurst, clock)
  PROVE  /\ TableOK([f EXCEPT ![p] = [bucket |-> b, last_seen |-> now]])
<1> DEFINE e == [bucket |-> b, last_seen |-> now]
           g == [f EXCEPT ![p] = e]
<1>1. b \in Bucket /\ b.last_refill \in Nat /\ b.last_refill <= clock
  BY BucketFields DEF Holds
<1>2. e \in Entry /\ e.bucket = b /\ e.last_seen = now
  BY <1>1 DEF Entry
<1>3. b.last_refill <= now + MaxWait
  BY <1>1, ConstantFacts
<1> HIDE DEF e
<1>4. DOMAIN g = DOMAIN f /\ g \in [DOMAIN f -> Entry] /\ g[p] = e /\ \A q \in DOMAIN f : q # p => g[q] = f[q]
  BY <1>2, Zenon DEF TableOK
<1>5. ASSUME NEW q \in DOMAIN f
      PROVE  /\ Holds(g[q].bucket, PeerRate, PeerBurst, clock)
             /\ g[q].bucket.last_refill <= g[q].last_seen + MaxWait
  <2>1. CASE q = p
    BY <1>2, <1>3, <1>4, <2>1, Zenon
  <2>2. CASE q # p
    BY <1>4, <1>5, <2>2, Zenon DEF TableOK
  <2> QED BY <2>1, <2>2
<1> HIDE DEF g
<1>6. TableOK(g)
  BY <1>4, <1>5, Zenon DEF TableOK
<1> QED BY <1>6, Zenon DEF g, e

LEMMA RefillAccounts ==
  ASSUME NEW f, TableOK(f), NEW p \in DOMAIN f, NEW now \in Nat, now <= clock, clock \in Nat,
         log \in Seq(Admission), Accounts(f)
  PROVE  Accounts([f EXCEPT ![p] = [bucket |-> Refill(f[p].bucket, now), last_seen |-> now]])
<1> DEFINE b == Refill(f[p].bucket, now)
           e == [bucket |-> b, last_seen |-> now]
           g == [f EXCEPT ![p] = e]
           a == f[p].bucket
<1>1. a.tokens \in Nat /\ a.last_refill \in Nat /\ Holds(a, PeerRate, PeerBurst, clock)
  BY EntryFields
<1>2. /\ Holds(b, PeerRate, PeerBurst, clock)
      /\ b.tokens <= a.tokens + PeerRate * (b.last_refill - a.last_refill)
  BY <1>1, RefillFacts, ConstantFacts, Zenon
<1>3. b.tokens \in Nat /\ b.last_refill \in Nat
  BY Zenon, <1>2, BucketFields DEF Holds
<1> HIDE DEF b, a
<1>4. e.bucket = b
  OBVIOUS
<1> HIDE DEF e
<1>5. DOMAIN g = DOMAIN f /\ g[p].bucket = b /\ \A q \in DOMAIN f : q # p => g[q] = f[q]
  BY <1>4, Zenon
<1> HIDE DEF g
<1> SUFFICES ASSUME Lasting, NEW i \in 1 .. Len(log) PROVE Account(g, log[i].peer, i)
  BY Zenon DEF Accounts, g, e, b
<1> DEFINE q == log[i].peer
<1>6. Account(f, q, i)
  BY Zenon DEF Accounts
<1> DEFINE N == Admitted(q, i, Len(log))
           at == log[i].peerAt
<1>7. N \in Nat /\ at \in Nat
  <2>1. i \in Nat /\ Len(log) \in Nat /\ log[i].peerAt \in Nat
    BY SMTT(30), AdmissionFields, LenProperties
  <2> QED BY <2>1, AdmittedType, Zenon
<1> HIDE DEF N, at, q
<1>8. ASSUME q # p PROVE Account(g, q, i)
  <2>1. CASE q \in DOMAIN f
    BY <1>5, <1>6, <1>8, <2>1, Zenon DEF Account
  <2>2. CASE q \notin DOMAIN f
    <3>1. q \notin DOMAIN g
      BY <1>5, <2>2, Zenon
    <3> QED BY <1>6, <2>2, <3>1, Zenon DEF Account
  <2> QED BY <2>1, <2>2
<1>9. ASSUME q = p PROVE Account(g, q, i)
  <2> DEFINE K == N * Scale
             B == PeerBurst * Scale
             x == b.last_refill - a.last_refill
             y == a.last_refill - at
             z == b.last_refill - at
  <2>1. K + a.tokens <= B + PeerRate * y
    BY <1>6, <1>9, Zenon DEF Account, N, at, a
  <2>2. PeerRate \in Nat /\ B \in Nat /\ K \in Nat
    <3>1. Scale \in Nat /\ PeerBurst * Scale \in Nat
      BY ConstantFacts
    <3> QED BY SMTT(30), <1>7, <3>1, ConstantFacts
  <2>3. x \in Int /\ y \in Int /\ z \in Int /\ z = x + y
    <3> DEFINE u == a.last_refill
               v == b.last_refill
    <3>1. u \in Nat /\ v \in Nat /\ at \in Nat
      BY <1>1, <1>3, <1>7, Zenon
    <3>2. x = v - u /\ y = u - at /\ z = v - at
      OBVIOUS
    <3> HIDE DEF u, v, x, y, z
    <3> QED BY <3>1, <3>2
  <2>4. b.tokens <= a.tokens + PeerRate * x
    BY <1>2
  <2> HIDE DEF K, B, x, y, z
  <2>5. PeerRate * z = PeerRate * x + PeerRate * y /\ PeerRate * x \in Int /\ PeerRate * y \in Int
    BY <2>2, <2>3, Distribute
  <2>6. K + b.tokens <= B + PeerRate * z
    <3> DEFINE s == a.tokens
               t == b.tokens
               X == PeerRate * x
               Y == PeerRate * y
               Z == PeerRate * z
    <3>1. s \in Nat /\ t \in Nat
      BY <1>1, <1>3, Zenon
    <3>2. K + s <= B + Y /\ t <= s + X /\ Z = X + Y /\ X \in Int /\ Y \in Int
      BY <2>1, <2>4, <2>5, Zenon
    <3>3. B \in Nat /\ K \in Nat
      BY <2>2, Zenon
    <3> HIDE DEF s, t, X, Y, Z
    <3>4. K + t <= B + Z
      BY <3>1, <3>2, <3>3
    <3> QED BY <3>4, Zenon DEF t, Z
  <2> QED BY <1>5, <1>9, <2>6, Zenon DEF Account, K, B, z, N, at
<1> QED BY <1>8, <1>9, Zenon DEF q

\* The admissions of p from the i-th to the j-th of a log.
Count(s, p, i, j) == Cardinality({m \in i .. j : s[m].peer = p})

\* One more admission counts for its own address and from where it stands.
LEMMA CountAppend ==
  ASSUME NEW S, NEW s \in Seq(S), NEW e, NEW p, NEW i \in 1 .. Len(s) + 1
  PROVE  /\ \A j \in 1 .. Len(s) : Count(Append(s, e), p, i, j) = Count(s, p, i, j)
         /\ Count(s, p, i, Len(s)) \in Nat
         /\ Count(Append(s, e), p, i, Len(s) + 1)
              = Count(s, p, i, Len(s)) + IF e.peer = p THEN 1 ELSE 0
         /\ i = Len(s) + 1 => Count(s, p, i, Len(s)) = 0
<1> DEFINE n == Len(s)
           r == Append(s, e)
           A(j) == {m \in i .. j : s[m].peer = p}
           B(j) == {m \in i .. j : r[m].peer = p}
<1>1. n \in Nat /\ Len(r) = n + 1 /\ r[n + 1] = e /\ \A m \in 1 .. n : r[m] = s[m]
  BY AppendProperties, LenProperties
<1> HIDE DEF r
<1>2. \A j \in 1 .. n : \A m \in i .. j : r[m] = s[m]
  BY <1>1
<1>3. \A j \in 1 .. n : B(j) = A(j)
  BY <1>2, Zenon
<1>4. IsFiniteSet(A(n)) /\ Cardinality(A(n)) \in Nat /\ n + 1 \notin A(n)
  <2>1. IsFiniteSet(i .. n)
    BY <1>1, FS_Interval
  <2>2. A(n) \subseteq i .. n /\ n + 1 \notin A(n)
    BY <1>1
  <2> HIDE DEF A
  <2> QED BY <2>1, <2>2, FS_Subset, FS_CardinalityType, Zenon
<1>5. CASE e.peer = p
  <2>1. B(n + 1) = A(n) \cup {n + 1}
    BY <1>1, <1>5
  <2> HIDE DEF A, B
  <2>2. Cardinality(B(n + 1)) = Cardinality(A(n)) + 1
    BY <1>4, <2>1, FS_AddElement
  <2>3. i = n + 1 => Cardinality(A(n)) = 0
    <3>1. i = n + 1 => A(n) = {}
      BY <1>1 DEF A
    <3> QED BY <3>1, FS_EmptySet, Zenon
  <2> QED BY <1>3, <1>4, <1>5, <2>2, <2>3, Zenon DEF Count, A, B, r
<1>6. CASE e.peer # p
  <2>1. B(n + 1) = A(n)
    BY <1>1, <1>6
  <2> HIDE DEF A, B
  <2>2. Cardinality(B(n + 1)) = Cardinality(A(n)) + 0
    BY <1>4, <2>1
  <2>3. i = n + 1 => Cardinality(A(n)) = 0
    <3>1. i = n + 1 => A(n) = {}
      BY <1>1 DEF A
    <3> QED BY <3>1, FS_EmptySet, Zenon
  <2> QED BY <1>3, <1>4, <1>6, <2>2, <2>3, Zenon DEF Count, A, B, r
<1> QED BY <1>5, <1>6, Zenon

\* A token pays for an admission: what the account gains in admissions it loses in tokens.
LEMMA Pays ==
  ASSUME NEW N \in Nat, NEW t \in Nat, NEW bound \in Int, N * Scale + t <= bound, Scale <= t
  PROVE  (N + 1) * Scale + (t - Scale) <= bound
<1>1. Scale \in Nat /\ N * Scale \in Nat
  BY ConstantFacts
<1>2. (N + 1) * Scale = N * Scale + Scale
  BY <1>1
<1> DEFINE K == N * Scale
           M == (N + 1) * Scale
<1>3. M = K + Scale /\ K \in Nat /\ K + t <= bound
  BY <1>1, <1>2
<1> HIDE DEF K, M
<1>4. M + (t - Scale) <= bound
  BY <1>1, <1>3
<1> QED BY <1>4 DEF M

\* An admission of p, from a table whose accounts are in order and whose bucket of p has a token.
LEMMA AdmitAccounts ==
  ASSUME NEW f, TableOK(f), NEW p \in DOMAIN f, ~Spent(f[p].bucket), NEW now \in Nat,
         NEW at \in Nat, clock \in Nat, UNCHANGED <<clock, idleTtl>>,
         log \in Seq(Admission), Accounts(f), PeerWindowBound,
         log' = Append(log, [peer |-> p, at |-> at, peerAt |-> f[p].bucket.last_refill]),
         peers' = [f EXCEPT ![p] = [bucket |-> Consume(f[p].bucket), last_seen |-> now]]
  PROVE  log' \in Seq(Admission) /\ Accounts(peers)' /\ PeerWindowBound'
<1> DEFINE b == f[p].bucket
           c == Consume(b)
           e == [peer |-> p, at |-> at, peerAt |-> b.last_refill]
           n == Len(log)
           B == PeerBurst * Scale
<1>1. /\ Holds(b, PeerRate, PeerBurst, clock) /\ b.tokens \in Nat /\ b.last_refill \in Nat /\ p \in Peers
      /\ b.tokens <= B
  <2>1. Holds(b, PeerRate, PeerBurst, clock) /\ b.tokens \in Nat /\ b.last_refill \in Nat
    BY EntryFields
  <2>2. p \in Peers
    BY Zenon DEF TableOK
  <2> QED BY <2>1, <2>2, Zenon DEF Holds
<1>2. c.tokens = b.tokens - Scale /\ c.last_refill = b.last_refill /\ Scale <= b.tokens
  <2>1. c.tokens = b.tokens - Scale /\ c.last_refill = b.last_refill
    BY <1>1, ConsumeFacts, Zenon
  <2>2. ~(b.tokens < Scale)
    BY Zenon DEF Spent
  <2>3. Scale \in Nat
    BY Zenon, ConstantFacts
  <2> QED BY ONLY <1>1, <2>1, <2>2, <2>3
<1>3. e \in Admission /\ e.peer = p /\ e.peerAt = b.last_refill
  BY <1>1 DEF Admission
<1>4. /\ peers' = [f EXCEPT ![p] = [bucket |-> c, last_seen |-> now]] /\ log' = Append(log, e)
      /\ [bucket |-> c, last_seen |-> now].bucket = c
  OBVIOUS
<1> HIDE DEF b, c, e, B
<1>5. /\ DOMAIN peers' = DOMAIN f /\ peers'[p].bucket = c
      /\ \A q \in DOMAIN f : q # p => peers'[q] = f[q]
  BY <1>4, Zenon
<1>6. n \in Nat /\ log' \in Seq(Admission) /\ Len(log') = n + 1 /\ log'[n + 1] = e
      /\ \A i \in 1 .. n : log'[i] = log[i]
  BY SMTT(30), <1>3, <1>4, AppendProperties, LenProperties
<1>7. B \in Nat /\ PeerRate \in Nat /\ Scale \in Nat
  BY Zenon, ConstantFacts DEF B
<1>c. ASSUME NEW q, NEW i \in 1 .. n + 1
       PROVE  /\ \A j \in 1 .. n : Count(log', q, i, j) = Count(log, q, i, j)
              /\ Count(log, q, i, n) \in Nat
              /\ Count(log', q, i, n + 1) = Count(log, q, i, n) + IF e.peer = q THEN 1 ELSE 0
              /\ i = n + 1 => Count(log, q, i, n) = 0
  BY ONLY <1>4, <1>c, CountAppend, log \in Seq(Admission)
<1> HIDE DEF n
<1> DEFINE Fine(q, i) ==
             IF q \in DOMAIN peers'
             THEN Count(log', q, i, n + 1) * Scale + peers'[q].bucket.tokens
                    <= B + PeerRate * (peers'[q].bucket.last_refill - log'[i].peerAt)
             ELSE Count(log', q, i, n + 1) * Scale <= PeerRate * (clock - MaxWait - log'[i].peerAt)
<1>8. ASSUME Lasting, NEW i \in 1 .. n PROVE Fine(log[i].peer, i)
  <2> DEFINE q == log[i].peer
             N == Count(log, q, i, n)
             w == log[i].peerAt
  <2>1. Account(f, q, i)
    BY <1>8, Zenon DEF Accounts, n
  <2>2. log'[i] = log[i] /\ w \in Nat /\ i \in 1 .. n + 1
    BY <1>6, AdmissionFields DEF n
  <2>3. N \in Nat /\ Count(log', q, i, n + 1) = N + IF e.peer = q THEN 1 ELSE 0
    BY <2>2, <1>c, Zenon
  <2>4. /\ q \in DOMAIN f => N * Scale + f[q].bucket.tokens <= B + PeerRate * (f[q].bucket.last_refill - w)
        /\ q \notin DOMAIN f => N * Scale <= PeerRate * (clock - MaxWait - w)
    BY <2>1, Zenon DEF Account, Admitted, Count, n, B
  <2>5. log'[i].peerAt = w
    BY <2>2, Zenon
  <2> HIDE DEF q, N, w
  <2>6. ASSUME q = p PROVE Fine(q, i)
    <3> DEFINE R == B + PeerRate * (b.last_refill - w)
    <3>1. Count(log', q, i, n + 1) = N + 1
      BY <1>3, <2>3, <2>6, Zenon
    <3>2. N * Scale + b.tokens <= R
      BY <2>4, <2>6, Zenon DEF b
    <3>3. R \in Int
      BY ONLY SMTT(30), <1>1, <1>7, <2>2
    <3> HIDE DEF R
    <3>4. (N + 1) * Scale + (b.tokens - Scale) <= R
      BY Zenon, <1>1, <1>2, <2>3, <3>2, <3>3, Pays
    <3>5. peers'[q].bucket.tokens = b.tokens - Scale /\ peers'[q].bucket.last_refill = b.last_refill
      BY <1>2, <1>5, <2>6, Zenon
    <3>6. q \in DOMAIN peers'
      BY <1>5, <2>6, Zenon
    <3> QED BY <2>5, <3>1, <3>4, <3>5, <3>6, Zenon DEF R
  <2>7. ASSUME q # p PROVE Fine(q, i)
    <3>1. Count(log', q, i, n + 1) = N
      <4>1. Count(log', q, i, n + 1) = N + 0
        BY <1>3, <2>3, <2>7, Zenon
      <4> QED BY <2>3, <4>1
    <3>2. q \in DOMAIN peers' <=> q \in DOMAIN f
      BY <1>5, Zenon
    <3>3. q \in DOMAIN f => peers'[q] = f[q]
      BY <1>5, <2>7, Zenon
    <3> QED BY <2>4, <2>5, <3>1, <3>2, <3>3, Zenon
  <2> QED BY <2>6, <2>7, Zenon DEF q
<1>9. Fine(p, n + 1)
  <2>1. log'[n + 1].peerAt = b.last_refill
    BY <1>3, <1>6, Zenon
  <2>2. Count(log', p, n + 1, n + 1) = 1
    <3>1. n + 1 \in 1 .. n + 1
      BY <1>6
    <3>2. /\ Count(log', p, n + 1, n + 1) = Count(log, p, n + 1, n) + 1
          /\ Count(log, p, n + 1, n) = 0
      BY <1>3, <3>1, <1>c, Zenon
    <3> QED BY SMTT(30), <3>2
  <2>3. peers'[p].bucket.tokens = b.tokens - Scale /\ peers'[p].bucket.last_refill = b.last_refill
    BY <1>2, <1>5, Zenon
  <2>4. 1 * Scale + (b.tokens - Scale) <= B + PeerRate * (b.last_refill - b.last_refill)
    <3>1. b.last_refill - b.last_refill = 0
      BY SMTT(30), <1>1
    <3>2. PeerRate * 0 = 0 /\ 1 * Scale = Scale
      BY SMTT(30), <1>7
    <3>3. Scale + (b.tokens - Scale) <= B + 0
      BY <1>1, <1>7
    <3> QED BY <3>1, <3>2, <3>3, Zenon
  <2> QED BY <1>5, <2>1, <2>2, <2>3, <2>4, Zenon
<1>10. ASSUME Lasting, NEW i \in 1 .. n + 1 PROVE Fine(log'[i].peer, i)
  <2>1. CASE i = n + 1
    BY <1>3, <1>6, <1>9, <2>1, Zenon
  <2>2. CASE i # n + 1
    <3>1. i \in 1 .. n
      BY SMTT(30), <1>6, <1>10, <2>2
    <3> QED BY <1>6, <1>8, <1>10, <3>1, Zenon
  <2> QED BY <2>1, <2>2, Zenon
<1>11. Lasting' <=> Lasting
  BY DEF Lasting
<1>12. Accounts(peers)'
  <2> SUFFICES ASSUME Lasting', NEW i \in 1 .. Len(log') PROVE Account(peers, log[i].peer, i)'
    BY Zenon DEF Accounts
  <2>1. Fine(log'[i].peer, i)
    BY <1>6, <1>10, <1>11, Zenon
  <2>2. clock' = clock /\ Len(log') = n + 1
    BY <1>6
  <2> QED BY <2>1, <2>2, Zenon DEF Account, Admitted, Count, B
<1>13. PeerWindowBound'
  <2> SUFFICES ASSUME Lasting, NEW i \in 1 .. n + 1, NEW j \in 1 .. n + 1, i <= j,
                      log'[i].peer = log'[j].peer
               PROVE  Count(log', log'[i].peer, i, j) * Scale
                        <= B + PeerRate * (log'[j].peerAt - log'[i].peerAt)
    BY <1>6, <1>11, Zenon DEF PeerWindowBound, Admitted, Count, B, Lasting
  <2> DEFINE q == log'[i].peer
  <2>1. CASE j = n + 1
    <3>1. q = p /\ log'[j].peerAt = b.last_refill
      BY <1>3, <1>6, <2>1, Zenon
    <3>2. q \in DOMAIN peers' /\ peers'[q].bucket.last_refill = b.last_refill
          /\ peers'[q].bucket.tokens = b.tokens - Scale
      BY <1>2, <1>5, <3>1, Zenon
    <3>3. Fine(q, i)
      BY <1>10, Zenon
    <3> DEFINE K == Count(log', q, i, n + 1) * Scale
               R == B + PeerRate * (b.last_refill - log'[i].peerAt)
    <3>4. K + (b.tokens - Scale) <= R
      BY <3>2, <3>3, Zenon
    <3>5. K \in Nat /\ R \in Int
      <4>1. log'[i].peerAt \in Nat
        <5>1. log'[i] \in Admission
          BY ONLY Zenon, <1>6, i \in 1 .. n + 1, ElementOfSeq
        <5> QED BY ONLY Zenon, <5>1 DEF Admission
      <4>2. Count(log', q, i, n + 1) \in Nat
        <5>1. Count(log', q, i, n + 1) = Count(log, q, i, n) + 1 /\ Count(log, q, i, n) \in Nat
          BY <1>3, <1>c, <3>1, Zenon
        <5> QED BY ONLY <5>1
      <4> QED BY ONLY SMTT(30), <1>1, <1>7, <4>1, <4>2
    <3> HIDE DEF K, R
    <3>6. K <= R
      BY ONLY SMTT(30), <1>1, <1>2, <1>7, <3>4, <3>5
    <3> QED BY <2>1, <3>1, <3>6, Zenon DEF K, R
  <2>2. CASE j # n + 1
    <3>1. i \in 1 .. n /\ j \in 1 .. n
      BY <1>6, <2>2
    <3>2. log'[i] = log[i] /\ log'[j] = log[j]
      BY <1>6, <3>1, Zenon
    <3>3. Count(log', q, i, j) = Count(log, q, i, j)
      BY <1>c, <3>1, Zenon
    <3>4. Count(log, log[i].peer, i, j) * Scale <= B + PeerRate * (log[j].peerAt - log[i].peerAt)
      <4>1. log[i].peer = log[j].peer
        BY <3>2, Zenon
      <4> QED BY <3>1, <4>1, Zenon DEF PeerWindowBound, Admitted, Count, B, Lasting, n
    <3> QED BY <3>2, <3>3, <3>4, Zenon
  <2> QED BY <2>1, <2>2, Zenon
<1> QED BY <1>6, <1>12, <1>13, Zenon

\* A refill is covered by the time it stands for.
LEMMA CoveredRefill ==
  ASSUME NEW s \in Seq(Admission), NEW b, NEW c \in Nat, Holds(b, GlobalRate, GlobalBurst, c),
         NEW now \in Nat, now <= c, Covered(s, b)
  PROVE  Covered(s, Refill(b, now))
<1> DEFINE d == Refill(b, now)
           B == GlobalBurst * Scale
<1>1. /\ Holds(d, GlobalRate, GlobalBurst, c)
      /\ d.tokens <= b.tokens + GlobalRate * (d.last_refill - b.last_refill)
  BY RefillFacts, ConstantFacts, Zenon
<1>2. b.tokens \in Nat /\ b.last_refill \in Nat /\ d.tokens \in Nat /\ d.last_refill \in Nat
  <2>1. b \in Bucket /\ d \in Bucket
    BY <1>1, Zenon DEF Holds
  <2> QED BY <2>1, BucketFields, Zenon
<1>3. B \in Nat /\ GlobalRate \in Nat /\ Scale \in Nat
  BY ConstantFacts, Zenon
<1> HIDE DEF d, B
<1> SUFFICES ASSUME NEW i \in 1 .. Len(s)
             PROVE  (Len(s) - i + 1) * Scale + d.tokens <= B + GlobalRate * (d.last_refill - s[i].at)
  BY Zenon DEF Covered, d, B
<1>4. (Len(s) - i + 1) * Scale + b.tokens <= B + GlobalRate * (b.last_refill - s[i].at)
  BY Zenon DEF Covered, B
<1>5. s[i].at \in Nat /\ Len(s) - i + 1 \in Nat
  <2>1. s[i] \in Admission /\ Len(s) \in Nat
    BY ONLY s \in Seq(Admission), i \in 1 .. Len(s), ElementOfSeq, LenProperties
  <2> QED BY ONLY SMTT(30), <2>1, i \in 1 .. Len(s) DEF Admission
<1> DEFINE K == (Len(s) - i + 1) * Scale
           u == d.last_refill
           v == b.last_refill
           w == s[i].at
           x == u - v
           y == v - w
           z == u - w
<1>6. K \in Nat /\ u \in Nat /\ v \in Nat /\ w \in Nat
  <2> DEFINE m == Len(s) - i + 1
  <2>1. m \in Nat
    BY <1>5, Zenon
  <2> HIDE DEF m
  <2>2. m * Scale \in Nat
    BY ONLY <1>3, <2>1
  <2> QED BY <1>2, <1>5, <2>2, Zenon DEF m
<1> HIDE DEF K, u, v, w
<1>7. x \in Int /\ y \in Int /\ z \in Int /\ z = x + y
  BY ONLY <1>6
<1> HIDE DEF x, y, z
<1>8. GlobalRate * z = GlobalRate * x + GlobalRate * y /\ GlobalRate * x \in Int /\ GlobalRate * y \in Int
  BY ONLY <1>3, <1>7, Distribute
<1> DEFINE X == GlobalRate * x
           Y == GlobalRate * y
           Z == GlobalRate * z
           p == b.tokens
           q == d.tokens
<1>9. K + p <= B + Y /\ q <= p + X /\ Z = X + Y /\ X \in Int /\ Y \in Int /\ p \in Nat /\ q \in Nat
  BY <1>1, <1>2, <1>4, <1>8, Zenon DEF K, x, y, u, v, w
<1> HIDE DEF X, Y, Z, p, q
<1>10. K + q <= B + Z
  BY ONLY <1>3, <1>6, <1>9
<1> QED BY <1>10, Zenon DEF K, q, Z, z, u, w

\* A token pays for an admission.
LEMMA CoveredConsume ==
  ASSUME NEW s \in Seq(Admission), NEW b, NEW c \in Nat, Holds(b, GlobalRate, GlobalBurst, c),
         ~Spent(b), Covered(s, b), NEW e \in Admission, e.at = b.last_refill, Window(s)
  PROVE  Covered(Append(s, e), Consume(b)) /\ Window(Append(s, e))
<1> DEFINE d == Consume(b)
           B == GlobalBurst * Scale
           r == Append(s, e)
           n == Len(s)
<1>1. d.tokens = b.tokens - Scale /\ d.last_refill = b.last_refill
  BY ConsumeFacts, Zenon
<1>2. b.tokens \in Nat /\ b.last_refill \in Nat /\ b.tokens <= B
  <2>1. b \in Bucket /\ b.tokens <= B
    BY Zenon DEF Holds
  <2> QED BY <2>1, BucketFields, Zenon
<1>3. B \in Nat /\ GlobalRate \in Nat /\ Scale \in Nat
  BY ConstantFacts, Zenon
<1>4. Scale <= b.tokens
  <2>1. ~(b.tokens < Scale)
    BY Zenon DEF Spent
  <2> QED BY ONLY <1>2, <1>3, <2>1
<1>5. n \in Nat /\ r \in Seq(Admission) /\ Len(r) = n + 1 /\ r[n + 1] = e /\ \A i \in 1 .. n : r[i] = s[i]
  BY ONLY s \in Seq(Admission), e \in Admission, AppendProperties, LenProperties
<1> HIDE DEF d, B, r
<1>6. ASSUME NEW i \in 1 .. n + 1
      PROVE  ((n + 1) - i + 1) * Scale + d.tokens <= B + GlobalRate * (d.last_refill - r[i].at)
  <2> DEFINE R == B + GlobalRate * (b.last_refill - r[i].at)
             N == n - i + 1
  <2>1. r[i].at \in Nat /\ i \in Nat
    <3>1. r[i] \in Admission
      BY ONLY Zenon, <1>5, <1>6, ElementOfSeq
    <3> QED BY ONLY SMTT(30), <3>1, <1>6 DEF Admission
  <2>2. R \in Int /\ N \in Nat
    BY ONLY SMTT(30), <1>2, <1>3, <1>5, <1>6, <2>1
  <2>3. N * Scale + b.tokens <= R
    <3>1. CASE i = n + 1
      <4>1. R = B + GlobalRate * (b.last_refill - b.last_refill) /\ N = 0
        <5>1. r[i].at = b.last_refill
          BY <1>5, <3>1, Zenon
        <5>2. n - (n + 1) + 1 = 0
          BY ONLY <1>5
        <5> QED BY <3>1, <5>1, <5>2, Zenon
      <4>2. GlobalRate * (b.last_refill - b.last_refill) = 0 /\ 0 * Scale = 0
        BY ONLY <1>2, <1>3
      <4> HIDE DEF R, N
      <4> QED BY ONLY <1>2, <1>3, <4>1, <4>2
    <3>2. CASE i # n + 1
      <4>1. i \in 1 .. n
        BY ONLY <1>5, <1>6, <3>2
      <4>2. r[i] = s[i]
        BY <1>5, <4>1, Zenon
      <4> QED BY <4>1, <4>2, Zenon DEF Covered, B
    <3> QED BY <3>1, <3>2, Zenon
  <2>4. N + 1 = (n + 1) - i + 1
    BY ONLY <1>5, <2>1
  <2> HIDE DEF R, N
  <2>5. (N + 1) * Scale + (b.tokens - Scale) <= R
    BY ONLY Zenon, <1>2, <1>4, <2>2, <2>3, Pays
  <2> QED BY <1>1, <2>4, <2>5, Zenon DEF R
<1>7. ASSUME NEW i \in 1 .. n + 1, NEW j \in 1 .. n + 1, i <= j
      PROVE  (j - i + 1) * Scale <= B + GlobalRate * (r[j].at - r[i].at)
  <2>1. CASE j = n + 1
    <3> DEFINE R == B + GlobalRate * (b.last_refill - r[i].at)
               K == ((n + 1) - i + 1) * Scale
    <3>1. K + (b.tokens - Scale) <= R
      BY <1>1, <1>6, Zenon
    <3>2. r[i].at \in Nat /\ i \in Nat
      <4>1. r[i] \in Admission
        BY ONLY <1>5, <1>7, ElementOfSeq
      <4> QED BY ONLY SMTT(30), <4>1, <1>7 DEF Admission
    <3>3. R \in Int /\ K \in Nat
      <4> DEFINE m == (n + 1) - i + 1
      <4>1. m \in Nat
        BY ONLY <1>5, <1>7
      <4> HIDE DEF m
      <4>2. m * Scale \in Nat
        BY ONLY SMTT(30), <1>3, <4>1
      <4>3. R \in Int
        BY ONLY SMTT(30), <1>2, <1>3, <3>2
      <4> QED BY <4>2, <4>3, Zenon DEF m
    <3> HIDE DEF R, K
    <3>4. K <= R
      BY ONLY SMTT(30), <1>2, <1>3, <1>4, <3>1, <3>3
    <3>5. r[j].at = b.last_refill
      BY <1>5, <2>1, Zenon
    <3>6. (j - i + 1) * Scale = K
      BY ONLY <2>1 DEF K
    <3> QED BY <3>4, <3>5, <3>6, Zenon DEF R
  <2>2. CASE j # n + 1
    <3>1. i \in 1 .. n /\ j \in 1 .. n
      BY ONLY <1>5, <1>7, <2>2
    <3>2. r[i] = s[i] /\ r[j] = s[j]
      BY <1>5, <3>1, Zenon
    <3> QED BY <1>7, <3>1, <3>2, Zenon DEF Window, B
  <2> QED BY <2>1, <2>2, Zenon
<1> HIDE DEF n
<1>8. Covered(r, d)
  <2>1. n + 1 = Len(r)
    BY <1>5, Zenon
  <2> DEFINE m == n + 1
  <2>2. \A i \in 1 .. m : (m - i + 1) * Scale + d.tokens <= B + GlobalRate * (d.last_refill - r[i].at)
    BY <1>6, Zenon
  <2>3. m = Len(r)
    BY <2>1
  <2> HIDE DEF m
  <2> QED BY <2>2, <2>3, Zenon DEF Covered, B
<1>9. Window(r)
  BY <1>5, <1>7, Zenon DEF Window, B
<1> QED BY <1>8, <1>9, Zenon DEF r, d

\* A stamp a call may wait with.
Stamp(now) == now \in Nat /\ clock - MaxWait <= now /\ now <= clock

\* The table a request decides with is in order.
LEMMA LookupKept ==
  ASSUME CallInv, log \in Seq(Admission), Kept(peers, order), NEW p, NEW now, Stamp(now)
  PROVE  Kept(Lookup(p, now).peers, Lookup(p, now).order)
<1>1. CASE p \in DOMAIN peers
  <2>1. Lookup(p, now).peers = peers /\ Lookup(p, now).order = order
    BY <1>1 DEF Lookup
  <2> QED BY <2>1, Zenon
<1>2. CASE p \notin DOMAIN peers
  <2>1. Lookup(p, now).peers = CleanedPeers(now) /\ Lookup(p, now).order = CleanedOrder(now)
    BY <1>2 DEF Lookup
  <2>2. TableOK(CleanedPeers(now)) /\ DOMAIN CleanedPeers(now) = DOMAIN peers \ Expired(now)
    BY CleanedTable, Zenon DEF Kept
  <2>3. /\ OrderOK(CleanedOrder(now), DOMAIN CleanedPeers(now))
        /\ Len(CleanedOrder(now)) <= Len(order)
    BY <2>2, CleanedFacts, Zenon DEF Kept
  <2>4. Len(CleanedOrder(now)) <= MaxTrackedIps
    <3>1. CleanedOrder(now) \in Seq(Peers) /\ order \in Seq(Peers) /\ Len(order) <= MaxTrackedIps
      BY <2>3, Zenon DEF Kept, OrderOK
    <3>2. Len(CleanedOrder(now)) \in Nat /\ Len(order) \in Nat /\ MaxTrackedIps \in Nat
      BY <3>1, LenProperties, ConstantFacts, Zenon
    <3> QED BY ONLY <2>3, <3>1, <3>2
  <2>5. Accounts(CleanedPeers(now))
    BY CleanedAccounts, Zenon DEF Kept, Stamp, CallInv
  <2> QED BY <2>1, <2>2, <2>3, <2>4, <2>5, Zenon DEF Kept
<1> QED BY <1>1, <1>2, Zenon

\* The table with an entry for p, and the order that goes with it.
With(f, p, now) == IF p \in DOMAIN f THEN f ELSE Insert(f, p, now)
Queue(q, f, p) == IF p \in DOMAIN f THEN q ELSE Append(q, p)

\* An entry is added only where there is room for it.
LEMMA WithKept ==
  ASSUME clock \in Nat, log \in Seq(Admission), NEW f, NEW q, Kept(f, q), NEW p \in Peers,
         NEW now, Stamp(now), p \in DOMAIN f \/ Cardinality(DOMAIN f) < MaxTrackedIps
  PROVE  Kept(With(f, p, now), Queue(q, f, p)) /\ p \in DOMAIN With(f, p, now)
<1>1. CASE p \in DOMAIN f
  BY <1>1, Zenon DEF With, Queue
<1>2. CASE p \notin DOMAIN f
  <2>1. With(f, p, now) = Insert(f, p, now) /\ Queue(q, f, p) = Append(q, p)
    BY <1>2, Zenon DEF With, Queue
  <2>2. now \in Nat /\ now <= clock /\ clock - MaxWait <= now /\ TableOK(f) /\ Accounts(f)
        /\ OrderOK(q, DOMAIN f)
    BY Zenon DEF Stamp, Kept
  <2>3. TableOK(Insert(f, p, now)) /\ DOMAIN Insert(f, p, now) = DOMAIN f \cup {p}
    BY ONLY InsertTable, <1>2, <2>2, clock \in Nat, p \in Peers, Zenon
  <2>4. Accounts(Insert(f, p, now))
    BY ONLY InsertAccounts, <1>2, <2>2, clock \in Nat, p \in Peers, log \in Seq(Admission), Zenon
  <2>5. OrderOK(Append(q, p), DOMAIN f \cup {p}) /\ Len(Append(q, p)) = Len(q) + 1
    BY <1>2, <2>2, OrderAppend, Zenon
  <2>6. Len(Append(q, p)) <= MaxTrackedIps
    <3>1. Cardinality(DOMAIN f) = Len(q)
      BY <2>2, ListedOnce, Zenon
    <3>2. Len(q) \in Nat /\ MaxTrackedIps \in Nat
      BY <2>2, LenProperties, ConstantFacts, Zenon DEF OrderOK
    <3>3. Len(q) < MaxTrackedIps
      BY <1>2, <3>1, Zenon
    <3> QED BY ONLY <2>5, <3>2, <3>3
  <2>7. p \in DOMAIN f \cup {p}
    OBVIOUS
  <2> QED BY <2>1, <2>3, <2>4, <2>5, <2>6, <2>7, Zenon DEF Kept
<1> QED BY <1>1, <1>2, Zenon

\* The entry of p is refilled and seen.
Seen(f, p, now) == [f EXCEPT ![p] = [bucket |-> Refill(f[p].bucket, now), last_seen |-> now]]

LEMMA SeenKept ==
  ASSUME clock \in Nat, log \in Seq(Admission), NEW f, NEW q, Kept(f, q), NEW p \in DOMAIN f,
         NEW now, Stamp(now)
  PROVE  /\ Kept(Seen(f, p, now), q) /\ DOMAIN Seen(f, p, now) = DOMAIN f
         /\ Seen(f, p, now)[p].bucket = Refill(f[p].bucket, now)
         /\ Holds(Refill(f[p].bucket, now), PeerRate, PeerBurst, clock)
<1> DEFINE b == Refill(f[p].bucket, now)
           g == Seen(f, p, now)
<1>1. now \in Nat /\ now <= clock /\ clock - MaxWait <= now /\ TableOK(f) /\ Accounts(f)
  BY Zenon DEF Stamp, Kept
<1>2. Holds(f[p].bucket, PeerRate, PeerBurst, clock)
  BY <1>1, EntryFields, Zenon
<1>3. Holds(b, PeerRate, PeerBurst, clock)
  BY ONLY <1>1, <1>2, clock \in Nat, RefillFacts, ConstantFacts, Zenon
<1>4. TableOK(g)
  BY ONLY <1>1, <1>3, clock \in Nat, p \in DOMAIN f, RefillTable, Zenon DEF Seen
<1>5. Accounts(g)
  BY ONLY <1>1, clock \in Nat, p \in DOMAIN f, log \in Seq(Admission), RefillAccounts, Zenon DEF Seen
<1>6. DOMAIN g = DOMAIN f /\ g[p].bucket = b
  BY DEF Seen
<1> HIDE DEF g, b
<1>7. Kept(g, q)
  BY <1>4, <1>5, <1>6, Zenon DEF Kept
<1> QED BY <1>3, <1>6, <1>7, Zenon DEF g, b

LEMMA TableNext ==
  ASSUME UNCHANGED clock, NEW f, TableOK(f), peers' = f
  PROVE  TableOK(peers)'
BY Zenon DEF TableOK, Holds

LEMMA KeptNext ==
  ASSUME UNCHANGED <<clock, idleTtl, log>>, NEW f, NEW q, Kept(f, q), peers' = f, order' = q
  PROVE  Kept(peers, order)'
<1>1. clock' = clock /\ idleTtl' = idleTtl /\ log' = log
  OBVIOUS
<1>2. TableOK(peers)'
  BY <1>1, TableNext, Zenon DEF Kept
<1>3. OrderOK(order, DOMAIN peers)' /\ (Len(order) <= MaxTrackedIps)'
  BY Zenon DEF Kept, OrderOK
<1>4. Accounts(peers)'
  BY <1>1, Zenon DEF Kept, Accounts, Account, Lasting, Admitted
<1> QED BY <1>2, <1>3, <1>4, Zenon DEF Kept

\* A rejection states the bucket's exact retry time.
LEMMA RejectExact ==
  ASSUME NEW b, NEW rate \in Nat \ {0}, NEW burst, NEW c, Holds(b, rate, burst, c), Spent(b), Reject(b)
  PROVE  RetryAfterExact'
<1>1. /\ b.tokens + RetryAfter(b) * b.rate >= Scale
      /\ b.tokens + (RetryAfter(b) - 1) * b.rate < Scale
  BY RetryFacts, Zenon
<1>2. verdict'.tokens = b.tokens /\ verdict'.rate = b.rate /\ verdict'.retry = RetryAfter(b)
  BY DEF Reject
<1> QED BY <1>1, <1>2, Zenon DEF RetryAfterExact

LEMMA SilentExact ==
  ASSUME verdict' = NoVerdict PROVE RetryAfterExact'
<1>1. ~verdict'.spent
  BY DEF NoVerdict
<1> QED BY <1>1, Zenon DEF RetryAfterExact

\* The windows do not change while the log does not.
LEMMA WindowsNext ==
  ASSUME UNCHANGED <<idleTtl, log>>, PeerWindowBound PROVE PeerWindowBound'
<1>1. idleTtl' = idleTtl /\ log' = log
  OBVIOUS
<1> QED BY <1>1, Zenon DEF PeerWindowBound, Admitted

\* A call that enters has a fresh enough stamp.
LEMMA CallStamp ==
  ASSUME CallInv, NEW t \in Threads, call[t] # NoCall
  PROVE  call[t].peer \in Peers /\ Stamp(call[t].at)
<1>1. call[t] \in Request /\ clock - MaxWait <= call[t].at /\ call[t].at <= clock
  BY Zenon DEF CallInv
<1>2. call[t].peer \in Peers /\ call[t].at \in Nat
  BY <1>1 DEF Request
<1> QED BY <1>1, <1>2, Zenon DEF Stamp

LEMMA CallReturns ==
  ASSUME CallInv, NEW t \in Threads, call' = [call EXCEPT ![t] = NoCall], UNCHANGED <<clock, idleTtl>>
  PROVE  CallInv'
<1>1. clock' = clock /\ idleTtl' = idleTtl
  OBVIOUS
<1>2. DOMAIN call' = Threads /\ call'[t] = NoCall /\ \A u \in Threads : u # t => call'[u] = call[u]
  BY Zenon DEF CallInv
<1> QED BY <1>1, <1>2, Zenon DEF CallInv

\* The four ways a call ends, on the tables named above.
LEMMA AdmitCases ==
  ASSUME NEW t, Admit(t)
  PROVE  LET p == call[t].peer
             now == call[t].at
             g == Refill(global, now)
             f == Lookup(p, now).peers
             q == Lookup(p, now).order
             w == With(f, p, now)
             b == Refill(w[p].bucket, now)
             room == p \in DOMAIN f \/ Cardinality(DOMAIN f) < MaxTrackedIps
         IN  /\ call[t] # NoCall /\ call' = [call EXCEPT ![t] = NoCall]
             /\ UNCHANGED <<clock, idleTtl>>
             /\ \/ Spent(g) /\ global' = g /\ Reject(g) /\ UNCHANGED <<peers, order, log>>
                \/ /\ global' = g /\ peers' = f /\ order' = q
                   /\ verdict' = NoVerdict /\ UNCHANGED log
                \/ /\ room /\ global' = g /\ order' = Queue(q, f, p) /\ peers' = Seen(w, p, now)
                   /\ Spent(b) /\ Reject(b) /\ UNCHANGED log
                \/ /\ room /\ ~Spent(g) /\ ~Spent(b)
                   /\ global' = Consume(g) /\ order' = Queue(q, f, p)
                   /\ peers' = [w EXCEPT ![p] = [bucket |-> Consume(b), last_seen |-> now]]
                   /\ verdict' = NoVerdict
                   /\ log' = Append(log, [peer |-> p, at |-> g.last_refill, peerAt |-> b.last_refill])
BY Zenon DEF Admit, With, Queue, Seen

\* A call under the mutex keeps the accounts.
LEMMA AdmitKeeps ==
  ASSUME RateInv, NEW t \in Threads, Admit(t)
  PROVE  RateInv'
<1> DEFINE p == call[t].peer
           now == call[t].at
           g == Refill(global, now)
           f == Lookup(p, now).peers
           q == Lookup(p, now).order
           w == With(f, p, now)
           b == Refill(w[p].bucket, now)
           s == Seen(w, p, now)
           room == p \in DOMAIN f \/ Cardinality(DOMAIN f) < MaxTrackedIps
           e == [peer |-> p, at |-> g.last_refill, peerAt |-> b.last_refill]
           Spends == Spent(g) /\ global' = g /\ Reject(g) /\ UNCHANGED <<peers, order, log>>
           Full == /\ global' = g /\ peers' = f /\ order' = q
                   /\ verdict' = NoVerdict /\ UNCHANGED log
           Waits == /\ room /\ global' = g /\ order' = Queue(q, f, p) /\ peers' = s
                    /\ Spent(b) /\ Reject(b) /\ UNCHANGED log
           Enters == /\ room /\ ~Spent(g) /\ ~Spent(b)
                     /\ global' = Consume(g) /\ order' = Queue(q, f, p)
                     /\ peers' = [w EXCEPT ![p] = [bucket |-> Consume(b), last_seen |-> now]]
                     /\ verdict' = NoVerdict
                     /\ log' = Append(log, e)
<1>1. /\ call[t] # NoCall /\ call' = [call EXCEPT ![t] = NoCall] /\ UNCHANGED <<clock, idleTtl>>
      /\ Spends \/ Full \/ Waits \/ Enters
  BY AdmitCases, Zenon
<1>2. /\ CallInv /\ log \in Seq(Admission) /\ Holds(global, GlobalRate, GlobalBurst, clock)
      /\ Covered(log, global) /\ Window(log) /\ Kept(peers, order) /\ PeerWindowBound
      /\ clock \in Nat /\ idleTtl \in IdleTtls
  BY Zenon DEF RateInv, CallInv
<1>3. p \in Peers /\ Stamp(now) /\ now \in Nat /\ now <= clock
  BY <1>1, <1>2, CallStamp, Zenon DEF Stamp
<1> HIDE DEF p, now
<1>4. CallInv'
  BY <1>1, <1>2, CallReturns, Zenon
<1>5. GlobalRate \in Nat /\ GlobalBurst \in Nat /\ GlobalRate \in Nat \ {0} /\ PeerRate \in Nat \ {0}
  BY ConstantFacts
<1>6. Holds(g, GlobalRate, GlobalBurst, clock)
  BY ONLY <1>2, <1>3, <1>5, RefillFacts, Zenon
<1>7. Covered(log, g)
  BY ONLY <1>2, <1>3, CoveredRefill, Zenon
<1> HIDE DEF g
<1>8. Kept(f, q)
  BY <1>2, <1>3, LookupKept, Zenon
<1> HIDE DEF f, q
<1>9. ASSUME room
      PROVE  /\ Kept(w, Queue(q, f, p)) /\ p \in DOMAIN w
             /\ Kept(s, Queue(q, f, p)) /\ DOMAIN s = DOMAIN w /\ s[p].bucket = b
             /\ Holds(b, PeerRate, PeerBurst, clock)
  <2>1. Kept(w, Queue(q, f, p)) /\ p \in DOMAIN w
    BY ONLY <1>2, <1>3, <1>8, <1>9, WithKept, Zenon
  <2> HIDE DEF w
  <2>2. /\ Kept(s, Queue(q, f, p)) /\ DOMAIN s = DOMAIN w /\ s[p].bucket = b
        /\ Holds(b, PeerRate, PeerBurst, clock)
    BY ONLY <1>2, <1>3, <2>1, SeenKept, Zenon
  <2> QED BY <2>1, <2>2, Zenon
<1> HIDE DEF w, e
<1>10. clock' = clock /\ idleTtl' = idleTtl
  BY <1>1, Zenon
<1>11. ASSUME global' = g, UNCHANGED log
       PROVE  /\ (log \in Seq(Admission))' /\ Holds(global, GlobalRate, GlobalBurst, clock)'
              /\ Covered(log, global)' /\ Window(log)' /\ PeerWindowBound'
  <2>1. PeerWindowBound'
    BY <1>2, <1>10, <1>11, WindowsNext, Zenon
  <2> QED BY <1>2, <1>6, <1>7, <1>10, <1>11, <2>1, Zenon DEF Holds, Covered, Window
<1>12. ASSUME Spends PROVE RateInv'
  <2>1. RetryAfterExact'
    BY <1>5, <1>6, <1>12, RejectExact, Zenon
  <2>2. peers' = peers /\ order' = order /\ log' = log /\ global' = g
    BY <1>12, Zenon
  <2>3. Kept(peers, order)'
    BY <1>2, <1>10, <2>2, KeptNext, Zenon
  <2> QED BY <1>4, <1>11, <2>1, <2>2, <2>3, Zenon DEF RateInv
<1>13. ASSUME Full PROVE RateInv'
  <2>1. RetryAfterExact'
    BY <1>13, SilentExact, Zenon
  <2>2. peers' = f /\ order' = q /\ log' = log /\ global' = g
    BY <1>13, Zenon
  <2>3. Kept(peers, order)'
    BY <1>8, <1>10, <2>2, KeptNext, Zenon
  <2> QED BY <1>4, <1>11, <2>1, <2>2, <2>3, Zenon DEF RateInv
<1>14. ASSUME Waits PROVE RateInv'
  <2>1. /\ Kept(s, Queue(q, f, p)) /\ Holds(b, PeerRate, PeerBurst, clock)
    BY <1>9, <1>14, Zenon
  <2>2. RetryAfterExact'
    BY <1>5, <1>14, <2>1, RejectExact, Zenon
  <2>3. peers' = s /\ order' = Queue(q, f, p) /\ log' = log /\ global' = g
    BY <1>14, Zenon
  <2>4. Kept(peers, order)'
    BY <1>10, <2>1, <2>3, KeptNext, Zenon
  <2> QED BY <1>4, <1>11, <2>2, <2>3, <2>4, Zenon DEF RateInv
<1>15. ASSUME Enters PROVE RateInv'
  <2>1. /\ Kept(s, Queue(q, f, p)) /\ p \in DOMAIN w /\ DOMAIN s = DOMAIN w /\ s[p].bucket = b
        /\ Holds(b, PeerRate, PeerBurst, clock)
    BY <1>9, <1>15, Zenon
  <2>2. /\ ~Spent(g) /\ ~Spent(b) /\ global' = Consume(g) /\ order' = Queue(q, f, p)
        /\ peers' = [w EXCEPT ![p] = [bucket |-> Consume(b), last_seen |-> now]]
        /\ verdict' = NoVerdict /\ log' = Append(log, e)
    BY <1>15, Zenon
  <2>3. RetryAfterExact'
    BY <2>2, SilentExact, Zenon
  <2>4. g \in Bucket /\ g.last_refill \in Nat /\ b \in Bucket /\ b.last_refill \in Nat
    <3>1. g \in Bucket /\ b \in Bucket
      BY <1>6, <2>1, Zenon DEF Holds
    <3> QED BY <3>1, BucketFields, Zenon
  <2> HIDE DEF b
  <2>5. e \in Admission /\ e.at = g.last_refill
    BY ONLY <1>3, <2>4 DEF e, Admission
  <2>6. Covered(Append(log, e), Consume(g)) /\ Window(Append(log, e))
    BY ONLY <1>2, <1>6, <1>7, <2>2, <2>5, CoveredConsume, Zenon
  <2>7. Holds(Consume(g), GlobalRate, GlobalBurst, clock)
    BY ONLY <1>2, <1>6, <2>2, ConsumeFacts, Zenon
  <2>8. /\ Holds(global, GlobalRate, GlobalBurst, clock)' /\ Covered(log, global)' /\ Window(log)'
    BY <1>10, <2>2, <2>6, <2>7, Zenon DEF Holds, Covered, Window
  <2>9. peers' = [s EXCEPT ![p] = [bucket |-> Consume(b), last_seen |-> now]]
    <3>1. s = [w EXCEPT ![p] = [bucket |-> b, last_seen |-> now]]
      BY Zenon DEF Seen, b
    <3>2. [w EXCEPT ![p] = [bucket |-> Consume(b), last_seen |-> now]]
            = [[w EXCEPT ![p] = [bucket |-> b, last_seen |-> now]]
                 EXCEPT ![p] = [bucket |-> Consume(b), last_seen |-> now]]
      <4> DEFINE x == [bucket |-> Consume(b), last_seen |-> now]
                 y == [bucket |-> b, last_seen |-> now]
      <4> HIDE DEF x, y
      <4>1. [w EXCEPT ![p] = x] = [[w EXCEPT ![p] = y] EXCEPT ![p] = x]
        BY Zenon
      <4> QED BY <4>1, Zenon DEF x, y
    <3> QED BY <2>2, <3>1, <3>2, Zenon
  <2> HIDE DEF s
  <2>10. TableOK(s) /\ Accounts(s) /\ OrderOK(Queue(q, f, p), DOMAIN s)
         /\ Len(Queue(q, f, p)) <= MaxTrackedIps
    BY <2>1, Zenon DEF Kept
  <2>11. (log \in Seq(Admission))' /\ Accounts(peers)' /\ PeerWindowBound'
    <3>1. /\ ~Spent(s[p].bucket) /\ p \in DOMAIN s
          /\ log' = Append(log, [peer |-> p, at |-> g.last_refill, peerAt |-> s[p].bucket.last_refill])
          /\ peers' = [s EXCEPT ![p] = [bucket |-> Consume(s[p].bucket), last_seen |-> now]]
      BY <2>1, <2>2, <2>9, Zenon DEF e
    <3> QED BY ONLY <1>1, <1>2, <1>3, <2>4, <2>10, <3>1, AdmitAccounts, Zenon
  <2>12. TableOK(peers)'
    <3>1. Holds(Consume(b), PeerRate, PeerBurst, clock)
      BY ONLY <1>2, <2>1, <2>2, ConsumeFacts, Zenon
    <3> DEFINE h == [s EXCEPT ![p] = [bucket |-> Consume(b), last_seen |-> now]]
    <3>2. TableOK(h)
      <4>1. now \in Nat /\ clock - MaxWait <= now /\ now <= clock /\ p \in DOMAIN s
        BY <1>3, <2>1, Zenon DEF Stamp
      <4> QED BY ONLY <1>2, <2>10, <3>1, <4>1, RefillTable, Zenon
    <3> QED BY <1>10, <2>9, <3>2, TableNext, Zenon
  <2>13. OrderOK(order, DOMAIN peers)' /\ (Len(order) <= MaxTrackedIps)'
    <3>1. DOMAIN peers' = DOMAIN s
      BY <2>9, Zenon
    <3> QED BY <2>2, <2>10, <3>1, Zenon DEF OrderOK
  <2>14. Kept(peers, order)'
    BY <2>11, <2>12, <2>13, Zenon DEF Kept
  <2> QED BY <1>4, <2>3, <2>8, <2>11, <2>14, Zenon DEF RateInv
<1> QED BY <1>1, <1>12, <1>13, <1>14, <1>15, Zenon

\* Time passes: an untracked address earns its bucket back.
LEMMA TickKeeps ==
  ASSUME RateInv, Tick
  PROVE  RateInv'
<1>1. /\ CallInv /\ log \in Seq(Admission) /\ Holds(global, GlobalRate, GlobalBurst, clock)
      /\ Covered(log, global) /\ Window(log) /\ Kept(peers, order) /\ PeerWindowBound
      /\ clock \in Nat /\ idleTtl \in IdleTtls /\ DOMAIN call = Threads
      /\ TableOK(peers) /\ Accounts(peers) /\ OrderOK(order, DOMAIN peers) /\ Len(order) <= MaxTrackedIps
  BY Zenon DEF RateInv, CallInv, Kept
<1>2. /\ \A t \in Threads : call[t] = NoCall \/ clock - call[t].at < MaxWait
      /\ clock' = clock + 1 /\ verdict' = NoVerdict
      /\ idleTtl' = idleTtl /\ call' = call /\ global' = global /\ peers' = peers /\ order' = order
      /\ log' = log
  BY Zenon DEF Tick
<1>3. MaxWait \in Nat /\ PeerRate \in Nat /\ Scale \in Nat
  BY ConstantFacts
<1>4. CallInv'
  <2>1. ASSUME NEW t \in Threads, call[t] # NoCall
        PROVE  call[t] \in Request /\ clock' - MaxWait <= call[t].at /\ call[t].at <= clock'
    <3>1. call[t] \in Request /\ call[t].at <= clock
      BY <1>1, <2>1, Zenon DEF CallInv
    <3>2. call[t].at \in Nat
      BY ONLY <3>1 DEF Request
    <3>3. clock - call[t].at < MaxWait
      BY <1>2, <2>1
    <3>4. clock' = clock + 1 /\ clock \in Nat
      BY ZenonT(40), <1>1, <1>2
    <3> QED BY ONLY SMTT(30), <1>3, <3>1, <3>2, <3>3, <3>4
  <2>2. clock' \in Nat
    BY <1>1, <1>2
  <2> QED BY <1>1, <1>2, <2>1, <2>2, Zenon DEF CallInv
<1>5. ASSUME NEW b, NEW r, NEW c, Holds(b, r, c, clock) PROVE Holds(b, r, c, clock')
  <2>1. b.last_refill \in Nat /\ b.last_refill <= clock
    BY <1>5, BucketFields, Zenon DEF Holds
  <2>2. b.last_refill <= clock'
    BY ONLY SMTT(30), <1>1, <1>2, <2>1
  <2> QED BY <1>5, <2>2, Zenon DEF Holds
<1>6. Holds(global, GlobalRate, GlobalBurst, clock)'
  <2>1. Holds(global, GlobalRate, GlobalBurst, clock')
    BY <1>1, <1>5, Zenon
  <2> QED BY <1>2, <2>1, Zenon DEF Holds
<1>7. TableOK(peers)'
  <2>1. \A p \in DOMAIN peers : Holds(peers[p].bucket, PeerRate, PeerBurst, clock')
    BY <1>1, <1>5, Zenon DEF TableOK
  <2> QED BY <1>1, <1>2, <2>1, Zenon DEF TableOK, Holds
<1>8. Accounts(peers)'
  <2> SUFFICES ASSUME Lasting, NEW i \in 1 .. Len(log) PROVE Account(peers, log[i].peer, i)'
    BY <1>2, Zenon DEF Accounts, Lasting
  <2> DEFINE p == log[i].peer
             N == Admitted(p, i, Len(log))
             at == log[i].peerAt
  <2>1. Account(peers, p, i)
    BY <1>1, Zenon DEF Accounts
  <2>2. CASE p \in DOMAIN peers
    BY <1>2, <2>1, <2>2, Zenon DEF Account, Admitted
  <2>3. CASE p \notin DOMAIN peers
    <3>1. N * Scale <= PeerRate * (clock - MaxWait - at)
      BY <2>1, <2>3, Zenon DEF Account
    <3>2. N \in Nat /\ at \in Nat
      <4>1. i \in Nat /\ Len(log) \in Nat /\ log[i].peerAt \in Nat
        BY SMTT(30), <1>1, AdmissionFields, LenProperties
      <4> QED BY <4>1, AdmittedType, Zenon
    <3> DEFINE K == N * Scale
               y == clock - MaxWait - at
               z == clock' - MaxWait - at
    <3> HIDE DEF N, at
    <3>3. K \in Nat /\ y \in Int /\ z \in Int /\ y <= z
      BY ONLY SMTT(30), <1>1, <1>2, <1>3, <3>2
    <3> HIDE DEF K, y, z
    <3>4. PeerRate * y <= PeerRate * z /\ PeerRate * y \in Int /\ PeerRate * z \in Int
      BY ONLY SMTT(30), <1>3, <3>3, Monotone
    <3>5. K <= PeerRate * z
      <4>1. K <= PeerRate * y
        BY <3>1, Zenon DEF K, y
      <4> QED BY ONLY SMTT(30), <3>3, <3>4, <4>1
    <3>6. Admitted(log[i].peer, i, Len(log)) * Scale <= PeerRate * (clock' - MaxWait - log[i].peerAt)
      BY <3>5, Zenon DEF K, z, N, at
    <3> QED BY <1>2, <2>3, <3>6, Zenon DEF Account, Admitted
  <2> QED BY <2>2, <2>3, Zenon
<1>9. Kept(peers, order)'
  BY <1>1, <1>2, <1>7, <1>8 DEF Kept, OrderOK
<1>10. (log \in Seq(Admission))' /\ Covered(log, global)' /\ Window(log)'
  BY ZenonT(40), <1>1, <1>2 DEF Covered, Window
<1>11. PeerWindowBound'
  BY Zenon, <1>1, <1>2, WindowsNext
<1>12. RetryAfterExact'
  BY <1>2, SilentExact, Zenon
<1> QED BY <1>4, <1>6, <1>9, <1>10, <1>11, <1>12, Zenon DEF RateInv

\* A call reads the clock.
LEMMA CallKeeps ==
  ASSUME RateInv, NEW t \in Threads, NEW p \in Peers, Call(t, p)
  PROVE  RateInv'
<1>1. /\ CallInv /\ log \in Seq(Admission) /\ Holds(global, GlobalRate, GlobalBurst, clock)
      /\ Covered(log, global) /\ Window(log) /\ Kept(peers, order) /\ PeerWindowBound
      /\ clock \in Nat /\ DOMAIN call = Threads
  BY Zenon DEF RateInv, CallInv
<1> DEFINE r == [peer |-> p, at |-> clock]
<1>2. /\ call' = [call EXCEPT ![t] = r] /\ verdict' = NoVerdict /\ clock' = clock
      /\ idleTtl' = idleTtl /\ global' = global /\ peers' = peers /\ order' = order /\ log' = log
  BY Zenon DEF Call
<1>3. r \in Request /\ r.at = clock /\ clock - MaxWait <= clock /\ clock <= clock
  <2>1. MaxWait \in Nat
    BY ConstantFacts
  <2> QED BY <1>1, <2>1 DEF Request
<1> HIDE DEF r
<1>4. CallInv'
  <2>1. DOMAIN call' = Threads /\ call'[t] = r /\ \A u \in Threads : u # t => call'[u] = call[u]
    BY <1>1, <1>2, Zenon
  <2> QED BY <1>1, <1>2, <1>3, <2>1, Zenon DEF CallInv
<1>5. Kept(peers, order)'
  BY <1>1, <1>2, KeptNext
<1>6. /\ (log \in Seq(Admission))' /\ Covered(log, global)' /\ Window(log)'
      /\ Holds(global, GlobalRate, GlobalBurst, clock)'
  BY <1>1, <1>2, Zenon DEF Covered, Window, Holds
<1>7. PeerWindowBound'
  BY <1>1, <1>2, WindowsNext
<1>8. RetryAfterExact'
  BY <1>2, SilentExact, Zenon
<1> QED BY <1>4, <1>5, <1>6, <1>7, <1>8, Zenon DEF RateInv

LEMMA InitKeeps ==
  ASSUME Init PROVE RateInv
<1>1. /\ clock = 0 /\ idleTtl \in IdleTtls /\ call = [t \in Threads |-> NoCall]
      /\ global = NewBucket(GlobalRate, GlobalBurst, 0) /\ peers = [p \in {} |-> NoCall]
      /\ order = <<>> /\ log = <<>> /\ verdict = NoVerdict
  BY Zenon DEF Init
<1>2. 0 \in Nat
  OBVIOUS
<1>3. CallInv
  BY <1>1, <1>2, Zenon DEF CallInv
<1>4. Holds(global, GlobalRate, GlobalBurst, clock)
  BY Zenon, <1>1, <1>2, NewBucketFacts, ConstantFacts
<1>5. /\ log \in Seq(Admission) /\ order \in Seq(Peers) /\ 1 .. Len(log) = {} /\ 1 .. Len(order) = {}
      /\ Len(order) = 0
  BY <1>1
<1>6. Covered(log, global) /\ Window(log) /\ PeerWindowBound /\ Accounts(peers)
  BY <1>5, Zenon DEF Covered, Window, PeerWindowBound, Accounts
<1>7. DOMAIN peers = {} /\ peers \in [{} -> Entry]
  BY <1>1, Zenon
<1>8. TableOK(peers)
  BY <1>7, Zenon DEF TableOK
<1>9. OrderOK(order, DOMAIN peers) /\ Len(order) <= MaxTrackedIps
  <2>1. {order[i] : i \in 1 .. Len(order)} = {}
    BY <1>5, Zenon
  <2>2. 0 <= MaxTrackedIps
    BY SMTT(30), ConstantFacts
  <2> QED BY <1>5, <1>7, <2>1, <2>2, Zenon DEF OrderOK
<1>10. RetryAfterExact
  BY <1>1 DEF RetryAfterExact, NoVerdict
<1> QED BY <1>3, <1>4, <1>5, <1>6, <1>8, <1>9, <1>10, Zenon DEF RateInv, Kept

LEMMA StutterKeeps ==
  ASSUME RateInv, UNCHANGED vars PROVE RateInv'
<1>1. /\ clock' = clock /\ idleTtl' = idleTtl /\ call' = call /\ global' = global /\ peers' = peers
      /\ order' = order /\ log' = log /\ verdict' = verdict
  BY DEF vars
<1>2. Kept(peers, order)'
  BY Zenon, <1>1, KeptNext DEF RateInv
<1>3. PeerWindowBound'
  BY <1>1, WindowsNext DEF RateInv
<1> QED BY <1>1, <1>2, <1>3, Zenon DEF RateInv, CallInv, Covered, Window, Holds, RetryAfterExact

\* Behind the mutex every window of admissions is within its quota, across evictions and stale
\* stamps, the promised retry time is exact, and table and eviction order agree (try_admit_at).
LEMMA RateSound ==
  ASSUME RateInv PROVE RateLimitSound
<1>1. /\ OrderOK(order, DOMAIN peers) /\ Len(order) <= MaxTrackedIps /\ Window(log)
      /\ PeerWindowBound /\ RetryAfterExact
  BY Zenon DEF RateInv, Kept
<1>2. Cardinality(DOMAIN peers) = Len(order)
  BY <1>1, ListedOnce, Zenon
<1>3. TableConsistent
  BY <1>1, <1>2, Zenon DEF TableConsistent, OrderOK
<1>4. GlobalWindowBound
  BY <1>1, Zenon DEF GlobalWindowBound, Window
<1> QED BY <1>1, <1>3, <1>4, Zenon DEF RateLimitSound

\* The accounts of the buckets are in order in every state of the request-rate admission.
THEOREM RateInvariant == Spec => []RateInv
<1>1. Init => RateInv
  BY InitKeeps
<1>2. RateInv /\ [Next]_vars => RateInv'
  <2> SUFFICES ASSUME RateInv, [Next]_vars PROVE RateInv'
    OBVIOUS
  <2>1. CASE Tick
    BY Zenon, <2>1, TickKeeps
  <2>2. ASSUME NEW t \in Threads, NEW p \in Peers, Call(t, p) PROVE RateInv'
    BY Zenon, <2>2, CallKeeps
  <2>3. ASSUME NEW t \in Threads, Admit(t) PROVE RateInv'
    BY <2>3, AdmitKeeps
  <2>4. CASE UNCHANGED vars
    BY <2>4, StutterKeeps
  <2> QED BY <2>1, <2>2, <2>3, <2>4, Zenon DEF Next
<1> QED BY <1>1, <1>2, PTL DEF Spec

\* Token buckets bound every window of admissions, of the process and of an address
\* across its eviction and whatever the order of the stamps; Retry-After is exact;
\* table and eviction order agree (try_admit_at).
THEOREM RateLimitProved == Spec => []RateLimitSound
<1>1. RateInv => RateLimitSound
  BY RateSound
<1> QED BY <1>1, RateInvariant, PTL
=============================================================================
