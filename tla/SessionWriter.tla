--------------------------- MODULE SessionWriter ---------------------------
(***************************************************************************)
(* The outbound half of one multiplexed tunnel session, the same code on   *)
(* the Agent (crates/agent/src/multiplex.rs) and on the Edge               *)
(* (crates/edge/src/multiplex.rs): stream tasks and the session loop feed  *)
(* a bounded control channel and a permit-bounded DATA channel, and one    *)
(* writer_actor serialises both onto the transport.                        *)
(*                                                                         *)
(* Every try_recv, recv, permit acquisition, channel send and completed    *)
(* encode is a step of its own: the tasks run on a multi-threaded runtime  *)
(* and interleave at each of them.  Payloads are abstracted to a sequence  *)
(* number per stream, taken modulo SeqModulus so that streams may send     *)
(* forever; PING, PONG and RESET_STREAM are one kind, "CONTROL", because   *)
(* the writer treats them alike.                                           *)
(***************************************************************************)
EXTENDS Naturals, Sequences, FiniteSets, FairQueue

CONSTANTS Streams,          \* StreamIds in use
          Capacity,         \* data_queue_capacity
          ControlCapacity,  \* control_queue_capacity
          MaxBurst,         \* MAX_CONTROL_FRAME_BURST
          AwaitAck,         \* TRUE: Edge, whose tasks wait for the Agent's ack
          SeqModulus        \* bound on the sequence numbers frames carry

ASSUME StreamsAssumption == IsFiniteSet(Streams)
ASSUME CapacityAssumption == Capacity \in Nat \ {0}
ASSUME ControlCapacityAssumption == ControlCapacity \in Nat \ {0}
ASSUME MaxBurstAssumption == MaxBurst \in Nat \ {0}
ASSUME AwaitAckAssumption == AwaitAck \in BOOLEAN
ASSUME SeqModulusAssumption == SeqModulus \in Nat \ {0}

VARIABLES
    task,          \* per stream: where its task stands
    out,           \* per stream: kind of the frame it sends; "END" after EOF
    sent,          \* per stream: frames put into the DATA channel
    session,       \* the session loop still holds its senders
    controlRx,     \* control channel
    dataRx,        \* DATA channel
    permits,       \* free admission permits
    scheduled,     \* the writer's fair queue
    controlBurst,  \* control frames written since the last DATA frame
    controlOpen,   \* writer's control_open
    dataOpen,      \* writer's data_open
    writing,       \* the frame being encoded, <<>> or a 1-sequence
    pc,            \* where the writer stands
    opened,        \* history: OPEN_STREAM of s has been written
    burstRun,      \* history: control frames served in a row ahead of DATA
    bypass         \* history: bypass[t][s] = services of s while t waits

producerVars == <<task, out, sent, session>>
channelVars  == <<controlRx, dataRx, permits>>
writerVars   == <<scheduled, controlBurst, controlOpen, dataOpen, writing, pc>>
historyVars  == <<opened, burstRun, bypass>>
vars == <<producerVars, channelVars, writerVars, historyVars>>

TaskStates == {"new", "wait", "relay", "want", "hold", "closed"}
DataFrame  == [kind : {"DATA", "END"}, stream : Streams, seq : 0 .. SeqModulus - 1]
OpenFrame  == [kind : {"OPEN"}, stream : Streams]
OtherControl == [kind |-> "CONTROL"]
ControlFrame == OpenFrame \cup {OtherControl}
AnyFrame   == DataFrame \cup ControlFrame

IsData(f) == f.kind \in {"DATA", "END"}

\* A channel receiver sees "disconnected" once every clone of the senders is
\* gone: the session's own and one per live stream task.
SendersGone == ~session /\ \A s \in Streams : task[s] = "closed"

\* The receivers live inside writer_actor and go with it.
ReceiversGone == pc \in {"done", "failed"}

Holders == {s \in Streams : task[s] = "hold"}

Init ==
    /\ task = [s \in Streams |-> "new"]
    /\ out = [s \in Streams |-> "DATA"]
    /\ sent = [s \in Streams |-> 0]
    /\ session = TRUE
    /\ controlRx = <<>>
    /\ dataRx = <<>>
    /\ permits = Capacity
    /\ scheduled = EmptyQueue(Streams)
    /\ controlBurst = 0
    /\ controlOpen = TRUE
    /\ dataOpen = TRUE
    /\ writing = <<>>
    /\ pc = "drain"
    /\ opened = [s \in Streams |-> FALSE]
    /\ burstRun = 0
    /\ bypass = [t \in Streams |-> [s \in Streams |-> 0]]

-----------------------------------------------------------------------------
(* Producers: stream tasks and the session loop.                           *)

\* sender.send(frame).await on the control channel: waits for room.
ControlSend(f) ==
    /\ ~ReceiversGone
    /\ Len(controlRx) < ControlCapacity
    /\ controlRx' = Append(controlRx, f)

\* An Edge task that relays without waiting for the acknowledgement.
SendOpenWithoutWaiting(s) ==
    /\ task[s] = "new"
    /\ ControlSend([kind |-> "OPEN", stream |-> s])
    /\ task' = [task EXCEPT ![s] = "relay"]
    /\ UNCHANGED <<out, sent, session, dataRx, permits, writerVars, historyVars>>

\* OPEN_STREAM (Edge) or its acknowledgement (Agent), before any DATA.
SendOpen(s) ==
    /\ task[s] = "new"
    /\ ControlSend([kind |-> "OPEN", stream |-> s])
    /\ task' = [task EXCEPT ![s] = IF AwaitAck THEN "wait" ELSE "relay"]
    /\ UNCHANGED <<out, sent, session, dataRx, permits, writerVars, historyVars>>

\* Edge only: the peer has seen OPEN_STREAM and acknowledged it.
OpenAcked(s) ==
    /\ task[s] = "wait"
    /\ opened[s]
    /\ task' = [task EXCEPT ![s] = "relay"]
    /\ UNCHANGED <<out, sent, session, channelVars, writerVars, historyVars>>

\* A socket read: bytes become a DATA frame, EOF an END_STREAM frame, after
\* which the task reads no more.
Read(s) ==
    /\ task[s] = "relay"
    /\ out[s] = "DATA"
    /\ \E k \in {"DATA", "END"} : out' = [out EXCEPT ![s] = k]
    /\ task' = [task EXCEPT ![s] = "want"]
    /\ UNCHANGED <<sent, session, channelVars, writerVars, historyVars>>

\* BoundedQueueSender::send, first half: take an admission permit.
Acquire(s) ==
    /\ task[s] = "want"
    /\ permits > 0
    /\ permits' = permits - 1
    /\ task' = [task EXCEPT ![s] = "hold"]
    /\ UNCHANGED <<out, sent, session, controlRx, dataRx, writerVars, historyVars>>

\* BoundedQueueSender::send, second half: the channel send.
Enqueue(s) ==
    /\ task[s] = "hold"
    /\ ~ReceiversGone
    /\ Len(dataRx) < Capacity
    /\ dataRx' = Append(dataRx, [kind |-> out[s], stream |-> s, seq |-> sent[s]])
    /\ sent' = [sent EXCEPT ![s] = (@ + 1) % SeqModulus]
    /\ task' = [task EXCEPT ![s] = "relay"]
    /\ UNCHANGED <<out, session, controlRx, permits, writerVars, historyVars>>

\* The channel send against a writer that is gone: the permit is dropped with
\* the unsent item and the task ends.
EnqueueClosed(s) ==
    /\ task[s] = "hold"
    /\ ReceiversGone
    /\ permits' = permits + 1
    /\ task' = [task EXCEPT ![s] = "closed"]
    /\ UNCHANGED <<out, sent, session, controlRx, dataRx, writerVars, historyVars>>

\* The task sends RESET_STREAM (idle, I/O failure, open timeout, violation)
\* and ends; a reset that finds the writer gone is ignored.
ResetAndClose(s) ==
    /\ task[s] \in {"new", "wait", "relay"}
    /\ IF ReceiversGone THEN UNCHANGED controlRx
                        ELSE ControlSend(OtherControl)
    /\ task' = [task EXCEPT ![s] = "closed"]
    /\ UNCHANGED <<out, sent, session, dataRx, permits, writerVars, historyVars>>

\* The task ends without a frame: both directions ended, a reset from the
\* peer, or the session loop gone.
Close(s) ==
    /\ task[s] \in {"new", "wait", "relay"}
    /\ task' = [task EXCEPT ![s] = "closed"]
    /\ UNCHANGED <<out, sent, session, channelVars, writerVars, historyVars>>

\* The session loop sends PING (Edge), PONG (Agent) or RESET_STREAM for a
\* stream it does not know, for as long as the session lives.
SessionControl ==
    /\ session
    /\ ControlSend(OtherControl)
    /\ UNCHANGED <<producerVars, dataRx, permits, writerVars, historyVars>>

\* The session loop ends: streams.clear() and its senders are dropped.
CloseSession ==
    /\ session
    /\ session' = FALSE
    /\ UNCHANGED <<task, out, sent, channelVars, writerVars, historyVars>>

Producer ==
    \/ \E s \in Streams :
          \/ SendOpen(s) \/ OpenAcked(s) \/ Read(s) \/ Acquire(s)
          \/ Enqueue(s) \/ EnqueueClosed(s) \/ ResetAndClose(s) \/ Close(s)
    \/ SessionControl
    \/ CloseSession

-----------------------------------------------------------------------------
(* writer_actor.                                                           *)

\* The test that decides whether a queued control frame goes first.
ControlTurn == controlOpen /\ (controlBurst < MaxBurst \/ scheduled.len = 0)

\* control_rx.try_recv found nothing, or was not tried at all.
NoControlFrame == ~ControlTurn \/ controlRx = <<>>
ControlOpenAfterTry ==
    controlOpen /\ ~(ControlTurn /\ controlRx = <<>> /\ SendersGone)

MayDrain == dataOpen /\ scheduled.len < Capacity

\* Top of the loop: move what the DATA channel holds into the fair queue.
DrainTake ==
    /\ pc = "drain" /\ MayDrain /\ dataRx # <<>>
    /\ scheduled' = Push(scheduled, Head(dataRx).stream, Head(dataRx))
    /\ dataRx' = Tail(dataRx)
    /\ UNCHANGED <<producerVars, controlRx, permits, controlBurst, controlOpen,
                   dataOpen, writing, pc, historyVars>>

\* The DATA channel is empty, disconnected, or the fair queue is at capacity.
DrainDone ==
    /\ pc = "drain"
    /\ ~MayDrain \/ dataRx = <<>>
    /\ dataOpen' = (dataOpen /\ ~(MayDrain /\ SendersGone))
    /\ pc' = "control"
    /\ UNCHANGED <<producerVars, channelVars, scheduled, controlBurst,
                   controlOpen, writing, historyVars>>

\* A control frame leaves its channel for the encoder.
StartControl ==
    /\ controlRx # <<>>
    /\ writing' = <<Head(controlRx)>>
    /\ controlRx' = Tail(controlRx)
    /\ burstRun' = IF scheduled.len > 0 THEN burstRun + 1 ELSE 0
    /\ pc' = "write"
    /\ UNCHANGED <<producerVars, dataRx, permits, scheduled, controlBurst,
                   controlOpen, dataOpen, opened, bypass>>

TakeControl ==
    /\ pc = "control" /\ ControlTurn
    /\ StartControl

\* bypass counts, for every stream t that waits in the fair queue, how often
\* the stream k now served has been served since t was served or joined.
CountService(k) ==
    [t \in Streams |->
        IF t = k \/ scheduled.queues[t] = <<>>
          THEN [s \in Streams |-> 0]
          ELSE [bypass[t] EXCEPT ![k] = @ + 1]]

\* No control frame is due: serve the next stream of the fair queue.
ServeData ==
    /\ pc = "control" /\ NoControlFrame
    /\ scheduled.active # <<>>
    /\ controlOpen' = ControlOpenAfterTry
    /\ writing' = <<Popped(scheduled)>>
    /\ scheduled' = Pop(scheduled)
    /\ pc' = "write"
    /\ burstRun' = 0
    /\ bypass' = CountService(Head(scheduled.active))
    /\ UNCHANGED <<producerVars, channelVars, controlBurst, dataOpen, opened>>

\* Nothing to write: stop when both channels are closed, else wait.
NothingReady ==
    /\ pc = "control" /\ NoControlFrame
    /\ scheduled.active = <<>>
    /\ controlOpen' = ControlOpenAfterTry
    /\ pc' = IF controlOpen' \/ dataOpen THEN "select" ELSE "done"
    /\ UNCHANGED <<producerVars, channelVars, scheduled, controlBurst, dataOpen,
                   writing, historyVars>>

\* The biased select: control first, whatever the burst count.
SelectControl ==
    /\ pc = "select" /\ controlOpen
    /\ StartControl

SelectControlClosed ==
    /\ pc = "select" /\ controlOpen
    /\ controlRx = <<>> /\ SendersGone
    /\ controlOpen' = FALSE
    /\ pc' = "drain"
    /\ UNCHANGED <<producerVars, channelVars, scheduled, controlBurst, dataOpen,
                   writing, historyVars>>

ControlPends == ~controlOpen \/ (controlRx = <<>> /\ ~SendersGone)

SelectData ==
    /\ pc = "select" /\ dataOpen /\ ControlPends
    /\ dataRx # <<>>
    /\ scheduled' = Push(scheduled, Head(dataRx).stream, Head(dataRx))
    /\ dataRx' = Tail(dataRx)
    /\ pc' = "drain"
    /\ UNCHANGED <<producerVars, controlRx, permits, controlBurst, controlOpen,
                   dataOpen, writing, historyVars>>

SelectDataClosed ==
    /\ pc = "select" /\ dataOpen /\ ControlPends
    /\ dataRx = <<>> /\ SendersGone
    /\ dataOpen' = FALSE
    /\ pc' = "drain"
    /\ UNCHANGED <<producerVars, channelVars, scheduled, controlBurst,
                   controlOpen, writing, historyVars>>

\* An encode after which a DATA frame leaves the burst count as it was.
WrittenKeepsBurst ==
    /\ pc = "write"
    /\ LET f == writing[1] IN
         /\ controlBurst' = IF IsData(f) \/ controlBurst = MaxBurst
                            THEN controlBurst ELSE controlBurst + 1
         /\ permits' = IF IsData(f) THEN permits + 1 ELSE permits
         /\ opened' = IF f.kind = "OPEN" THEN [opened EXCEPT ![f.stream] = TRUE]
                      ELSE opened
    /\ writing' = <<>>
    /\ pc' = "drain"
    /\ UNCHANGED <<producerVars, controlRx, dataRx, scheduled, controlOpen,
                   dataOpen, burstRun, bypass>>

\* FrameEncoder::encode(...).await returned: a DATA frame gives its permit
\* back only now.  The burst count is compared with MaxBurst and nothing else,
\* so it is kept up to that value.
Written ==
    /\ pc = "write"
    /\ LET f == writing[1] IN
         /\ controlBurst' = IF IsData(f) THEN 0
                            ELSE IF controlBurst < MaxBurst THEN controlBurst + 1
                            ELSE MaxBurst
         /\ permits' = IF IsData(f) THEN permits + 1 ELSE permits
         /\ opened' = IF f.kind = "OPEN" THEN [opened EXCEPT ![f.stream] = TRUE]
                      ELSE opened
    /\ writing' = <<>>
    /\ pc' = "drain"
    /\ UNCHANGED <<producerVars, controlRx, dataRx, scheduled, controlOpen,
                   dataOpen, burstRun, bypass>>

\* The transport fails: writer_actor returns and drops both receivers, the
\* fair queue and the frame in hand, with the permits they hold.
InFlight == IF writing # <<>> /\ IsData(writing[1]) THEN 1 ELSE 0

WriteFailed ==
    /\ pc = "write"
    /\ pc' = "failed"
    /\ permits' = permits + Len(dataRx) + scheduled.len + InFlight
    /\ controlRx' = <<>>
    /\ dataRx' = <<>>
    /\ scheduled' = EmptyQueue(Streams)
    /\ writing' = <<>>
    /\ UNCHANGED <<producerVars, controlBurst, controlOpen, dataOpen, historyVars>>

\* The writer's own steps; a failure of the transport is not one it must take.
Writer ==
    \/ DrainTake \/ DrainDone \/ TakeControl \/ ServeData \/ NothingReady
    \/ SelectControl \/ SelectControlClosed \/ SelectData \/ SelectDataClosed
    \/ Written

Next == Producer \/ Writer \/ WriteFailed

\* The runtime keeps polling the writer, and its peer keeps reading.
Spec == Init /\ [][Next]_vars /\ WF_vars(Writer)

-----------------------------------------------------------------------------
(* Properties.                                                             *)

FairQueueType ==
    [len    : Nat,
     active : Seq(Streams),
     queues : [Streams -> Seq(DataFrame)]]

\* Types of the state of the producers, the channels and writer_actor.
TypeOK ==
    /\ task \in [Streams -> TaskStates]
    /\ out \in [Streams -> {"DATA", "END"}]
    /\ sent \in [Streams -> 0 .. SeqModulus - 1]
    /\ session \in BOOLEAN
    /\ controlRx \in Seq(ControlFrame)
    /\ dataRx \in Seq(DataFrame)
    /\ permits \in Nat
    /\ scheduled \in FairQueueType
    /\ controlBurst \in 0 .. MaxBurst
    /\ controlOpen \in BOOLEAN
    /\ dataOpen \in BOOLEAN
    /\ writing \in {<<>>} \cup {<<f>> : f \in AnyFrame}
    /\ pc \in {"drain", "control", "select", "write", "done", "failed"}
    /\ opened \in [Streams -> BOOLEAN]
    /\ burstRun \in Nat
    /\ bypass \in [Streams -> [Streams -> Nat]]

\* One hard bound covers an item from admission to the end of its encode: the
\* free permits, the permits held by tasks about to send, the DATA channel,
\* the fair queue and the frame in the encoder always add up to the capacity
\* (BoundedQueueItem keeps its permit until it is dropped).  So the fair queue
\* is never pushed beyond its capacity, which writer_actor would turn into a
\* session failure (fair_queue_invariant).
AdmissionBound ==
    permits + Cardinality(Holders) + Len(dataRx) + scheduled.len + InFlight
        = Capacity

\* The containers of BoundedFairQueue agree: a key is in the service order
\* exactly once if it has an item and not at all otherwise (pop's two
\* "expect"s), and the counter that is_empty and push trust is zero exactly
\* when no key is active.
FairQueueConsistent ==
    /\ \A i, j \in DOMAIN scheduled.active :
          scheduled.active[i] = scheduled.active[j] => i = j
    /\ \A s \in Streams :
          (scheduled.queues[s] # <<>>) <=>
              (\E i \in DOMAIN scheduled.active : scheduled.active[i] = s)
    /\ (scheduled.len = 0) <=> (scheduled.active = <<>>)

\* Control frames keep their priority for at most MAX_CONTROL_FRAME_BURST
\* frames in a row while DATA waits in the fair queue.
ControlBurstBound == burstRun <= MaxBurst

\* Round-robin service: while a stream waits in the fair queue no other
\* stream is served more than once before it.
FairService ==
    \A t, s \in Streams : scheduled.queues[t] # <<>> => bypass[t][s] <= 1

\* The DATA path serves what it admits: no permit is lost or kept beyond its
\* frame, so the capacity is neither exceeded nor used up, and no waiting stream
\* is passed over (BoundedQueueItem, BoundedFairQueue::pop).
QueueServes == AdmissionBound /\ FairService

\* A stream's DATA and END_STREAM frames follow its OPEN_STREAM frame onto the
\* transport, although the two travel through different queues.
OpenBeforeData ==
    [][Written => (IsData(writing[1]) => opened[writing[1].stream])]_vars

\* The frames of stream s in a channel, in order: the k-th is the one at the
\* place up to which there are k of them.
Places(q, s, i) == {j \in 1 .. i : q[j].stream = s}

OfStream(q, s) ==
    LET place(k) == CHOOSE i \in DOMAIN q :
                        q[i].stream = s /\ Cardinality(Places(q, s, i)) = k
    IN  IF \A i \in DOMAIN q : q[i].stream = s THEN q
        ELSE IF \A i \in DOMAIN q : q[i].stream # s THEN <<>>
        ELSE [k \in 1 .. Cardinality(Places(q, s, Len(q))) |-> q[place(k)]]

\* The refinement mapping: what is still on its way, per stream and for the
\* control frames, from the channel to the encoder.
InHand(s) ==
    IF writing # <<>> /\ IsData(writing[1]) /\ writing[1].stream = s
    THEN writing ELSE <<>>

Pending == [s \in Streams |-> InHand(s) \o scheduled.queues[s] \o OfStream(dataRx, s)]

PendingControl ==
    (IF writing # <<>> /\ ~IsData(writing[1]) THEN writing ELSE <<>>) \o controlRx

Phase == CASE pc = "done" -> "finished" [] pc = "failed" -> "failed" [] OTHER -> "up"

Relay == INSTANCE OrderedRelay WITH
    Frames <- AnyFrame, pending <- Pending, pendingControl <- PendingControl, phase <- Phase

\* writer_actor implements the ordered relay: per-stream FIFO, control FIFO,
\* nothing lost on a graceful finish, nothing starved although control frames
\* and other streams never stop.
ImplementsRelay == Relay!Spec
=============================================================================
