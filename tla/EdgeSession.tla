---------------------------- MODULE EdgeSession ----------------------------
(***************************************************************************)
(* One established Agent session on the Edge (crates/edge/src/             *)
(* multiplex.rs): the session loop that decodes frames, takes commands and *)
(* keeps the heartbeat (run_edge_session), and one task per logical stream *)
(* that bridges an ingress socket (run_ingress_stream).  They meet in the  *)
(* map of per-stream inbound channels, the bounded control channel of the  *)
(* writer and the bounded channel of Closed events.                        *)
(*                                                                         *)
(* The Agent is the environment: it may send any stream frame at any time, *)
(* and it echoes every PING it is sent once.  The writer is reduced to     *)
(* what its users see of it (SessionWriter models it): it takes control    *)
(* frames in order, it may fail, and it finishes when all its senders are  *)
(* gone.  Opens that are refused change nothing here; EdgeRegistry answers *)
(* them.                                                                   *)
(***************************************************************************)
EXTENDS Naturals, Sequences, FiniteSets

CONSTANTS LastId,           \* the largest StreamId; u32::MAX in the code
          MaxStreams,       \* max_streams_per_session
          InboundCapacity,  \* per_stream_queue_capacity
          ControlCapacity,  \* control_queue_capacity
          MaxBeat,          \* the largest HeartbeatSequence; u64::MAX
          AgentSends        \* bound on the kinds of stream frames that arrive

ASSUME LastIdAssumption == LastId \in Nat \ {0}
ASSUME MaxStreamsAssumption == MaxStreams \in Nat \ {0}
ASSUME InboundCapacityAssumption == InboundCapacity \in Nat \ {0}
ASSUME ControlCapacityAssumption == ControlCapacity \in Nat \ {0}
ASSUME MaxBeatAssumption == MaxBeat \in Nat \ {0}
ASSUME AgentSendsAssumption == AgentSends \subseteq {"open", "data", "end", "reset", "bad"}

VARIABLES
    loop,      \* where the session loop stands
    sending,   \* what the loop waits to put into the control channel
    streams,   \* keys of the streams map: ids whose inbound sender is alive
    nextId,    \* next_stream_id, 0 once exhausted
    draining,  \* BeginDrain was received
    pending,   \* pending_heartbeat, 0 for None
    beat,      \* heartbeat_sequence
    echo,      \* PING the Agent has read and not answered yet, 0 for none
    events,    \* the channel of Closed events
    control,   \* the control channel: a PING as its sequence, others as 0
    writer,    \* the writer task
    task,      \* where each stream task stands
    inbound,   \* each stream's inbound channel
    ended,     \* directions of each stream that have ended
    answer     \* what the caller of each stream was told

loopVars   == <<loop, sending, streams, nextId, draining>>
beatVars   == <<pending, beat, echo>>
writerVars == <<control, writer>>
taskVars   == <<task, inbound, ended, answer>>
vars == <<loopVars, beatVars, events, writerVars, taskVars>>

Ids == 1 .. LastId

TaskStates == {"none", "opening", "waiting", "relay", "writing", "sending", "reset",
               "notify", "done"}
Running == {s \in Ids : task[s] \notin {"none", "done"}}

\* Stream frames as their reader tells them apart.  "bad" is an OPEN_STREAM or
\* END_STREAM with a payload, or an undecodable RESET_STREAM on an open stream
\* (elsewhere it counts as "reset").
FrameKinds == {"open", "data", "end", "reset", "bad"}

LoopGone == loop \in {"teardown", "returned"}
WriterGone == writer \in {"finished", "failed"}

Init ==
    /\ loop = "run" /\ sending = "none"
    /\ streams = {} /\ nextId = 1 /\ draining = FALSE
    /\ pending = 0 /\ beat = 1 /\ echo = 0
    /\ events = <<>>
    /\ control = <<>> /\ writer = "up"
    /\ task = [s \in Ids |-> "none"]
    /\ inbound = [s \in Ids |-> <<>>]
    /\ ended = [s \in Ids |-> {}]
    /\ answer = [s \in Ids |-> "none"]

-----------------------------------------------------------------------------
(* Sending to the writer.                                                  *)

\* sender.send(frame).await on the control channel: room, or a dead writer.
ControlRoom == ~WriterGone /\ Len(control) < ControlCapacity
ControlSend(f) == ControlRoom /\ control' = Append(control, f)

-----------------------------------------------------------------------------
(* The session loop.                                                       *)

\* The loop breaks: streams.clear() and its senders are dropped.
Break ==
    /\ loop' = "teardown"
    /\ streams' = {}

\* An error is returned at once; the writer task is detached.
Fail ==
    /\ loop' = "returned"
    /\ sending' = "none"
    /\ streams' = {}

\* send_reset(...).await inside the decode arm: the loop does nothing else
\* until the control channel takes the frame.
AwaitReset == loop' = "send" /\ sending' = "frame"

\* A frame for a stream whose inbound channel takes it.
Dispatch(s, k) ==
    /\ loop = "run"
    /\ s \in streams /\ task[s] # "done"
    /\ Len(inbound[s]) < InboundCapacity
    /\ inbound' = [inbound EXCEPT ![s] = Append(@, k)]
    /\ UNCHANGED <<loopVars, beatVars, events, writerVars, task, ended, answer>>

\* A DATA frame over the payload budget, for any id, or a frame that finds the
\* inbound channel full: the stream loses its sender and is reset.
Overflow(s) ==
    /\ loop = "run"
    /\ streams' = streams \ {s}
    /\ AwaitReset
    /\ UNCHANGED <<nextId, draining, beatVars, events, writerVars, taskVars>>

\* A frame for a stream whose task has ended, or for no stream: RESET_STREAM
\* is ignored, any other kind is answered with UnknownStream.
Unknown(s, k) ==
    /\ loop = "run"
    /\ s \notin streams \/ task[s] = "done"
    /\ streams' = streams \ {s}
    /\ IF k = "reset" THEN UNCHANGED <<loop, sending>> ELSE AwaitReset
    /\ UNCHANGED <<nextId, draining, beatVars, events, writerVars, taskVars>>

ReceiveFrame(s) ==
    \/ Overflow(s)
    \/ \E k \in AgentSends : Dispatch(s, k) \/ Unknown(s, k)

\* A PONG answers the outstanding PING; an unsolicited one, or one with another
\* sequence, ends the session.
ReceivePong ==
    /\ loop = "run" /\ echo # 0
    /\ echo' = 0
    /\ IF echo = pending
         THEN pending' = 0 /\ UNCHANGED <<loop, sending, streams>>
         ELSE Fail /\ UNCHANGED pending
    /\ UNCHANGED <<nextId, draining, beat, events, writerVars, taskVars>>

\* EOF, RevokeAuthorization, or a command channel without senders.
EndOfSession ==
    /\ loop = "run"
    /\ Break
    /\ UNCHANGED <<sending, nextId, draining, beatVars, events, writerVars, taskVars>>

\* A decode error, ERROR, an unexpected frame, or the PONG deadline.
SessionError ==
    /\ loop = "run"
    /\ Fail
    /\ UNCHANGED <<nextId, draining, beatVars, events, writerVars, taskVars>>

\* streams.len() < max_streams_per_session.
HasSlot == Cardinality(streams) < MaxStreams

\* SessionCommand::Open with room for a stream and an id left: the task is
\* spawned with a fresh inbound channel.
Open ==
    /\ loop = "run"
    /\ ~draining /\ HasSlot
    /\ nextId # 0
    /\ streams' = streams \cup {nextId}
    /\ task' = [task EXCEPT ![nextId] = "opening"]
    /\ inbound' = [inbound EXCEPT ![nextId] = <<>>]
    /\ ended' = [ended EXCEPT ![nextId] = {}]
    /\ answer' = [answer EXCEPT ![nextId] = "none"]
    /\ nextId' = (nextId + 1) % (LastId + 1)
    /\ UNCHANGED <<loop, sending, draining, beatVars, events, writerVars>>

\* SessionCommand::BeginDrain.
BeginDrain ==
    /\ loop = "run"
    /\ draining' = TRUE
    /\ IF streams = {} THEN Break ELSE UNCHANGED <<loop, streams>>
    /\ UNCHANGED <<sending, nextId, beatVars, events, writerVars, taskVars>>

\* A Closed event that only ends a drain when it removed a stream.
ReceiveEventOfKnown ==
    /\ loop = "run"
    /\ events # <<>>
    /\ events' = Tail(events)
    /\ IF draining /\ streams = {Head(events)}
         THEN Break
         ELSE streams' = streams \ {Head(events)} /\ UNCHANGED loop
    /\ UNCHANGED <<sending, nextId, draining, beatVars, writerVars, taskVars>>

\* StreamEvent::Closed: forget the stream; a drain ends with the last one.
ReceiveEvent ==
    /\ loop = "run"
    /\ events # <<>>
    /\ events' = Tail(events)
    /\ IF draining /\ streams \ {Head(events)} = {}
         THEN Break
         ELSE streams' = streams \ {Head(events)} /\ UNCHANGED loop
    /\ UNCHANGED <<sending, nextId, draining, beatVars, writerVars, taskVars>>

\* The heartbeat interval is over: the loop waits for the control channel.
HeartbeatDue ==
    /\ loop = "run" /\ pending = 0
    /\ loop' = "send" /\ sending' = "ping"
    /\ UNCHANGED <<streams, nextId, draining, beatVars, events, writerVars, taskVars>>

\* The control channel takes the loop's frame.  After a PING the sequence
\* advances, and its exhaustion ends the session.
LoopSends ==
    /\ loop = "send"
    /\ ControlSend(IF sending = "ping" THEN beat ELSE 0)
    /\ IF sending = "ping" /\ beat = MaxBeat
         THEN Fail
         ELSE loop' = "run" /\ sending' = "none" /\ UNCHANGED streams
    /\ pending' = IF sending = "ping" THEN beat ELSE pending
    /\ beat' = IF sending = "ping" /\ beat < MaxBeat THEN beat + 1 ELSE beat
    /\ UNCHANGED <<nextId, draining, echo, events, writer, taskVars>>

\* The control channel is closed: the session ends with an error.
LoopSendFails ==
    /\ loop = "send" /\ WriterGone
    /\ Fail
    /\ UNCHANGED <<nextId, draining, beatVars, events, writerVars, taskVars>>

\* The writer task ended under the loop.
WriterEnded ==
    /\ loop = "run" /\ WriterGone
    /\ Fail
    /\ UNCHANGED <<nextId, draining, beatVars, events, writerVars, taskVars>>

\* writer_task.await after the loop; the Closed events are read no more.
TeardownDone ==
    /\ loop = "teardown" /\ WriterGone
    /\ loop' = "returned"
    /\ UNCHANGED <<sending, streams, nextId, draining, beatVars, events, writerVars, taskVars>>

-----------------------------------------------------------------------------
(* The writer, and the Agent that reads what it writes.                    *)

WriterTakes ==
    /\ writer = "up" /\ control # <<>>
    /\ control' = Tail(control)
    /\ echo' = IF Head(control) = 0 THEN echo ELSE Head(control)
    /\ UNCHANGED <<loopVars, pending, beat, events, writer, taskVars>>

WriterFinishes ==
    /\ writer = "up" /\ control = <<>>
    /\ LoopGone /\ Running = {}
    /\ writer' = "finished"
    /\ UNCHANGED <<loopVars, beatVars, events, control, taskVars>>

WriterFails ==
    /\ writer = "up"
    /\ writer' = "failed" /\ control' = <<>>
    /\ UNCHANGED <<loopVars, beatVars, events, taskVars>>

-----------------------------------------------------------------------------
(* A stream task: run_ingress_stream.                                      *)

Goto(s, t) == task' = [task EXCEPT ![s] = t]
Answer(s, a) == answer' = [answer EXCEPT ![s] = a]

\* OPEN_STREAM goes to the control channel, or the writer is gone.
SendOpen(s) ==
    /\ task[s] = "opening"
    /\ IF WriterGone
         THEN Goto(s, "notify") /\ Answer(s, "error") /\ UNCHANGED control
         ELSE Goto(s, "waiting") /\ ControlSend(0) /\ UNCHANGED answer
    /\ UNCHANGED <<loopVars, beatVars, events, writer, inbound, ended>>

\* The first inbound frame: an acknowledgement, a refusal or a violation.
FirstFrame(s) ==
    /\ task[s] = "waiting" /\ inbound[s] # <<>>
    /\ inbound' = [inbound EXCEPT ![s] = Tail(@)]
    /\ \/ Head(inbound[s]) = "open" /\ Goto(s, "relay") /\ Answer(s, "ok")
       \/ Head(inbound[s]) = "reset" /\ Goto(s, "notify") /\ Answer(s, "error")
       \/ /\ Head(inbound[s]) \notin {"open", "reset"}
          /\ Goto(s, "reset") /\ Answer(s, "error")
    /\ UNCHANGED <<loopVars, beatVars, events, writerVars, ended>>

\* stream_open_timeout.
OpenTimeout(s) ==
    /\ task[s] = "waiting"
    /\ Goto(s, "reset") /\ Answer(s, "error")
    /\ UNCHANGED <<loopVars, beatVars, events, writerVars, inbound, ended>>

\* inbound.recv() is None: the session loop dropped the sender.
InboundClosed(s) ==
    /\ task[s] \in {"waiting", "relay"} /\ ended[s] # {"ingress", "agent"}
    /\ inbound[s] = <<>> /\ s \notin streams
    /\ Goto(s, "notify")
    /\ IF task[s] = "waiting" THEN Answer(s, "error") ELSE UNCHANGED answer
    /\ UNCHANGED <<loopVars, beatVars, events, writerVars, inbound, ended>>

\* A frame for an open stream: DATA is written, END_STREAM shuts the ingress
\* socket down, which may fail, and what does not fit is a violation.
RelayFrame(s) ==
    /\ task[s] = "relay" /\ inbound[s] # <<>>
    /\ ended[s] # {"ingress", "agent"}
    /\ inbound' = [inbound EXCEPT ![s] = Tail(@)]
    /\ LET k    == Head(inbound[s])
           flow == k \in {"data", "end"} /\ "agent" \notin ended[s]
       IN \/ flow /\ k = "data" /\ Goto(s, "writing") /\ UNCHANGED ended
          \/ /\ flow /\ k = "end"
             /\ ended' = [ended EXCEPT ![s] = @ \cup {"agent"}]
             /\ \E t \in {"relay", "reset"} : Goto(s, t)
          \/ k = "reset" /\ Goto(s, "notify") /\ UNCHANGED ended
          \/ ~flow /\ k # "reset" /\ Goto(s, "reset") /\ UNCHANGED ended
    /\ UNCHANGED <<loopVars, beatVars, events, writerVars, answer>>

\* ingress.write_all returned.
WriteDone(s) ==
    /\ task[s] = "writing"
    /\ \E t \in {"relay", "reset"} : Goto(s, t)
    /\ UNCHANGED <<loopVars, beatVars, events, writerVars, inbound, ended, answer>>

\* The ingress socket is read: bytes, EOF or an error.
ReadIngress(s) ==
    /\ task[s] = "relay" /\ "ingress" \notin ended[s]
    /\ \/ Goto(s, "sending") /\ UNCHANGED ended
       \/ Goto(s, "sending") /\ ended' = [ended EXCEPT ![s] = @ \cup {"ingress"}]
       \/ Goto(s, "reset") /\ UNCHANGED ended
    /\ UNCHANGED <<loopVars, beatVars, events, writerVars, inbound, answer>>

\* send_data: admitted by the DATA queue, or the writer is gone.
DataSent(s) ==
    /\ task[s] = "sending"
    /\ Goto(s, IF WriterGone THEN "notify" ELSE "relay")
    /\ UNCHANGED <<loopVars, beatVars, events, writerVars, inbound, ended, answer>>

\* stream_idle_timeout.
Idle(s) ==
    /\ task[s] = "relay" /\ ended[s] # {"ingress", "agent"}
    /\ Goto(s, "reset")
    /\ UNCHANGED <<loopVars, beatVars, events, writerVars, inbound, ended, answer>>

\* Both directions have ended.
Graceful(s) ==
    /\ task[s] = "relay" /\ ended[s] = {"ingress", "agent"}
    /\ Goto(s, "notify")
    /\ UNCHANGED <<loopVars, beatVars, events, writerVars, inbound, ended, answer>>

\* send_reset by the task; a dead writer is ignored.
SendReset(s) ==
    /\ task[s] = "reset"
    /\ IF WriterGone THEN UNCHANGED control ELSE ControlSend(0)
    /\ Goto(s, "notify")
    /\ UNCHANGED <<loopVars, beatVars, events, writer, inbound, ended, answer>>

\* A Closed event that is only tried, and lost when the channel is full.
NotifyTry(s) ==
    /\ task[s] = "notify"
    /\ events' = IF loop # "returned" /\ Len(events) < MaxStreams
                 THEN Append(events, s) ELSE events
    /\ Goto(s, "done")
    /\ inbound' = [inbound EXCEPT ![s] = <<>>]
    /\ ended' = [ended EXCEPT ![s] = {}]
    /\ UNCHANGED <<loopVars, beatVars, writerVars, answer>>

\* event_tx.send(Closed).await: room in the channel, or its receiver is gone.
\* The task then returns and drops its receiver and its senders.
Notify(s) ==
    /\ task[s] = "notify"
    /\ IF loop = "returned"
         THEN UNCHANGED events
         ELSE Len(events) < MaxStreams /\ events' = Append(events, s)
    /\ Goto(s, "done")
    /\ inbound' = [inbound EXCEPT ![s] = <<>>]
    /\ ended' = [ended EXCEPT ![s] = {}]
    /\ UNCHANGED <<loopVars, beatVars, writerVars, answer>>

-----------------------------------------------------------------------------
\* Steps a task takes without waiting for its ingress socket or a frame, and
\* its inbound arm, which its select polls beside the ingress socket.
TaskStep(s) ==
    \/ SendOpen(s) \/ OpenTimeout(s) \/ WriteDone(s) \/ DataSent(s)
    \/ Graceful(s) \/ SendReset(s) \/ Notify(s)

Receive(s) == FirstFrame(s) \/ InboundClosed(s) \/ RelayFrame(s)

LoopStep == LoopSends \/ LoopSendFails \/ WriterEnded \/ TeardownDone
WriterStep == WriterTakes \/ WriterFinishes

Next ==
    \/ \E s \in Ids : ReceiveFrame(s) \/ TaskStep(s) \/ Receive(s) \/ ReadIngress(s) \/ Idle(s)
    \/ ReceivePong \/ EndOfSession \/ SessionError
    \/ Open \/ BeginDrain \/ ReceiveEvent \/ HeartbeatDue
    \/ LoopStep \/ WriterStep \/ WriterFails

\* Tasks are polled, ingress writes return, and the transport takes what the
\* writer has or fails.  The selects of the loop and of the tasks pick among
\* their ready arms at random: an arm that is ready again and again is taken.
Fairness ==
    /\ WF_vars(LoopStep) /\ WF_vars(WriterStep) /\ SF_vars(ReceiveEvent)
    /\ \A s \in Ids : WF_vars(TaskStep(s)) /\ SF_vars(Receive(s))

Spec == Init /\ [][Next]_vars /\ Fairness

-----------------------------------------------------------------------------
(* Properties.                                                             *)

\* Types of the state of the session loop, the writer and the stream tasks;
\* no channel exceeds its capacity.
TypeOK ==
    /\ loop \in {"run", "send", "teardown", "returned"}
    /\ sending \in {"none", "frame", "ping"}
    /\ streams \in SUBSET Ids /\ Cardinality(streams) <= MaxStreams
    /\ nextId \in 0 .. LastId /\ draining \in BOOLEAN
    /\ pending \in 0 .. MaxBeat /\ beat \in 1 .. MaxBeat /\ echo \in 0 .. MaxBeat
    /\ events \in Seq(Ids) /\ Len(events) <= MaxStreams
    /\ control \in Seq(0 .. MaxBeat) /\ Len(control) <= ControlCapacity
    /\ writer \in {"up", "finished", "failed"}
    /\ task \in [Ids -> TaskStates]
    /\ inbound \in [Ids -> Seq(FrameKinds)]
    /\ \A s \in Ids : Len(inbound[s]) <= InboundCapacity
    /\ ended \in [Ids -> SUBSET {"ingress", "agent"}]
    /\ answer \in [Ids -> {"none", "ok", "error"}]

\* No slot of the stream table is lost: a mapped stream has a running task or
\* a Closed event that will unmap it, whatever resets, overflows and late
\* frames did to the map and the channels in between.
SlotsRecoverable ==
    \A s \in streams : task[s] \in TaskStates \ {"none", "done"}
                          \/ \E i \in DOMAIN events : events[i] = s

\* The open call of every stream is answered exactly when the stream leaves
\* its opening phase: a relaying stream was acknowledged, and no task reports
\* Closed or returns with its caller still waiting.
CallersAnswered ==
    \A s \in Ids :
        /\ task[s] \in {"relay", "writing", "sending"} => answer[s] = "ok"
        /\ task[s] \in {"reset", "notify", "done"} => answer[s] # "none"

\* Once told, an answer stands: an id never names a second stream in the
\* session, not even when the id counter reaches its end.
IdsNeverReused ==
    [][\A s \in Ids : task[s] = "done" => task'[s] = "done" /\ answer'[s] = answer[s]]_vars

\* An Agent that echoes the PINGs it is sent never loses its session to an
\* unsolicited or mismatched PONG: what the Agent holds is what the loop waits
\* for whenever the loop can read it.
PongExpected == echo # 0 /\ loop \in {"run", "send"} => echo = pending

\* A drain is not forgotten: when every stream task of a draining session has
\* ended, the loop ends, although flow control may have emptied the map before
\* the last Closed event.
DrainEnds ==
    (draining /\ Running = {}) ~> (LoopGone \/ Running # {})

\* The session's detached stream tasks and its writer do not outlive it for
\* long: after the loop has returned they all end.
NoOrphans == (loop = "returned") ~> (Running = {} /\ (WriterGone \/ control = <<>>))

Outstanding == Cardinality(Running) + Len(events)

\* A session that ended with no more unfinished streams and unread events than
\* the event channel holds is torn down.
TeardownFits == (loop = "teardown" /\ Outstanding <= MaxStreams) ~> (loop = "returned")

\* A session that ended is torn down, and with it the capacity and the tunnel
\* claim of its Agent are released.
TeardownCompletes == (loop = "teardown") ~> (loop = "returned")

\* No slot, caller or heartbeat of a session is lost in any interleaving of its
\* loop, its writer and its stream tasks (run_edge_session, run_ingress_stream).
SessionSound == SlotsRecoverable /\ CallersAnswered /\ PongExpected

\* A session ends, and what has ended stays so: a drain is not forgotten, a
\* teardown whose events fit the channel completes, no task outlives the loop,
\* and no stream id is given out twice (run_edge_session).
SessionEnds == DrainEnds /\ NoOrphans /\ TeardownFits /\ IdsNeverReused
=============================================================================
