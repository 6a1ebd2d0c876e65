---------------------------- MODULE AgentSession ----------------------------
(***************************************************************************)
(* One established session on the Agent (crates/agent/src/multiplex.rs):   *)
(* the loop that decodes frames and watches the shutdown signal            *)
(* (run_multiplexed_inner), and one task per logical stream that bridges a *)
(* connection to the local service (run_local_stream).                     *)
(*                                                                         *)
(* The Edge is the environment: it sends any stream frame at any time, but *)
(* opens a fresh id for every stream, as EdgeSession shows.  The writer is *)
(* what its users see of it: it takes control frames in order, it may      *)
(* fail, and it finishes when all its senders are gone.                    *)
(***************************************************************************)
EXTENDS Naturals, Sequences, FiniteSets

CONSTANTS Ids,              \* the stream ids the Edge opens
          MaxStreams,       \* max_concurrent_streams
          InboundCapacity,  \* per_stream_queue_capacity
          ControlCapacity   \* control_queue_capacity

VARIABLES
  loop,      \* where the session loop stands
  answering, \* the stream whose RESET the loop waits to send, 0 for a PONG
  streams,   \* keys of the streams map
  signal,    \* the process was told to shut down
  draining,  \* the loop has seen it
  deadline,  \* the drain deadline has passed
  forced,    \* it ended the loop
  events,    \* the channel of Closed events
  control,   \* frames in the control channel
  writer,    \* the writer task
  bridge,    \* where each stream task stands
  inbound,   \* each stream's inbound channel
  ended,     \* directions of each stream that have ended
  settled    \* history: streams that ended or were reset, as the Edge knows

loopVars == <<loop, answering, streams, signal, draining, deadline, forced>>
bridgeVars == <<bridge, inbound, ended>>
sessionVars == <<loopVars, events, control, writer, bridgeVars, settled>>

\* "bad" is an END_STREAM with a payload or an undecodable RESET_STREAM.
FrameKinds == {"data", "end", "reset", "bad"}

RunningBridges == {s \in Ids : bridge[s] \notin {"none", "done"}}
Both == {"local", "peer"}
WriterGone == writer \in {"finished", "failed"}

SessionInit ==
  /\ loop = "run" /\ answering = 0 /\ streams = {}
  /\ signal = FALSE /\ draining = FALSE /\ deadline = FALSE /\ forced = FALSE
  /\ events = <<>> /\ control = 0 /\ writer = "up"
  /\ bridge = [s \in Ids |-> "none"] /\ inbound = [s \in Ids |-> <<>>]
  /\ ended = [s \in Ids |-> {}] /\ settled = {}

-----------------------------------------------------------------------------
(* The session loop.  Its select! is biased: the signal and the drain      *)
(* deadline are looked at before a frame is.                               *)

Selects == loop = "run" /\ (signal => draining) /\ ~deadline

\* The loop breaks: streams.clear(), and the tasks are joined.
Break == loop' = "join" /\ streams' = {}

\* An error is returned at once: the map and the JoinSet are dropped, which
\* aborts the tasks, and the writer task is detached.
Fail == loop' = "returned" /\ answering' = 0 /\ streams' = {}

Shutdown ==
  /\ ~signal /\ signal' = TRUE
  /\ UNCHANGED <<loop, answering, streams, draining, deadline, forced, events, control,
                 writer, bridgeVars, settled>>

\* shutdown_wait: with no stream in the map the loop is over.
BeginDrain ==
  /\ loop = "run" /\ signal /\ ~draining
  /\ draining' = TRUE
  /\ IF streams = {} THEN Break ELSE UNCHANGED <<loop, streams>>
  /\ UNCHANGED <<answering, signal, deadline, forced, events, control, writer, bridgeVars, settled>>

DeadlinePasses ==
  /\ draining /\ ~deadline /\ loop \in {"run", "send"} /\ deadline' = TRUE
  /\ UNCHANGED <<loop, answering, streams, signal, draining, forced, events, control, writer,
                 bridgeVars, settled>>

\* A forced end that leaves the tasks to themselves.
MutForcedEnd ==
  /\ loop = "run" /\ deadline /\ Break
  /\ UNCHANGED <<answering, signal, draining, deadline, forced, events, control, writer,
                 bridgeVars, settled>>

\* drain_deadline: stream_tasks.abort_all() follows.
ForcedEnd ==
  /\ loop = "run" /\ deadline /\ Break /\ forced' = TRUE
  /\ UNCHANGED <<answering, signal, draining, deadline, events, control, writer, bridgeVars, settled>>

\* send_reset or send_control inside the decode arm: nothing else is polled
\* until the control channel takes the frame.
Await(s) == loop' = "send" /\ answering' = s

Ping ==
  /\ Selects /\ Await(0)
  /\ UNCHANGED <<streams, signal, draining, deadline, forced, events, control, writer,
                 bridgeVars, settled>>

\* OPEN_STREAM with a fresh id, room in the map and no drain.
OpenStream(s) ==
  /\ Selects /\ ~draining /\ bridge[s] = "none" /\ Cardinality(streams) < MaxStreams
  /\ streams' = streams \cup {s} /\ bridge' = [bridge EXCEPT ![s] = "connecting"]
  /\ settled' = settled \ {s}
  /\ UNCHANGED <<loop, answering, signal, draining, deadline, forced, events, control, writer,
                 inbound, ended>>

\* Any other OPEN_STREAM, or one with a payload, is answered with a reset and
\* changes no stream.
RefuseOpen(s) ==
  /\ Selects /\ Await(s)
  /\ UNCHANGED <<streams, signal, draining, deadline, forced, events, control, writer,
                 bridgeVars, settled>>

\* The Edge resets a stream: nothing more is owed to it.
Settle(s, k) == settled' = IF k = "reset" THEN settled \cup {s} ELSE settled

Dispatch(s, k) ==
  /\ Selects /\ s \in streams /\ bridge[s] # "done" /\ Len(inbound[s]) < InboundCapacity
  /\ inbound' = [inbound EXCEPT ![s] = Append(@, k)] /\ Settle(s, k)
  /\ UNCHANGED <<loopVars, events, control, writer, bridge, ended>>

\* A stream that is dropped without a word to the Edge.
MutOverflow(s) ==
  /\ Selects /\ s \in streams
  /\ streams' = streams \ {s}
  /\ UNCHANGED <<loop, answering, signal, draining, deadline, forced, events, control, writer,
                 bridgeVars, settled>>

\* DATA over the payload budget, or a frame that finds the channel full.
Overflow(s) ==
  /\ Selects
  /\ streams' = streams \ {s} /\ Await(s)
  /\ UNCHANGED <<signal, draining, deadline, forced, events, control, writer, bridgeVars, settled>>

\* A frame for a task that has ended, or for no stream.
Unknown(s, k) ==
  /\ Selects /\ (s \notin streams \/ bridge[s] = "done")
  /\ streams' = streams \ {s} /\ Settle(s, k)
  /\ IF k = "reset" THEN UNCHANGED <<loop, answering>> ELSE Await(s)
  /\ UNCHANGED <<signal, draining, deadline, forced, events, control, writer, bridgeVars>>

\* EOF from the Edge.
PeerClosed ==
  /\ Selects /\ Break
  /\ UNCHANGED <<answering, signal, draining, deadline, forced, events, control, writer,
                 bridgeVars, settled>>

\* An undecodable frame, ERROR, a frame that does not belong here, a PING
\* without a sequence, or the end of the writer.
SessionError ==
  /\ Selects /\ Fail
  /\ UNCHANGED <<signal, draining, deadline, forced, events, control, writer, bridgeVars, settled>>

\* StreamEvent::Closed; a drain ends with the last mapped stream.
ReceiveEvent ==
  /\ Selects /\ events # <<>>
  /\ events' = Tail(events)
  /\ IF draining /\ streams \ {Head(events)} = {}
     THEN Break
     ELSE streams' = streams \ {Head(events)} /\ UNCHANGED loop
  /\ UNCHANGED <<answering, signal, draining, deadline, forced, control, writer, bridgeVars, settled>>

ControlRoom == ~WriterGone /\ control < ControlCapacity

LoopSends ==
  /\ loop = "send"
  /\ IF WriterGone
     THEN Fail /\ UNCHANGED <<control, settled>>
     ELSE /\ ControlRoom /\ control' = control + 1
          /\ settled' = settled \cup ({answering} \ {0})
          /\ loop' = "run" /\ answering' = 0 /\ UNCHANGED streams
  /\ UNCHANGED <<signal, draining, deadline, forced, events, writer, bridgeVars>>

\* while stream_tasks.join_next().await.is_some() {}; then the senders go.
Joined ==
  /\ loop = "join" /\ RunningBridges = {} /\ loop' = "flush"
  /\ UNCHANGED <<answering, streams, signal, draining, deadline, forced, events, control, writer,
                 bridgeVars, settled>>

\* writer_task.await.
Flushed ==
  /\ loop = "flush" /\ WriterGone /\ loop' = "returned"
  /\ UNCHANGED <<answering, streams, signal, draining, deadline, forced, events, control, writer,
                 bridgeVars, settled>>

-----------------------------------------------------------------------------
(* The writer.                                                             *)

WriterTakes ==
  /\ writer = "up" /\ control > 0 /\ control' = control - 1
  /\ UNCHANGED <<loopVars, events, writer, bridgeVars, settled>>

WriterFinishes ==
  /\ writer = "up" /\ control = 0 /\ loop \in {"flush", "returned"} /\ RunningBridges = {}
  /\ writer' = "finished"
  /\ UNCHANGED <<loopVars, events, control, bridgeVars, settled>>

WriterFails ==
  /\ writer = "up" /\ writer' = "failed" /\ control' = 0
  /\ UNCHANGED <<loopVars, events, bridgeVars, settled>>

-----------------------------------------------------------------------------
(* A stream task: run_local_stream.                                        *)

Goto(s, t) == bridge' = [bridge EXCEPT ![s] = t]
Takes(s) == inbound' = [inbound EXCEPT ![s] = Tail(@)]
Closed(s) == inbound[s] = <<>> /\ s \notin streams

\* The connection to the local service is made, fails or times out.
ConnectLocal(s) ==
  /\ bridge[s] = "connecting" /\ \E t \in {"acking", "reset"} : Goto(s, t)
  /\ UNCHANGED <<loopVars, events, control, writer, inbound, ended, settled>>

\* A frame, or the end of the session, before the connection is made.
ConnectInterrupted(s) ==
  /\ bridge[s] = "connecting"
  /\ \/ /\ inbound[s] # <<>> /\ Takes(s)
        /\ Goto(s, IF Head(inbound[s]) = "reset" THEN "notify" ELSE "reset")
     \/ Closed(s) /\ Goto(s, "notify") /\ UNCHANGED inbound
  /\ UNCHANGED <<loopVars, events, control, writer, ended, settled>>

\* OPEN_STREAM acknowledges the stream.
Acknowledge(s) ==
  /\ bridge[s] = "acking"
  /\ IF WriterGone
     THEN Goto(s, "notify") /\ UNCHANGED control
     ELSE ControlRoom /\ control' = control + 1 /\ Goto(s, "relay")
  /\ UNCHANGED <<loopVars, events, writer, inbound, ended, settled>>

Relays(s) == bridge[s] = "relay" /\ ended[s] # Both

\* inbound.recv(): DATA is written, END_STREAM shuts the local socket down,
\* which may fail, and what does not fit is a violation.
RelayFrame(s) ==
  /\ Relays(s) /\ inbound[s] # <<>> /\ Takes(s)
  /\ LET k == Head(inbound[s]) IN
     \/ k = "data" /\ "peer" \notin ended[s] /\ Goto(s, "writing") /\ UNCHANGED ended
     \/ /\ k = "end" /\ "peer" \notin ended[s]
        /\ ended' = [ended EXCEPT ![s] = @ \cup {"peer"}]
        /\ \E t \in {"relay", "reset"} : Goto(s, t)
     \/ k = "reset" /\ Goto(s, "notify") /\ UNCHANGED ended
     \/ /\ k = "bad" \/ (k \in {"data", "end"} /\ "peer" \in ended[s])
        /\ Goto(s, "reset") /\ UNCHANGED ended
  /\ UNCHANGED <<loopVars, events, control, writer, settled>>

\* inbound.recv() is None: the loop dropped the sender.
InboundClosed(s) ==
  /\ Relays(s) /\ Closed(s) /\ Goto(s, "notify")
  /\ UNCHANGED <<loopVars, events, control, writer, inbound, ended, settled>>

\* local.write_all returns.
WriteDone(s) ==
  /\ bridge[s] = "writing" /\ \E t \in {"relay", "reset"} : Goto(s, t)
  /\ UNCHANGED <<loopVars, events, control, writer, inbound, ended, settled>>

\* The local socket is read: bytes, EOF or an error.
ReadLocal(s) ==
  /\ Relays(s) /\ "local" \notin ended[s]
  /\ \/ Goto(s, "sending") /\ UNCHANGED ended
     \/ Goto(s, "sending") /\ ended' = [ended EXCEPT ![s] = @ \cup {"local"}]
     \/ Goto(s, "reset") /\ UNCHANGED ended
  /\ UNCHANGED <<loopVars, events, control, writer, inbound, settled>>

\* send_data: admitted by the DATA queue, or the writer is gone.
DataSent(s) ==
  /\ bridge[s] = "sending" /\ Goto(s, IF WriterGone THEN "notify" ELSE "relay")
  /\ UNCHANGED <<loopVars, events, control, writer, inbound, ended, settled>>

\* stream_idle_timeout.
Idle(s) ==
  /\ Relays(s) /\ Goto(s, "reset")
  /\ UNCHANGED <<loopVars, events, control, writer, inbound, ended, settled>>

\* Both directions have ended.
Graceful(s) ==
  /\ bridge[s] = "relay" /\ ended[s] = Both /\ Goto(s, "notify")
  /\ settled' = settled \cup {s}
  /\ UNCHANGED <<loopVars, events, control, writer, inbound, ended>>

\* send_reset by the task; a dead writer is ignored.
SendReset(s) ==
  /\ bridge[s] = "reset" /\ Goto(s, "notify")
  /\ IF WriterGone THEN UNCHANGED control ELSE ControlRoom /\ control' = control + 1
  /\ settled' = settled \cup {s}
  /\ UNCHANGED <<loopVars, events, writer, inbound, ended>>

Ends(s) == /\ Goto(s, "done") /\ inbound' = [inbound EXCEPT ![s] = <<>>]
           /\ ended' = [ended EXCEPT ![s] = {}]

\* event_tx.send(Closed): room in the channel, or its receiver is gone.
Notify(s) ==
  /\ bridge[s] = "notify" /\ Ends(s)
  /\ IF loop = "returned"
     THEN UNCHANGED events
     ELSE Len(events) < MaxStreams /\ events' = Append(events, s)
  /\ UNCHANGED <<loopVars, control, writer, settled>>

\* The task is dropped at an await: abort_all, or the end of the JoinSet.
Aborted(s) ==
  /\ s \in RunningBridges /\ (loop = "returned" \/ (forced /\ loop = "join")) /\ Ends(s)
  /\ UNCHANGED <<loopVars, events, control, writer, settled>>

-----------------------------------------------------------------------------
LoopStep == BeginDrain \/ ForcedEnd \/ LoopSends \/ Joined \/ Flushed
WriterStep == WriterTakes \/ WriterFinishes
BridgeStep(s) ==
  \/ ConnectLocal(s) \/ ConnectInterrupted(s) \/ Acknowledge(s) \/ RelayFrame(s) \/ InboundClosed(s)
  \/ DataSent(s) \/ Idle(s) \/ Graceful(s) \/ SendReset(s) \/ Notify(s) \/ Aborted(s)

SessionNext ==
  \/ Shutdown \/ DeadlinePasses \/ LoopStep \/ ReceiveEvent \/ WriterStep \/ WriterFails
  \/ Ping \/ PeerClosed \/ SessionError
  \/ \E s \in Ids : \/ OpenStream(s) \/ RefuseOpen(s) \/ Overflow(s)
                    \/ \E k \in FrameKinds : Dispatch(s, k) \/ Unknown(s, k)
                    \/ BridgeStep(s) \/ WriteDone(s) \/ ReadLocal(s)

\* Tasks are polled, timers fire, and the transport takes what the writer has
\* or fails; a task's select! picks among its ready arms at random.  The
\* local service reads what it is sent or fails: no deadline bounds a write
\* to it.
SessionFairness ==
  /\ WF_sessionVars(LoopStep) /\ WF_sessionVars(DeadlinePasses) /\ WF_sessionVars(WriterStep)
  /\ \A s \in Ids : /\ WF_sessionVars(BridgeStep(s))
                    /\ SF_sessionVars(RelayFrame(s) \/ InboundClosed(s))
                    /\ WF_sessionVars(WriteDone(s))

SessionSpec == SessionInit /\ [][SessionNext]_sessionVars /\ SessionFairness

-----------------------------------------------------------------------------
\* While the session lives and its writer writes, no stream is forgotten on
\* one side: a mapped stream has a task or a Closed event to come, and of a
\* stream whose task is over the Edge has heard, by END_STREAM both ways or by
\* a reset of either side (run_multiplexed_inner, run_local_stream).
AgentStreamsSound ==
  loop \in {"run", "send"} /\ writer = "up" =>
    /\ \A s \in streams : s \in RunningBridges \/ \E i \in DOMAIN events : events[i] = s
    /\ \A s \in Ids : bridge[s] = "done" =>
         s \in settled \/ (loop = "send" /\ answering = s)

Outstanding == Cardinality(RunningBridges) + Len(events)

\* A shutdown ends the loop at its deadline at the latest; and of a loop that
\* was forced, that left no more tasks than the event channel holds or that
\* failed, neither a task nor the writer remains.
AgentSessionEnds ==
  /\ signal ~> loop \notin {"run", "send"}
  /\ (loop = "returned" \/ (loop = "join" /\ (deadline \/ Outstanding <= MaxStreams)))
       ~> (loop = "returned" /\ RunningBridges = {} /\ WriterGone)
=============================================================================
