----------------------------- MODULE ProcessLog -----------------------------
(***************************************************************************)
(* The optional nonblocking process log: threads that emit events into a   *)
(* bounded channel without ever waiting, the worker thread that writes     *)
(* them to stderr, and the guard whose drop stops admission and drains     *)
(* within a deadline (common process_logging.rs).                          *)
(*                                                                         *)
(* An event is a value; its rendering is left out.  stderr may refuse a    *)
(* write, and may block for good.                                          *)
(***************************************************************************)
EXTENDS Naturals, Sequences, FiniteSets, SequencesExt

CONSTANTS
    Threads,       \* the threads that log
    MaxEvents      \* events each emits

Unset == "unset"
Garbage == "garbage"

VARIABLES
    env,        \* the four environment variables
    log,        \* "boot", "refused", "blocking", "buffered"
    capacity,
    emitter,    \* each thread: "idle", or holding an event it saw admission open for
    emitted,    \* events each thread has emitted
    queue,      \* the bounded channel
    accepting,
    worker,     \* "polling", "draining", "flushing", "blocked", "done"
    handled,    \* events written, or counted as write failures, in order
    guard,      \* "held", "waiting", then "drained" or "detached"
    owed,       \* history: what the channel held when admission closed
    accepted_events,
    dropped_events

logVars == <<env, log, capacity, emitter, emitted, queue, accepting, worker, handled, guard, owed,
             accepted_events, dropped_events>>

-----------------------------------------------------------------------------
(* Configuration. *)

\* ProcessLogFormat::parse and parse_filter.
FormatOk(f) == f \in {Unset, "text", "json"}
FilterOk(f) == f # Garbage

\* parse_nonblocking_config: no buffer, a buffer of that capacity, or an error.  Both numbers
\* must lie between one and their maximum; "over" is past it.
NonblockingConfig(cap, drain) ==
    CASE cap = Unset -> IF drain = Unset THEN "none" ELSE "error"
      [] cap = Garbage -> "error"
      [] OTHER -> IF cap \in {"0", "over"} \/ drain \in {Garbage, "0", "over"} THEN "error" ELSE "buffered"

\* init_process_logging: an unusable environment refuses the process before it does anything.
Outcome(e) ==
    IF ~FormatOk(e.format) \/ ~FilterOk(e.filter) THEN "refused"
    ELSE CASE NonblockingConfig(e.capacity, e.drain) = "error" -> "refused"
           [] NonblockingConfig(e.capacity, e.drain) = "none" -> "blocking"
           [] OTHER -> "buffered"

Environments ==
    [format : {Unset, Garbage}, filter : {Unset, Garbage},
     capacity : {Unset, Garbage, "0", "over", "1", "2"}, drain : {Unset, Garbage, "0", "over", "ok"}]

Init ==
    /\ env \in Environments
    /\ log = "boot" /\ capacity = 0
    /\ emitter = [t \in Threads |-> "idle"]
    /\ emitted = [t \in Threads |-> 0]
    /\ queue = <<>> /\ accepting = TRUE
    /\ worker = "polling" /\ handled = <<>>
    /\ guard = "held" /\ owed = {}
    /\ accepted_events = 0 /\ dropped_events = 0

InitProcessLogging ==
    /\ log = "boot"
    /\ log' = Outcome(env)
    /\ capacity' = IF log' = "buffered" THEN (IF env.capacity = "1" THEN 1 ELSE 2) ELSE 0
    /\ UNCHANGED <<env, emitter, emitted, queue, accepting, worker, handled, guard, owed,
                   accepted_events, dropped_events>>

-----------------------------------------------------------------------------
(* BoundedEventWriter: the event is admitted or dropped when it is dropped. *)

Buffered == log = "buffered"

\* It looks at the flag first; an event of more than the maximum size, or an empty one,
\* never gets here.
Emit(t) ==
    /\ Buffered /\ emitter[t] = "idle" /\ emitted[t] < MaxEvents
    /\ emitted' = [emitted EXCEPT ![t] = @ + 1]
    /\ \/ /\ accepting
          /\ emitter' = [emitter EXCEPT ![t] = "admitted"]
          /\ UNCHANGED dropped_events
       \/ /\ ~accepting
          /\ dropped_events' = dropped_events + 1
          /\ UNCHANGED emitter
    /\ UNCHANGED <<env, log, capacity, queue, accepting, worker, handled, guard, owed, accepted_events>>

\* try_send: a full or disconnected channel drops the event.
TrySend(t) ==
    /\ emitter[t] = "admitted"
    /\ emitter' = [emitter EXCEPT ![t] = "idle"]
    /\ \/ /\ Len(queue) < capacity /\ worker # "done"
          /\ queue' = Append(queue, <<t, emitted[t]>>)
          /\ accepted_events' = accepted_events + 1
          /\ UNCHANGED dropped_events
       \/ /\ Len(queue) >= capacity \/ worker = "done"
          /\ dropped_events' = dropped_events + 1
          /\ UNCHANGED <<queue, accepted_events>>
    /\ UNCHANGED <<env, log, capacity, emitted, accepting, worker, handled, guard, owed>>

-----------------------------------------------------------------------------
(* run_log_worker. *)

\* write_all returns, with or without an error, or stderr blocks for good.
Write ==
    /\ Buffered /\ worker \in {"polling", "draining"} /\ queue # <<>>
    /\ \/ queue' = Tail(queue) /\ handled' = Append(handled, Head(queue)) /\ UNCHANGED worker
       \/ queue' = Tail(queue) /\ worker' = "blocked" /\ UNCHANGED handled
    /\ UNCHANGED <<env, log, capacity, emitter, emitted, accepting, guard, owed, accepted_events,
                   dropped_events>>

\* It ends the loop as soon as admission is closed, and the loop is not followed by a drain.
MutPollTimesOut ==
    /\ Buffered /\ worker = "polling" /\ ~accepting
    /\ worker' = "flushing"
    /\ UNCHANGED <<env, log, capacity, emitter, emitted, queue, accepting, handled, guard, owed,
                   accepted_events, dropped_events>>

\* A poll that times out ends the loop once admission is closed.
PollTimesOut ==
    /\ Buffered /\ worker = "polling" /\ queue = <<>> /\ ~accepting
    /\ worker' = "draining"
    /\ UNCHANGED <<env, log, capacity, emitter, emitted, queue, accepting, handled, guard, owed,
                   accepted_events, dropped_events>>

DrainEnds ==
    /\ Buffered /\ worker = "draining" /\ queue = <<>>
    /\ worker' = "flushing"
    /\ UNCHANGED <<env, log, capacity, emitter, emitted, queue, accepting, handled, guard, owed,
                   accepted_events, dropped_events>>

\* The channel is dropped with whatever was sent after the drain ended.
Flush ==
    /\ Buffered /\ worker = "flushing"
    /\ worker' \in {"done", "blocked"}
    /\ UNCHANGED <<env, log, capacity, emitter, emitted, queue, accepting, handled, guard, owed,
                   accepted_events, dropped_events>>

-----------------------------------------------------------------------------
(* NonblockingWorkerGuard::shutdown. *)

CloseAdmission ==
    /\ Buffered /\ guard = "held"
    /\ guard' = "waiting" /\ accepting' = FALSE
    /\ owed' = ToSet(queue)
    /\ UNCHANGED <<env, log, capacity, emitter, emitted, queue, worker, handled, accepted_events,
                   dropped_events>>

Joined ==
    /\ Buffered /\ guard = "waiting" /\ worker = "done"
    /\ guard' = "drained"
    /\ UNCHANGED <<env, log, capacity, emitter, emitted, queue, accepting, worker, handled, owed,
                   accepted_events, dropped_events>>

\* The drain deadline passes and the worker is detached.
Detach ==
    /\ Buffered /\ guard = "waiting" /\ worker # "done"
    /\ guard' = "detached"
    /\ UNCHANGED <<env, log, capacity, emitter, emitted, queue, accepting, worker, handled, owed,
                   accepted_events, dropped_events>>

Next ==
    \/ InitProcessLogging \/ CloseAdmission \/ Joined \/ Detach
    \/ Write \/ PollTimesOut \/ DrainEnds \/ Flush
    \/ \E t \in Threads : Emit(t) \/ TrySend(t)

Fairness == WF_logVars(Joined) /\ WF_logVars(Detach)

Spec == Init /\ [][Next]_logVars /\ Fairness

-----------------------------------------------------------------------------
\* A shutdown that reports a complete drain has lost nothing the channel held when admission
\* closed, and events of one thread come out in the order it emitted them; an event that was
\* emitted is counted as accepted or as dropped, never both, and the channel never holds more
\* than its capacity.
DrainKeepsEvents ==
    /\ guard = "drained" => owed \subseteq ToSet(handled)
    /\ \A i, j \in 1 .. Len(handled) :
          i < j /\ handled[i][1] = handled[j][1] => handled[i][2] < handled[j][2]
    /\ accepted_events + dropped_events + Cardinality({t \in Threads : emitter[t] = "admitted"})
          = FoldSeq(LAMBDA t, n : emitted[t] + n, 0, SetToSeq(Threads))
    /\ Len(queue) <= capacity

\* Shutting the log down returns even when stderr never takes another byte.
LogShutdownReturns == guard = "waiting" ~> guard \in {"drained", "detached"}
=============================================================================
