---------------------------- MODULE OrderedRelay ----------------------------
(***************************************************************************)
(* What the writer side of a tunnel session promises the tasks that use    *)
(* it, independently of how it queues and schedules: one FIFO per stream   *)
(* for DATA and END_STREAM, one FIFO for control frames, every accepted    *)
(* frame written in its turn and none of the FIFOs starved.  A transport   *)
(* failure may drop what was accepted; a graceful finish may not.          *)
(***************************************************************************)
EXTENDS Sequences

CONSTANTS Streams,  \* the logical streams
          Frames    \* the frames that may be offered

VARIABLES pending,         \* pending[s]: accepted DATA and END frames of s
          pendingControl,  \* accepted control frames
          phase            \* "up", "finished" or "failed"

vars == <<pending, pendingControl, phase>>

Init ==
    /\ pending = [s \in Streams |-> <<>>]
    /\ pendingControl = <<>>
    /\ phase = "up"

Offer(s) ==
    /\ phase = "up"
    /\ \E f \in Frames : pending' = [pending EXCEPT ![s] = Append(@, f)]
    /\ UNCHANGED <<pendingControl, phase>>

OfferControl ==
    /\ phase = "up"
    /\ \E f \in Frames : pendingControl' = Append(pendingControl, f)
    /\ UNCHANGED <<pending, phase>>

Deliver(s) ==
    /\ phase = "up"
    /\ pending[s] # <<>>
    /\ pending' = [pending EXCEPT ![s] = Tail(@)]
    /\ UNCHANGED <<pendingControl, phase>>

DeliverControl ==
    /\ phase = "up"
    /\ pendingControl # <<>>
    /\ pendingControl' = Tail(pendingControl)
    /\ UNCHANGED <<pending, phase>>

Finish ==
    /\ phase = "up"
    /\ pendingControl = <<>>
    /\ \A s \in Streams : pending[s] = <<>>
    /\ phase' = "finished"
    /\ UNCHANGED <<pending, pendingControl>>

Fail ==
    /\ phase = "up"
    /\ phase' = "failed"
    /\ pending' = [s \in Streams |-> <<>>]
    /\ pendingControl' = <<>>

Next ==
    \/ \E s \in Streams : Offer(s) \/ Deliver(s)
    \/ OfferControl \/ DeliverControl \/ Finish \/ Fail

\* No stream and not the control path is starved.
Fairness ==
    /\ \A s \in Streams : WF_vars(Deliver(s))
    /\ WF_vars(DeliverControl)

\* What may happen, without what must.
Safety == Init /\ [][Next]_vars

Spec == Safety /\ Fairness
=============================================================================
