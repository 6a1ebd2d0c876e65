----------------------------- MODULE FairQueue -----------------------------
(***************************************************************************)
(* BoundedFairQueue<K, V> of crates/common/src/bounded_fair_queue.rs: one  *)
(* FIFO per key, served round-robin.  A queue is a record of               *)
(*   len     the item count the code keeps beside the containers,          *)
(*   active  the VecDeque of keys that have an item, in service order,     *)
(*   queues  the per-key FIFOs; a key the HashMap does not hold is <<>>    *)
(*           here, because pop removes a key's queue when it empties it.   *)
(***************************************************************************)
EXTENDS Naturals, Sequences

EmptyQueue(Key) ==
    [len |-> 0, active |-> <<>>, queues |-> [k \in Key |-> <<>>]]

\* push: a key without a queue joins the back of the service order, a key with
\* one keeps its place.  The refusal of a full queue is left to the caller's
\* admission bound, under which it never happens.
Push(q, k, v) ==
    [len    |-> q.len + 1,
     active |-> IF q.queues[k] = <<>> THEN Append(q.active, k) ELSE q.active,
     queues |-> [q.queues EXCEPT ![k] = Append(@, v)]]

\* A pop that serves the front key until its queue is empty.
PopWithoutRotation(q) ==
    LET k    == Head(q.active)
        rest == Tail(q.queues[k])
    IN  [len    |-> q.len - 1,
         active |-> IF rest = <<>> THEN Tail(q.active) ELSE q.active,
         queues |-> [q.queues EXCEPT ![k] = rest]]

\* pop: the front key gives one item and goes to the back if it has more.
Pop(q) ==
    LET k    == Head(q.active)
        rest == Tail(q.queues[k])
    IN  [len    |-> q.len - 1,
         active |-> IF rest = <<>> THEN Tail(q.active)
                                   ELSE Append(Tail(q.active), k),
         queues |-> [q.queues EXCEPT ![k] = rest]]

\* The item pop returns.
Popped(q) == Head(q.queues[Head(q.active)])
=============================================================================
