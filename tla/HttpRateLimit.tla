---------------------------- MODULE HttpRateLimit ----------------------------
(***************************************************************************)
(* Request-rate admission of the HTTPS ingress (http_rate_limit.rs): one   *)
(* token bucket for the process, one for every tracked source address, all *)
(* behind one mutex.  Every request reads the clock before it takes the    *)
(* mutex, so two requests may enter in the opposite order of their stamps. *)
(*                                                                         *)
(* Tokens are in units of 1/Scale of a request and time in ticks; a bucket *)
(* gains `rate` units a tick, as the code gains `rate` units of 10^-9 of a *)
(* request a nanosecond.                                                   *)
(***************************************************************************)
EXTENDS Integers, Sequences, FiniteSets

CONSTANTS Peers,          \* source addresses
          Threads,        \* connection tasks that may be inside try_admit
          Scale,          \* TOKEN_SCALE
          GlobalRate, GlobalBurst, PeerRate, PeerBurst,
          MaxTrackedIps,  \* max_tracked_ips
          CleanupBatch,   \* PEER_CLEANUP_BATCH
          IdleTtls,       \* the values of peer_idle_ttl explored
          MaxWait,        \* bound: ticks a call waits for the mutex
          MaxClock,       \* bound: ticks of a behaviour
          MaxAdmitted     \* bound: requests admitted in a behaviour

VARIABLES clock,   \* Instant::now()
          idleTtl, \* peer_idle_ttl, fixed at start
          call,    \* per thread: NoCall, or the peer and stamp it waits with
          global,  \* the process's bucket
          peers,   \* tracked address -> [bucket, last_seen]
          order,   \* peer_order
          log,     \* the admissions so far, oldest first (history variable)
          verdict  \* the rejection just given: the bucket it found and the retry it promised

vars == <<clock, idleTtl, call, global, peers, order, log, verdict>>

NoCall == [peer |-> "none", at |-> 0]
NoVerdict == [spent |-> FALSE, tokens |-> 0, rate |-> 1, retry |-> 0]

(***************************************************************************)
(* HttpRequestRateLimitConfig::validate and validate_quota, for the        *)
(* comparisons that do not name one of the code's fixed maxima.            *)
(***************************************************************************)
QuotaValid(rate, burst) == rate > 0 /\ burst >= rate

ConfigValid ==
    /\ QuotaValid(GlobalRate, GlobalBurst)
    /\ QuotaValid(PeerRate, PeerBurst)
    /\ PeerRate <= GlobalRate
    /\ PeerBurst <= GlobalBurst
    /\ MaxTrackedIps > 0
    /\ \A ttl \in IdleTtls : ttl > 0

ASSUME RateConfigAssumption ==
    /\ ConfigValid /\ Scale > 0 /\ CleanupBatch > 0
    /\ {Scale, GlobalRate, GlobalBurst, PeerRate, PeerBurst, MaxTrackedIps, CleanupBatch, MaxWait}
         \subseteq Nat
    /\ IdleTtls \subseteq Nat

(***************************************************************************)
(* TokenBucket.                                                            *)
(***************************************************************************)
NewBucket(rate, burst, now) ==
    [rate |-> rate, capacity |-> burst * Scale, tokens |-> burst * Scale, last_refill |-> now]

MinOf(a, b) == IF a < b THEN a ELSE b

MutRefill(b, now) ==
    [b EXCEPT !.tokens = b.tokens + (now - b.last_refill) * b.rate, !.last_refill = now]

Refill(b, now) ==
    IF now <= b.last_refill THEN b
    ELSE [b EXCEPT !.tokens = MinOf(b.tokens + (now - b.last_refill) * b.rate, b.capacity),
                   !.last_refill = now]

Spent(b) == b.tokens < Scale

RetryAfter(b) == (Scale - b.tokens + b.rate - 1) \div b.rate

Consume(b) == [b EXCEPT !.tokens = IF b.tokens >= Scale THEN b.tokens - Scale ELSE 0]

(***************************************************************************)
(* cleanup_idle_peers: the first CleanupBatch addresses of the order are   *)
(* examined once; an idle one is forgotten, another goes to the back.      *)
(***************************************************************************)
IdlePeer(p, now) == now >= peers[p].last_seen /\ now - peers[p].last_seen >= idleTtl

Expired(now) ==
    {p \in {order[i] : i \in 1..MinOf(Len(order), CleanupBatch)} : IdlePeer(p, now)}

\* The k-th member of a set of numbers.
Nth(S, k) == CHOOSE i \in S : Cardinality({j \in S : j <= i}) = k

CleanedOrder(now) ==
    LET n == MinOf(Len(order), CleanupBatch)
        kept == {i \in 1..n : order[i] \notin Expired(now)}
    IN  SubSeq(order, n + 1, Len(order))
          \o [k \in 1..Cardinality(kept) |-> order[Nth(kept, k)]]

CleanedPeers(now) == [p \in DOMAIN peers \ Expired(now) |-> peers[p]]

Insert(f, p, now) ==
    [q \in DOMAIN f \cup {p} |->
        IF q = p THEN [bucket |-> NewBucket(PeerRate, PeerBurst, now), last_seen |-> now] ELSE f[q]]

-----------------------------------------------------------------------------
Init ==
    /\ clock = 0
    /\ idleTtl \in IdleTtls
    /\ call = [t \in Threads |-> NoCall]
    /\ global = NewBucket(GlobalRate, GlobalBurst, 0)
    /\ peers = [p \in {} |-> NoCall]
    /\ order = <<>>
    /\ log = <<>>
    /\ verdict = NoVerdict

Tick ==
    /\ clock < MaxClock
    /\ \A t \in Threads : call[t] = NoCall \/ clock - call[t].at < MaxWait
    /\ clock' = clock + 1
    /\ verdict' = NoVerdict
    /\ UNCHANGED <<idleTtl, call, global, peers, order, log>>

\* try_admit reads the clock, then waits for the mutex.
Call(t, p) ==
    /\ call[t] = NoCall
    /\ Len(log) < MaxAdmitted
    /\ call' = [call EXCEPT ![t] = [peer |-> p, at |-> clock]]
    /\ verdict' = NoVerdict
    /\ UNCHANGED <<clock, idleTtl, global, peers, order, log>>

Reject(b) ==
    verdict' = [spent |-> TRUE, tokens |-> b.tokens, rate |-> b.rate, retry |-> RetryAfter(b)]

\* The table the request of peer p decides with: cleaned and extended when p is new.
Lookup(p, now) ==
    IF p \in DOMAIN peers THEN [peers |-> peers, order |-> order]
    ELSE [peers |-> CleanedPeers(now), order |-> CleanedOrder(now)]

\* try_admit_at under the mutex.
Admit(t) ==
    /\ call[t] # NoCall
    /\ call' = [call EXCEPT ![t] = NoCall]
    /\ LET p == call[t].peer
           now == call[t].at
           g == Refill(global, now)
           table == Lookup(p, now)
           room == p \in DOMAIN table.peers \/ Cardinality(DOMAIN table.peers) < MaxTrackedIps
           with == IF p \in DOMAIN table.peers THEN table.peers ELSE Insert(table.peers, p, now)
           b == Refill(with[p].bucket, now)
       IN  \/ /\ Spent(g)
              /\ global' = g
              /\ Reject(g)
              /\ UNCHANGED <<peers, order, log>>
           \/ /\ ~Spent(g) /\ ~room
              /\ global' = g
              /\ peers' = table.peers
              /\ order' = table.order
              /\ verdict' = NoVerdict
              /\ UNCHANGED log
           \/ /\ ~Spent(g) /\ room
              /\ order' = IF p \in DOMAIN table.peers THEN table.order ELSE Append(table.order, p)
              /\ \/ /\ Spent(b)
                    /\ global' = g
                    /\ peers' = [with EXCEPT ![p] = [bucket |-> b, last_seen |-> now]]
                    /\ Reject(b)
                    /\ UNCHANGED log
                 \/ /\ ~Spent(b)
                    /\ global' = Consume(g)
                    /\ peers' = [with EXCEPT ![p] = [bucket |-> Consume(b), last_seen |-> now]]
                    /\ verdict' = NoVerdict
                    /\ log' = Append(log, [peer |-> p, at |-> g.last_refill, peerAt |-> b.last_refill])
    /\ UNCHANGED <<clock, idleTtl>>

Next ==
    \/ Tick
    \/ \E t \in Threads, p \in Peers : Call(t, p)
    \/ \E t \in Threads : Admit(t)

Spec == Init /\ [][Next]_vars

-----------------------------------------------------------------------------
\* The process's bucket bounds every window: the requests admitted between two
\* admissions never exceed the burst plus what the rate earned in between,
\* whatever order the stamps reach the mutex in.
GlobalWindowBound ==
    \A i, j \in 1..Len(log) :
        i <= j => (j - i + 1) * Scale <= GlobalBurst * Scale + GlobalRate * (log[j].at - log[i].at)

\* The admissions of peer p from the i-th to the j-th.
Admitted(p, i, j) == Cardinality({m \in i..j : log[m].peer = p})

\* An address is bounded by its own bucket across eviction: forgetting an idle address
\* and meeting it again with a full bucket gives it nothing, provided the idle time
\* outlasts, by twice the longest wait for the mutex (a late call also moves last_seen
\* back), the refill of the bucket it lost.
PeerWindowBound ==
    (idleTtl - 2 * MaxWait) * PeerRate >= PeerBurst * Scale =>
        \A i, j \in 1..Len(log) :
            i <= j /\ log[i].peer = log[j].peer =>
                Admitted(log[i].peer, i, j) * Scale <=
                    PeerBurst * Scale + PeerRate * (log[j].peerAt - log[i].peerAt)

\* Retry-After is exact: a refused caller that waits it out finds a token, and
\* one tick less would not have been enough.
RetryAfterExact ==
    verdict.spent =>
        /\ verdict.tokens + verdict.retry * verdict.rate >= Scale
        /\ verdict.tokens + (verdict.retry - 1) * verdict.rate < Scale

\* The table and its eviction order name the same addresses, each once, within the cap.
TableConsistent ==
    /\ Cardinality(DOMAIN peers) <= MaxTrackedIps
    /\ Len(order) = Cardinality(DOMAIN peers)
    /\ {order[i] : i \in 1..Len(order)} = DOMAIN peers

\* Token buckets bound every window of admissions, of the process and of an
\* address across its eviction; Retry-After is exact; table and eviction order
\* agree (try_admit_at).
RateLimitSound == GlobalWindowBound /\ PeerWindowBound /\ RetryAfterExact /\ TableConsistent
=============================================================================
