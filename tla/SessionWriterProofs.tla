------------------------ MODULE SessionWriterProofs ------------------------
(***************************************************************************)
(* Proofs about SessionWriter, for every set of streams, every capacity    *)
(* and every burst limit.                                                  *)
(***************************************************************************)
EXTENDS SessionWriter, FiniteSetTheorems, TLAPS

-----------------------------------------------------------------------------
(* Facts about sequences.                                                  *)

\* Length, domain and elements.
LEMMA LenProperties ==
    ASSUME NEW S, NEW q \in Seq(S)
    PROVE  Len(q) \in Nat /\ DOMAIN q = 1 .. Len(q) /\ q \in [1 .. Len(q) -> S]
  OBVIOUS

LEMMA ElementOfSeq ==
    ASSUME NEW S, NEW q \in Seq(S), NEW i \in 1 .. Len(q) PROVE q[i] \in S
  OBVIOUS

LEMMA EmptySeq ==
    ASSUME NEW S
    PROVE  <<>> \in Seq(S) /\ Len(<<>>) = 0 /\ \A q \in Seq(S) : q # <<>> => Len(q) \in Nat \ {0}
  OBVIOUS

\* A function on 1 .. n is a sequence of length n.
LEMMA FunctionIsSeq ==
    ASSUME NEW S, NEW n \in Nat, NEW f \in [1 .. n -> S] PROVE f \in Seq(S) /\ Len(f) = n
  OBVIOUS

\* Sequences with the same elements are equal.
LEMMA SeqEqual ==
    ASSUME NEW S, NEW q \in Seq(S), NEW r \in Seq(S),
           Len(q) = Len(r), \A i \in 1 .. Len(q) : q[i] = r[i]
    PROVE  q = r
  OBVIOUS

LEMMA AppendProperties ==
    ASSUME NEW S, NEW q \in Seq(S), NEW x \in S
    PROVE  /\ Append(q, x) \in Seq(S) /\ Append(q, x) # <<>> /\ Len(Append(q, x)) = Len(q) + 1
           /\ \A i \in 1 .. Len(q) : Append(q, x)[i] = q[i]
           /\ Append(q, x)[Len(q) + 1] = x
  OBVIOUS

LEMMA ConcatProperties ==
    ASSUME NEW S, NEW q \in Seq(S), NEW r \in Seq(S)
    PROVE  /\ q \o r \in Seq(S) /\ Len(q \o r) = Len(q) + Len(r)
           /\ \A i \in 1 .. Len(q) + Len(r) :
                 (q \o r)[i] = IF i <= Len(q) THEN q[i] ELSE r[i - Len(q)]
  OBVIOUS

LEMMA ConcatEmptySeq ==
    ASSUME NEW S, NEW q \in Seq(S) PROVE q \o <<>> = q /\ <<>> \o q = q
  OBVIOUS

LEMMA AppendIsConcat ==
    ASSUME NEW S, NEW q \in Seq(S), NEW x \in S PROVE Append(q, x) = q \o <<x>>
  OBVIOUS

LEMMA ConcatAssociative ==
    ASSUME NEW S, NEW q \in Seq(S), NEW r \in Seq(S), NEW t \in Seq(S)
    PROVE  (q \o r) \o t = q \o (r \o t)
<1> DEFINE a == (q \o r) \o t
           b == q \o (r \o t)
<1>1. a \in Seq(S) /\ b \in Seq(S) /\ Len(a) = Len(b)
  BY ConcatProperties
<1>2. ASSUME NEW i \in 1 .. Len(a) PROVE a[i] = b[i]
  OBVIOUS
<1> HIDE DEF a, b
<1>3. a = b
  BY <1>1, <1>2, SeqEqual
<1> QED BY <1>3 DEF a, b

-----------------------------------------------------------------------------
(* Facts about the fair queue.                                             *)

\* What Head and Tail of a non-empty sequence are.
LEMMA TailFacts ==
    ASSUME NEW S, NEW s \in Seq(S), s # <<>>
    PROVE  /\ Len(s) \in Nat \ {0}
           /\ DOMAIN s = 1 .. Len(s)
           /\ Head(s) = s[1]
           /\ Head(s) \in S
           /\ Tail(s) \in Seq(S)
           /\ Len(Tail(s)) = Len(s) - 1
           /\ DOMAIN Tail(s) = 1 .. Len(s) - 1
           /\ \A i \in 1 .. Len(s) - 1 : Tail(s)[i] = s[i + 1]
           /\ (Tail(s) = <<>>) <=> (Len(s) = 1)
<1>1. /\ Len(s) \in Nat \ {0}
      /\ DOMAIN s = 1 .. Len(s)
      /\ Head(s) = s[1]
      /\ Head(s) \in S
  OBVIOUS
<1>2. /\ Tail(s) \in Seq(S)
      /\ Len(Tail(s)) = Len(s) - 1
      /\ \A i \in 1 .. Len(s) - 1 : Tail(s)[i] = s[i + 1]
  OBVIOUS
<1>3. DOMAIN Tail(s) = 1 .. Len(s) - 1
  BY <1>2
<1>4. (Tail(s) = <<>>) <=> (Len(Tail(s)) = 0)
  BY Zenon, <1>2, EmptySeq
<1> QED BY <1>1, <1>2, <1>3, <1>4

\* What Append does to a sequence.
LEMMA AppendFacts ==
    ASSUME NEW S, NEW q \in Seq(S), NEW x \in S
    PROVE  /\ DOMAIN Append(q, x) = 1 .. Len(q) + 1
           /\ DOMAIN q = 1 .. Len(q)
           /\ Len(q) \in Nat
           /\ \A i \in 1 .. Len(q) : Append(q, x)[i] = q[i]
           /\ Append(q, x)[Len(q) + 1] = x
  BY AppendProperties, LenProperties

\* push keeps the queue's type.
LEMMA PushType ==
    ASSUME NEW q \in FairQueueType, NEW k \in Streams, NEW v \in DataFrame
    PROVE  Push(q, k, v) \in FairQueueType
<1>1. Append(q.queues[k], v) \in Seq(DataFrame)
  BY DEF FairQueueType
<1>2. [q.queues EXCEPT ![k] = Append(@, v)] \in [Streams -> Seq(DataFrame)]
  BY <1>1 DEF FairQueueType
<1>3. (IF q.queues[k] = <<>> THEN Append(q.active, k) ELSE q.active)
        \in Seq(Streams)
  BY DEF FairQueueType
<1>4. q.len + 1 \in Nat
  BY DEF FairQueueType
<1> QED BY <1>2, <1>3, <1>4 DEF Push, FairQueueType

\* An active key whose queue holds an item: pop is defined and keeps the type.
LEMMA PopType ==
    ASSUME NEW q \in FairQueueType, q.active # <<>>, q.len > 0,
           q.queues[Head(q.active)] # <<>>
    PROVE  /\ Pop(q) \in FairQueueType
           /\ Popped(q) \in DataFrame
           /\ Head(q.active) \in Streams
<1> DEFINE k == Head(q.active)
<1>1. /\ k \in Streams
      /\ Tail(q.active) \in Seq(Streams)
  BY DEF FairQueueType
<1>2. /\ q.queues[k] \in Seq(DataFrame)
      /\ Tail(q.queues[k]) \in Seq(DataFrame)
      /\ Head(q.queues[k]) \in DataFrame
  BY <1>1 DEF FairQueueType
<1>3. [q.queues EXCEPT ![k] = Tail(q.queues[k])] \in [Streams -> Seq(DataFrame)]
  BY <1>1, <1>2 DEF FairQueueType
<1>4. (IF Tail(q.queues[k]) = <<>> THEN Tail(q.active)
       ELSE Append(Tail(q.active), k)) \in Seq(Streams)
  BY SMTT(30), <1>1
<1>5. q.len - 1 \in Nat
  BY DEF FairQueueType
<1> QED BY <1>1, <1>2, <1>3, <1>4, <1>5 DEF Pop, Popped, FairQueueType

\* The positions the per-key queues occupy: one pair for every item held.
Items(q) == {p \in Streams \X (Nat \ {0}) : p[2] <= Len(q.queues[p[1]])}

\* The inductive form of FairQueueConsistent: the counter is the number of
\* items held.
Consistent(q) ==
    /\ \A i, j \in DOMAIN q.active : q.active[i] = q.active[j] => i = j
    /\ \A s \in Streams :
          (q.queues[s] # <<>>) <=> (\E i \in DOMAIN q.active : q.active[i] = s)
    /\ IsFiniteSet(Items(q))
    /\ q.len = Cardinality(Items(q))

\* A new queue is consistent.
LEMMA EmptyConsistent ==
    /\ EmptyQueue(Streams) \in FairQueueType
    /\ Consistent(EmptyQueue(Streams))
<1> DEFINE q == EmptyQueue(Streams)
<1>1. /\ q.len = 0
      /\ q.active = <<>>
      /\ \A s \in Streams : q.queues[s] = <<>>
      /\ q \in FairQueueType
  BY DEF EmptyQueue, FairQueueType
<1>2. Items(q) = {}
  BY <1>1 DEF Items
<1>3. IsFiniteSet({}) /\ Cardinality({}) = 0
  BY FS_EmptySet
<1>4. DOMAIN q.active = {}
  BY <1>1
<1> HIDE DEF q
<1>5. Consistent(q)
  BY <1>1, <1>2, <1>3, <1>4 DEF Consistent
<1> QED BY <1>1, <1>5 DEF q

\* In a consistent queue the counter is zero exactly when no key is active,
\* and the front key has an item.
LEMMA ConsistentFacts ==
    ASSUME NEW q \in FairQueueType, Consistent(q)
    PROVE  /\ (q.len = 0) <=> (q.active = <<>>)
           /\ q.active # <<>> => /\ Head(q.active) \in Streams
                                 /\ q.queues[Head(q.active)] # <<>>
                                 /\ q.len > 0
<1>1. q.active = <<>> => Items(q) = {}
  <2> SUFFICES ASSUME q.active = <<>>, NEW p \in Items(q) PROVE FALSE
    OBVIOUS
  <2>1. /\ p[1] \in Streams
        /\ q.queues[p[1]] \in Seq(DataFrame)
        /\ Len(q.queues[p[1]]) > 0
    BY DEF Items, FairQueueType
  <2>2. q.queues[p[1]] # <<>>
    BY <2>1
  <2>3. DOMAIN q.active = {}
    OBVIOUS
  <2> QED BY <2>1, <2>2, <2>3 DEF Consistent
<1>2. ASSUME q.active # <<>>
      PROVE  /\ Head(q.active) \in Streams
             /\ q.queues[Head(q.active)] # <<>>
             /\ <<Head(q.active), 1>> \in Items(q)
  <2>1. /\ 1 \in DOMAIN q.active
        /\ Head(q.active) = q.active[1]
        /\ Head(q.active) \in Streams
    BY <1>2 DEF FairQueueType
  <2>2. q.queues[Head(q.active)] # <<>>
    BY <2>1 DEF Consistent
  <2>3. Len(q.queues[Head(q.active)]) >= 1
    BY <2>1, <2>2 DEF FairQueueType
  <2> QED BY <2>1, <2>2, <2>3 DEF Items
<1>3. (Cardinality(Items(q)) = 0) <=> (Items(q) = {})
  BY FS_EmptySet DEF Consistent
<1>4. Cardinality(Items(q)) \in Nat
  BY FS_CardinalityType DEF Consistent
<1> QED BY <1>1, <1>2, <1>3, <1>4 DEF Consistent

\* push keeps a queue consistent.
LEMMA PushConsistent ==
    ASSUME NEW q \in FairQueueType, Consistent(q),
           NEW k \in Streams, NEW v \in DataFrame
    PROVE  Consistent(Push(q, k, v))
<1> DEFINE r == Push(q, k, v)
           n == Len(q.queues[k]) + 1
<1>1. /\ q.queues[k] \in Seq(DataFrame)
      /\ r.queues[k] = Append(q.queues[k], v)
      /\ \A s \in Streams \ {k} : r.queues[s] = q.queues[s]
      /\ r.len = q.len + 1
      /\ r.active = IF q.queues[k] = <<>> THEN Append(q.active, k) ELSE q.active
  BY DEF Push, FairQueueType
<1>2. /\ n \in Nat \ {0}
      /\ Len(r.queues[k]) = n
      /\ r.queues[k] # <<>>
  BY <1>1
<1>3. q.active \in Seq(Streams)
  BY DEF FairQueueType
<1> HIDE DEF r
<1>4. \A i, j \in DOMAIN r.active : r.active[i] = r.active[j] => i = j
  <2>1. CASE q.queues[k] # <<>>
    BY <2>1, <1>1 DEF Consistent
  <2>2. CASE q.queues[k] = <<>>
    <3>1. \A i \in DOMAIN q.active : q.active[i] # k
      BY <2>2 DEF Consistent
    <3>2. /\ DOMAIN r.active = 1 .. Len(q.active) + 1
          /\ \A i \in 1 .. Len(q.active) : r.active[i] = q.active[i]
          /\ r.active[Len(q.active) + 1] = k
      BY <1>1, <1>3, <2>2, AppendProperties
    <3>3. DOMAIN q.active = 1 .. Len(q.active)
      BY <1>3
    <3> QED BY SMTT(30), <3>1, <3>2, <3>3, <1>3 DEF Consistent
  <2> QED BY <2>1, <2>2
<1>5. \A s \in Streams :
        (r.queues[s] # <<>>) <=> (\E i \in DOMAIN r.active : r.active[i] = s)
  <2>1. CASE q.queues[k] # <<>>
    BY <2>1, <1>1, <1>2 DEF Consistent
  <2>2. CASE q.queues[k] = <<>>
    <3>2. /\ DOMAIN r.active = 1 .. Len(q.active) + 1
          /\ \A i \in 1 .. Len(q.active) : r.active[i] = q.active[i]
          /\ r.active[Len(q.active) + 1] = k
      BY <1>1, <1>3, <2>2, AppendProperties
    <3>3. /\ DOMAIN q.active = 1 .. Len(q.active)
          /\ Len(q.active) \in Nat
      BY <1>3
    <3> SUFFICES ASSUME NEW s \in Streams
                 PROVE  (r.queues[s] # <<>>) <=>
                            (\E i \in DOMAIN r.active : r.active[i] = s)
      OBVIOUS
    <3>4. CASE s = k
      BY SMTT(30), <3>4, <3>2, <3>3, <1>2
    <3>5. CASE s # k
      BY SMTT(30), <3>5, <3>2, <3>3, <1>1 DEF Consistent
    <3> QED BY <3>4, <3>5
  <2> QED BY <2>1, <2>2
<1>6. /\ Items(r) = Items(q) \cup {<<k, n>>}
      /\ <<k, n>> \notin Items(q)
  <2>1. ASSUME NEW p \in Streams \X (Nat \ {0})
        PROVE  p \in Items(r) <=> (p \in Items(q) \/ p = <<k, n>>)
    <3>1. CASE p[1] = k
      BY SMTT(30), <3>1, <1>1, <1>2 DEF Items
    <3>2. CASE p[1] # k
      BY <3>2, <1>1 DEF Items
    <3> QED BY Zenon, <3>1, <3>2
  <2>2. <<k, n>> \in Streams \X (Nat \ {0})
    BY <1>2
  <2>3. <<k, n>> \notin Items(q)
    BY <1>1, <1>2 DEF Items
  <2> QED BY <2>1, <2>2, <2>3 DEF Items
<1>7. /\ IsFiniteSet(Items(r))
      /\ Cardinality(Items(r)) = Cardinality(Items(q)) + 1
  BY SMTT(30), <1>6, FS_AddElement DEF Consistent
<1> QED BY Zenon, <1>1, <1>4, <1>5, <1>7 DEF Consistent, r

\* pop keeps a queue consistent.
LEMMA PopConsistent ==
    ASSUME NEW q \in FairQueueType, Consistent(q), q.active # <<>>
    PROVE  Consistent(Pop(q))
<1> DEFINE r == Pop(q)
           k == Head(q.active)
           n == Len(q.queues[k])
           rest == Tail(q.queues[k])
<1>1. /\ k \in Streams
      /\ k = q.active[1]
      /\ q.queues[k] \in Seq(DataFrame)
      /\ q.queues[k] # <<>>
      /\ q.active \in Seq(Streams)
      /\ Len(q.active) \in Nat \ {0}
  <2>1. k \in Streams /\ q.queues[k] # <<>>
    BY ConsistentFacts
  <2>2. q.active \in Seq(Streams) /\ q.queues[k] \in Seq(DataFrame)
    BY <2>1 DEF FairQueueType
  <2>3. k = q.active[1] /\ Len(q.active) \in Nat \ {0}
    BY <2>2, TailFacts
  <2> QED BY <2>1, <2>2, <2>3
<1>2. /\ n = Len(q.queues[k])
      /\ n \in Nat \ {0}
      /\ rest \in Seq(DataFrame)
      /\ Len(rest) = n - 1
      /\ (rest = <<>>) <=> (n = 1)
  BY Zenon, <1>1, TailFacts
<1>3. /\ r.queues[k] = rest
      /\ \A s \in Streams \ {k} : r.queues[s] = q.queues[s]
      /\ r.len = q.len - 1
      /\ r.active = IF rest = <<>> THEN Tail(q.active)
                                   ELSE Append(Tail(q.active), k)
  BY <1>1 DEF Pop, FairQueueType
<1> DEFINE m == Len(q.active)
           tl == Tail(q.active)
<1>4. /\ tl = Tail(q.active)
      /\ tl \in Seq(Streams)
      /\ Len(tl) = m - 1
      /\ m \in Nat \ {0}
      /\ \A i \in 1 .. m - 1 : tl[i] = q.active[i + 1]
      /\ DOMAIN tl = 1 .. m - 1
      /\ DOMAIN q.active = 1 .. m
  BY <1>1, TailFacts
<1>5. \A i \in 1 .. m - 1 : tl[i] # k
  <2> SUFFICES ASSUME NEW i \in 1 .. m - 1, tl[i] = k PROVE FALSE
    OBVIOUS
  <2>1. i + 1 \in DOMAIN q.active /\ 1 \in DOMAIN q.active /\ i + 1 # 1
    BY <1>4
  <2>2. q.active[i + 1] = q.active[1]
    BY <1>1, <1>4
  <2> QED BY <2>1, <2>2 DEF Consistent
<1>6. \A i, j \in 1 .. m - 1 : tl[i] = tl[j] => i = j
  <2> SUFFICES ASSUME NEW i \in 1 .. m - 1, NEW j \in 1 .. m - 1, tl[i] = tl[j]
               PROVE  i = j
    OBVIOUS
  <2>1. /\ q.active[i + 1] = q.active[j + 1]
        /\ i + 1 \in DOMAIN q.active
        /\ j + 1 \in DOMAIN q.active
    BY <1>4
  <2>2. i + 1 = j + 1
    BY <2>1 DEF Consistent
  <2> QED BY <2>2
<1>7. \A s \in Streams \ {k} :
        (q.queues[s] # <<>>) <=> (\E i \in 1 .. m - 1 : tl[i] = s)
  <2> SUFFICES ASSUME NEW s \in Streams \ {k}
               PROVE  (q.queues[s] # <<>>) <=> (\E i \in 1 .. m - 1 : tl[i] = s)
    OBVIOUS
  <2>1. (q.queues[s] # <<>>) <=> (\E i \in 1 .. m : q.active[i] = s)
    BY <1>4 DEF Consistent
  <2>2. ASSUME NEW i \in 1 .. m, q.active[i] = s
        PROVE  \E h \in 1 .. m - 1 : tl[h] = s
    <3>1. i # 1
      BY <2>2, <1>1
    <3>2. i - 1 \in 1 .. m - 1 /\ tl[i - 1] = s
      BY <3>1, <2>2, <1>4
    <3> QED BY Zenon, <3>2
  <2>3. ASSUME NEW i \in 1 .. m - 1, tl[i] = s
        PROVE  \E h \in 1 .. m : q.active[h] = s
    <3>1. i + 1 \in 1 .. m /\ q.active[i + 1] = s
      BY <2>3, <1>4
    <3> QED BY <3>1
  <2> QED BY <2>1, <2>2, <2>3
<1> HIDE DEF r, k, n, rest, m, tl
<1>8. /\ Items(r) = Items(q) \ {<<k, n>>}
      /\ <<k, n>> \in Items(q)
  <2>1. ASSUME NEW p \in Streams \X (Nat \ {0})
        PROVE  p \in Items(r) <=> (p \in Items(q) /\ p # <<k, n>>)
    <3>1. CASE p[1] = k
      BY SMTT(30), <3>1, <1>1, <1>2, <1>3 DEF Items
    <3>2. CASE p[1] # k
      BY <3>2, <1>3 DEF Items
    <3> QED BY <3>1, <3>2
  <2>2. <<k, n>> \in Items(q)
    BY SMTT(30), <1>1, <1>2 DEF Items
  <2> QED BY <2>1, <2>2 DEF Items
<1>9. /\ IsFiniteSet(Items(r))
      /\ Cardinality(Items(r)) = Cardinality(Items(q)) - 1
  BY <1>8, FS_RemoveElement DEF Consistent
<1>10. CASE rest = <<>>
  <2>1. r.active = tl
    BY <1>10, <1>3, <1>4
  <2>2. \A s \in Streams :
          (r.queues[s] # <<>>) <=> (\E i \in DOMAIN r.active : r.active[i] = s)
    BY ZenonT(40), <1>10, <2>1, <1>3, <1>4, <1>5, <1>7
  <2>3. \A i, j \in DOMAIN r.active : r.active[i] = r.active[j] => i = j
    BY Zenon, <2>1, <1>4, <1>6
  <2> QED BY Zenon, <2>2, <2>3, <1>3, <1>9 DEF Consistent, r
<1>11. CASE rest # <<>>
  <2>1. /\ DOMAIN r.active = 1 .. m
        /\ \A i \in 1 .. m - 1 : r.active[i] = tl[i]
        /\ r.active[m] = k
    BY <1>11, <1>1, <1>3, <1>4, AppendProperties
  <2>2. \A s \in Streams :
          (r.queues[s] # <<>>) <=> (\E i \in DOMAIN r.active : r.active[i] = s)
    <3> SUFFICES ASSUME NEW s \in Streams
                 PROVE  (r.queues[s] # <<>>) <=>
                            (\E i \in DOMAIN r.active : r.active[i] = s)
      OBVIOUS
    <3>1. CASE s = k
      BY <3>1, <2>1, <1>11, <1>3, <1>4
    <3>2. CASE s # k
      <4>1. (r.queues[s] # <<>>) <=> (\E i \in 1 .. m - 1 : tl[i] = s)
        BY <3>2, <1>3, <1>7
      <4>2. (\E i \in 1 .. m : r.active[i] = s) <=>
              (\E i \in 1 .. m - 1 : tl[i] = s)
        <5>1. ASSUME NEW i \in 1 .. m, r.active[i] = s
              PROVE  i \in 1 .. m - 1 /\ tl[i] = s
          BY <5>1, <3>2, <2>1, <1>4
        <5>2. ASSUME NEW i \in 1 .. m - 1, tl[i] = s
              PROVE  i \in 1 .. m /\ r.active[i] = s
          BY <5>2, <2>1, <1>4
        <5> QED BY <5>1, <5>2
      <4> QED BY <4>1, <4>2, <2>1
    <3> QED BY <3>1, <3>2
  <2>3. \A i, j \in DOMAIN r.active : r.active[i] = r.active[j] => i = j
    <3> SUFFICES ASSUME NEW i \in 1 .. m, NEW j \in 1 .. m,
                        r.active[i] = r.active[j]
                 PROVE  i = j
      BY <2>1
    <3>4. ASSUME NEW h \in 1 .. m, h # m PROVE r.active[h] # k
      <4>1. h \in 1 .. m - 1
        BY <3>4, <1>4
      <4> QED BY <4>1, <2>1, <1>5
    <3>1. CASE i = m
      BY <3>1, <2>1, <3>4
    <3>2. CASE j = m
      BY <3>2, <2>1, <3>4
    <3>3. CASE i # m /\ j # m
      <4>1. i \in 1 .. m - 1 /\ j \in 1 .. m - 1
        BY <3>3, <1>4
      <4>2. tl[i] = tl[j]
        BY <4>1, <2>1
      <4> QED BY <4>1, <4>2, <1>6
    <3> QED BY <3>1, <3>2, <3>3
  <2> QED BY <2>2, <2>3, <1>3, <1>9 DEF Consistent, r
<1> QED BY <1>10, <1>11

-----------------------------------------------------------------------------
(* The inductive invariant.                                                *)

\* The encoder holds a frame exactly while the writer is at its encode, and
\* the writer waits in its select only with an empty fair queue.
WriterInv ==
    /\ (pc = "write") <=> (writing # <<>>)
    /\ pc = "select" => scheduled.active = <<>>

\* The run of control frames served ahead of DATA is counted by control_burst
\* too, up to the frame that is being encoded.
BurstInv ==
    /\ burstRun <= MaxBurst
    /\ pc \notin {"write", "failed"} => burstRun <= controlBurst
    /\ pc = "write" => IF IsData(writing[1]) THEN burstRun = 0
                                             ELSE burstRun <= controlBurst + 1

IInv ==
    /\ TypeOK
    /\ WriterInv
    /\ Consistent(scheduled)
    /\ AdmissionBound
    /\ BurstInv

\* The initial state satisfies the inductive invariant.
LEMMA InitIInv == Init => IInv
<1> SUFFICES ASSUME Init PROVE IInv
  OBVIOUS
<1>1. scheduled \in FairQueueType /\ Consistent(scheduled)
  BY EmptyConsistent DEF Init
<1>2. TypeOK
  BY <1>1, CapacityAssumption, MaxBurstAssumption, SeqModulusAssumption
     DEF Init, TypeOK, TaskStates
<1>3. WriterInv /\ BurstInv
  BY MaxBurstAssumption DEF Init, WriterInv, BurstInv, EmptyQueue
<1>4. AdmissionBound
  <2>1. Holders = {}
    BY DEF Init, Holders
  <2>2. Cardinality(Holders) = 0
    BY <2>1, FS_EmptySet
  <2>3. InFlight = 0 /\ Len(dataRx) = 0 /\ scheduled.len = 0
    BY DEF Init, InFlight, EmptyQueue
  <2> QED BY <2>2, <2>3, CapacityAssumption DEF Init, AdmissionBound
<1> QED BY <1>1, <1>2, <1>3, <1>4 DEF IInv

\* A step of a stream task or of the session loop keeps the types.
LEMMA ProducerType == TypeOK /\ Producer => TypeOK'
<1> SUFFICES ASSUME TypeOK, Producer PROVE TypeOK'
  OBVIOUS
<1> USE DEF TaskStates
<1>1. ASSUME NEW s \in Streams, SendOpen(s) PROVE TypeOK'
  <2>1. [kind |-> "OPEN", stream |-> s] \in ControlFrame
    BY DEF ControlFrame, OpenFrame
  <2> QED BY <1>1, <2>1
          DEF TypeOK, SendOpen, ControlSend, writerVars, historyVars
<1>2. ASSUME NEW s \in Streams, OpenAcked(s) PROVE TypeOK'
  BY <1>2 DEF TypeOK, OpenAcked, channelVars, writerVars, historyVars
<1>3. ASSUME NEW s \in Streams, Read(s) PROVE TypeOK'
  BY <1>3 DEF TypeOK, Read, channelVars, writerVars, historyVars
<1>4. ASSUME NEW s \in Streams, Acquire(s) PROVE TypeOK'
  BY <1>4 DEF TypeOK, Acquire, writerVars, historyVars
<1>5. ASSUME NEW s \in Streams, Enqueue(s) PROVE TypeOK'
  <2>1. [kind |-> out[s], stream |-> s, seq |-> sent[s]] \in DataFrame
    BY DEF TypeOK, DataFrame
  <2>2. (sent[s] + 1) % SeqModulus \in 0 .. SeqModulus - 1
    BY SeqModulusAssumption DEF TypeOK
  <2> QED BY SMTT(30), <1>5, <2>1, <2>2 DEF TypeOK, Enqueue, writerVars, historyVars
<1>6. ASSUME NEW s \in Streams, EnqueueClosed(s) PROVE TypeOK'
  BY <1>6 DEF TypeOK, EnqueueClosed, writerVars, historyVars
<1>7. OtherControl \in ControlFrame
  BY DEF ControlFrame
<1>8. ASSUME NEW s \in Streams, ResetAndClose(s) PROVE TypeOK'
  <2>1. controlRx' \in Seq(ControlFrame)
    <3>1. CASE ReceiversGone
      <4>1. UNCHANGED controlRx
        BY <1>8, <3>1 DEF ResetAndClose
      <4> QED BY <4>1 DEF TypeOK
    <3>2. CASE ~ReceiversGone
      <4>1. ControlSend(OtherControl)
        BY <1>8, <3>2 DEF ResetAndClose
      <4> QED BY <1>7, <4>1 DEF ControlSend, TypeOK
    <3> QED BY <3>1, <3>2
  <2> QED BY <1>8, <2>1 DEF TypeOK, ResetAndClose, writerVars, historyVars
<1>9. ASSUME NEW s \in Streams, Close(s) PROVE TypeOK'
  BY <1>9 DEF TypeOK, Close, channelVars, writerVars, historyVars
<1>10. ASSUME SessionControl PROVE TypeOK'
  BY <1>7, <1>10 DEF TypeOK, SessionControl, ControlSend, producerVars,
                     writerVars, historyVars
<1>11. ASSUME CloseSession PROVE TypeOK'
  BY Zenon, <1>11 DEF TypeOK, CloseSession, channelVars, writerVars, historyVars
<1> QED BY <1>1, <1>2, <1>3, <1>4, <1>5, <1>6, <1>8, <1>9, <1>10, <1>11
        DEF Producer

\* A step of the writer keeps the types.
LEMMA WriterType == IInv /\ (Writer \/ WriteFailed) => TypeOK'
<1> SUFFICES ASSUME IInv, Writer \/ WriteFailed PROVE TypeOK'
  OBVIOUS
<1> USE DEF IInv, TypeOK
<1>1. ASSUME dataRx # <<>>
      PROVE  /\ Tail(dataRx) \in Seq(DataFrame)
             /\ Push(scheduled, Head(dataRx).stream, Head(dataRx))
                   \in FairQueueType
  <2>1. Head(dataRx) \in DataFrame /\ Tail(dataRx) \in Seq(DataFrame)
    BY <1>1, TailFacts
  <2>2. Head(dataRx).stream \in Streams
    BY Zenon, <2>1 DEF DataFrame
  <2> QED BY <2>1, <2>2, PushType
<1>2. CASE DrainTake
  BY <1>1, <1>2 DEF DrainTake, producerVars, historyVars
<1>3. CASE DrainDone
  BY <1>3 DEF DrainDone, producerVars, channelVars, historyVars
<1>4. ASSUME StartControl PROVE TypeOK'
  <2>1. Head(controlRx) \in ControlFrame /\ Tail(controlRx) \in Seq(ControlFrame)
    BY <1>4, TailFacts DEF StartControl
  <2>2. <<Head(controlRx)>> \in {<<f>> : f \in AnyFrame}
    BY <2>1 DEF AnyFrame
  <2>3. burstRun' \in Nat
    BY <1>4 DEF StartControl
  <2> QED BY <1>4, <2>1, <2>2, <2>3 DEF StartControl, producerVars
<1>5. CASE TakeControl
  BY Zenon, <1>4, <1>5 DEF TakeControl
<1>6. CASE ServeData
  <2>1. /\ scheduled.queues[Head(scheduled.active)] # <<>>
        /\ scheduled.len > 0
        /\ Head(scheduled.active) \in Streams
    BY <1>6, ConsistentFacts DEF ServeData
  <2>2. Pop(scheduled) \in FairQueueType /\ Popped(scheduled) \in DataFrame
    BY <1>6, <2>1, PopType DEF ServeData
  <2>3. <<Popped(scheduled)>> \in {<<f>> : f \in AnyFrame}
    BY <2>2 DEF AnyFrame
  <2>4. CountService(Head(scheduled.active)) \in [Streams -> [Streams -> Nat]]
    <3> SUFFICES ASSUME NEW t \in Streams
                 PROVE  CountService(Head(scheduled.active))[t] \in [Streams -> Nat]
      BY DEF CountService
    <3>1. bypass[t] \in [Streams -> Nat]
      OBVIOUS
    <3> QED BY SMTT(30), <2>1, <3>1 DEF CountService
  <2>5. controlOpen' \in BOOLEAN
    BY <1>6 DEF ServeData, ControlOpenAfterTry
  <2> QED BY <1>6, <2>2, <2>3, <2>4, <2>5 DEF ServeData, producerVars, channelVars
<1>7. CASE NothingReady
  <2>1. controlOpen' \in BOOLEAN
    BY <1>7 DEF NothingReady, ControlOpenAfterTry
  <2> QED BY <1>7, <2>1 DEF NothingReady, producerVars, channelVars, historyVars
<1>8. CASE SelectControl
  BY <1>4, <1>8 DEF SelectControl
<1>9. CASE SelectControlClosed
  BY Zenon, <1>9 DEF SelectControlClosed, producerVars, channelVars, historyVars
<1>10. CASE SelectData
  BY <1>1, <1>10 DEF SelectData, producerVars, historyVars
<1>11. CASE SelectDataClosed
  BY Zenon, <1>11 DEF SelectDataClosed, producerVars, channelVars, historyVars
<1>12. CASE Written
  <2>1. PICK f \in AnyFrame : writing = <<f>>
    BY Zenon, <1>12 DEF Written, WriterInv
  <2>2. f.kind = "OPEN" => f.stream \in Streams
    BY <2>1 DEF AnyFrame, DataFrame, ControlFrame, OpenFrame, OtherControl
  <2>3. opened' \in [Streams -> BOOLEAN]
    BY <1>12, <2>1, <2>2 DEF Written
  <2>4. controlBurst' \in 0 .. MaxBurst /\ permits' \in Nat
    BY <1>12, MaxBurstAssumption DEF Written
  <2> QED BY Zenon, <1>12, <2>3, <2>4 DEF Written, producerVars
<1>13. CASE WriteFailed
  <2>1. permits + Len(dataRx) + scheduled.len + InFlight \in Nat
    BY DEF InFlight, FairQueueType
  <2> QED BY SMTT(30), <1>13, <2>1, EmptyConsistent DEF WriteFailed, producerVars, historyVars
<1> QED BY Zenon, <1>2, <1>3, <1>5, <1>6, <1>7, <1>8, <1>9, <1>10, <1>11, <1>12, <1>13
        DEF Writer

\* The permit holders are finitely many.
LEMMA HoldersFinite == IsFiniteSet(Holders) /\ Cardinality(Holders) \in Nat
<1>1. Holders \subseteq Streams
  BY DEF Holders
<1>2. IsFiniteSet(Holders)
  BY <1>1, StreamsAssumption, FS_Subset
<1> QED BY <1>2, FS_CardinalityType

\* Producers leave the writer alone and conserve the permits.
LEMMA ProducerStep ==
    IInv /\ Producer => WriterInv' /\ Consistent(scheduled)' /\ AdmissionBound' /\ BurstInv'
<1> SUFFICES ASSUME IInv, Producer
             PROVE  WriterInv' /\ Consistent(scheduled)' /\ AdmissionBound' /\ BurstInv'
  OBVIOUS
<1>1. UNCHANGED <<writerVars, historyVars>>
  BY Zenon DEF Producer, SendOpen, OpenAcked, Read, Acquire, Enqueue, EnqueueClosed,
         ResetAndClose, Close, SessionControl, CloseSession
<1>2. WriterInv' /\ BurstInv'
  BY Zenon, <1>1 DEF IInv, WriterInv, BurstInv, writerVars, historyVars, IsData
<1>3. Consistent(scheduled)'
  BY <1>1 DEF IInv, Consistent, Items, writerVars
<1>4. InFlight' = InFlight /\ scheduled' = scheduled
  BY <1>1 DEF InFlight, IsData, writerVars
<1>5. /\ InFlight \in Nat
      /\ scheduled.len \in Nat
      /\ permits \in Nat
      /\ dataRx \in Seq(DataFrame)
      /\ Len(dataRx) \in Nat
      /\ task \in [Streams -> TaskStates]
  BY DEF IInv, TypeOK, InFlight, FairQueueType
<1>6. permits + Cardinality(Holders) + Len(dataRx) + scheduled.len + InFlight
        = Capacity
  BY DEF IInv, AdmissionBound
<1>7. ASSUME Holders' = Holders, permits' = permits, dataRx' = dataRx
      PROVE  AdmissionBound'
  BY <1>4, <1>6, <1>7 DEF AdmissionBound
<1>8. ASSUME NEW s \in Streams, NEW v \in TaskStates \ {"hold"},
             task[s] # "hold", task' = [task EXCEPT ![s] = v]
      PROVE  Holders' = Holders
  BY <1>5, <1>8 DEF Holders
<1>9. ASSUME NEW s \in Streams, SendOpen(s) PROVE AdmissionBound'
  BY Zenon, <1>7, <1>8, <1>9 DEF SendOpen, TaskStates
<1>10. ASSUME NEW s \in Streams, OpenAcked(s) PROVE AdmissionBound'
  BY Zenon, <1>7, <1>8, <1>10 DEF OpenAcked, TaskStates, channelVars
<1>11. ASSUME NEW s \in Streams, Read(s) PROVE AdmissionBound'
  BY Zenon, <1>7, <1>8, <1>11 DEF Read, TaskStates, channelVars
<1>12. ASSUME NEW s \in Streams, ResetAndClose(s) PROVE AdmissionBound'
  BY Zenon, <1>7, <1>8, <1>12 DEF ResetAndClose, TaskStates
<1>13. ASSUME NEW s \in Streams, Close(s) PROVE AdmissionBound'
  BY Zenon, <1>7, <1>8, <1>13 DEF Close, TaskStates, channelVars
<1>14. ASSUME NEW s \in Streams, Acquire(s) PROVE AdmissionBound'
  <2>1. /\ s \notin Holders
        /\ Holders' = Holders \cup {s}
    BY <1>5, <1>14 DEF Acquire, Holders
  <2>2. Cardinality(Holders') = Cardinality(Holders) + 1
    BY <2>1, HoldersFinite, FS_AddElement
  <2> QED BY <1>4, <1>5, <1>6, <1>14, <2>2, HoldersFinite
          DEF Acquire, AdmissionBound
<1>15. ASSUME NEW s \in Streams, task[s] = "hold",
              NEW v \in TaskStates \ {"hold"}, task' = [task EXCEPT ![s] = v]
       PROVE  Cardinality(Holders') = Cardinality(Holders) - 1
  <2>1. /\ s \in Holders
        /\ Holders' = Holders \ {s}
    BY <1>5, <1>15 DEF Holders
  <2> QED BY Zenon, <2>1, HoldersFinite, FS_RemoveElement
<1>16. ASSUME NEW s \in Streams, Enqueue(s) PROVE AdmissionBound'
  <2>1. Cardinality(Holders') = Cardinality(Holders) - 1
    BY ZenonT(40), <1>15, <1>16 DEF Enqueue, TaskStates
  <2>2. [kind |-> out[s], stream |-> s, seq |-> sent[s]] \in DataFrame
    BY Zenon DEF IInv, TypeOK, DataFrame
  <2>3. Len(dataRx') = Len(dataRx) + 1
    BY <1>5, <1>16, <2>2, AppendProperties DEF Enqueue
  <2>4. permits' = permits
    BY <1>16 DEF Enqueue
  <2>5. /\ permits \in Nat /\ Cardinality(Holders) \in Nat /\ Len(dataRx) \in Nat
        /\ scheduled.len \in Nat /\ InFlight \in Nat
    BY <1>5, HoldersFinite
  <2>6. scheduled'.len = scheduled.len /\ InFlight' = InFlight
    BY <1>4
  <2>7. permits' + Cardinality(Holders') + Len(dataRx') + scheduled'.len + InFlight'
          = permits + (Cardinality(Holders) - 1) + (Len(dataRx) + 1) + scheduled.len
              + InFlight
    BY <2>1, <2>3, <2>4, <2>6
  <2>8. permits + (Cardinality(Holders) - 1) + (Len(dataRx) + 1) + scheduled.len
          + InFlight = Capacity
    BY SMTT(30), <1>6, <2>5, CapacityAssumption
  <2> QED BY <2>7, <2>8 DEF AdmissionBound
<1>17. ASSUME NEW s \in Streams, EnqueueClosed(s) PROVE AdmissionBound'
  <2>1. Cardinality(Holders') = Cardinality(Holders) - 1
    BY Zenon, <1>15, <1>17 DEF EnqueueClosed, TaskStates
  <2> QED BY <1>4, <1>5, <1>6, <1>17, <2>1, HoldersFinite
          DEF EnqueueClosed, AdmissionBound
<1>18. ASSUME SessionControl \/ CloseSession PROVE AdmissionBound'
  BY <1>7, <1>18 DEF SessionControl, CloseSession, Holders, producerVars, channelVars
<1>19. AdmissionBound'
  BY Zenon, <1>9, <1>10, <1>11, <1>12, <1>13, <1>14, <1>16, <1>17, <1>18 DEF Producer
<1> QED BY <1>2, <1>3, <1>19

\* The writer moves an item with its permit, keeps the fair queue consistent
\* and counts its control frames.
LEMMA WriterStep ==
    IInv /\ (Writer \/ WriteFailed) =>
        WriterInv' /\ Consistent(scheduled)' /\ AdmissionBound' /\ BurstInv'
<1> SUFFICES ASSUME IInv, Writer \/ WriteFailed
             PROVE  WriterInv' /\ Consistent(scheduled)' /\ AdmissionBound' /\ BurstInv'
  OBVIOUS
<1>1. /\ Holders' = Holders
      /\ Cardinality(Holders) \in Nat
  <2>1. task' = task
    BY Zenon DEF Writer, DrainTake, DrainDone, TakeControl, ServeData, NothingReady,
           SelectControl, SelectControlClosed, SelectData, SelectDataClosed,
           Written, WriteFailed, StartControl, producerVars
  <2>2. Holders' = Holders
    BY Zenon, <2>1 DEF Holders
  <2> QED BY Zenon, <2>2, HoldersFinite
<1>2. /\ scheduled \in FairQueueType
      /\ Consistent(scheduled)
      /\ scheduled.len \in Nat
      /\ permits \in Nat
      /\ dataRx \in Seq(DataFrame)
      /\ Len(dataRx) \in Nat
      /\ burstRun \in Nat
      /\ controlBurst \in 0 .. MaxBurst
      /\ InFlight \in {0, 1}
  <2>1. /\ scheduled \in FairQueueType /\ Consistent(scheduled) /\ permits \in Nat
        /\ dataRx \in Seq(DataFrame) /\ burstRun \in Nat /\ controlBurst \in 0 .. MaxBurst
    BY Zenon DEF IInv, TypeOK
  <2>2. scheduled.len \in Nat BY Zenon, <2>1 DEF FairQueueType
  <2>3. Len(dataRx) \in Nat BY Zenon, <2>1, LenProperties
  <2>4. InFlight \in {0, 1} BY Zenon DEF InFlight
  <2> QED BY Zenon, <2>1, <2>2, <2>3, <2>4
<1>3. (scheduled.len = 0) <=> (scheduled.active = <<>>)
  BY <1>2, ConsistentFacts
<1>4. permits + Cardinality(Holders) + Len(dataRx) + scheduled.len + InFlight
        = Capacity
  BY DEF IInv, AdmissionBound
<1>5. /\ (pc = "write") <=> (writing # <<>>)
      /\ pc = "select" => scheduled.active = <<>>
  BY Zenon DEF IInv, WriterInv
<1>6. /\ burstRun <= MaxBurst
      /\ pc \notin {"write", "failed"} => burstRun <= controlBurst
      /\ pc = "write" => IF IsData(writing[1]) THEN burstRun = 0
                                               ELSE burstRun <= controlBurst + 1
  BY DEF IInv, BurstInv
<1>7. ASSUME dataRx # <<>>,
             scheduled' = Push(scheduled, Head(dataRx).stream, Head(dataRx)),
             dataRx' = Tail(dataRx), permits' = permits, writing' = writing
      PROVE  Consistent(scheduled)' /\ AdmissionBound'
  <2>1. Head(dataRx) \in DataFrame /\ Len(Tail(dataRx)) = Len(dataRx) - 1
    BY <1>2, <1>7, TailFacts
  <2>2. Head(dataRx).stream \in Streams
    BY <2>1 DEF DataFrame
  <2>3. Consistent(scheduled')
    BY Zenon, <1>2, <1>7, <2>1, <2>2, PushConsistent
  <2>4. scheduled'.len = scheduled.len + 1
    BY <1>7 DEF Push
  <2>5. InFlight' = InFlight /\ Len(dataRx') = Len(dataRx) - 1
    BY <1>7, <2>1 DEF InFlight, IsData
  <2>6. AdmissionBound'
    BY SMTT(30), <1>1, <1>2, <1>4, <1>7, <2>4, <2>5 DEF AdmissionBound
  <2> QED BY <2>3, <2>6 DEF Consistent, Items
<1>8. ASSUME UNCHANGED <<scheduled, dataRx, permits>>, InFlight' = InFlight
      PROVE  Consistent(scheduled)' /\ AdmissionBound'
  BY <1>1, <1>2, <1>4, <1>8 DEF AdmissionBound, Consistent, Items
<1>9. CASE DrainTake
  BY Zenon, <1>5, <1>6, <1>7, <1>9
     DEF DrainTake, WriterInv, BurstInv, historyVars
<1>10. CASE DrainDone
  <2>1. InFlight' = InFlight
    BY <1>10 DEF DrainDone, InFlight, IsData
  <2> QED BY Zenon, <1>5, <1>6, <1>8, <1>10, <2>1
          DEF DrainDone, WriterInv, BurstInv, channelVars, historyVars
<1>11. ASSUME StartControl, pc \notin {"write", "failed"},
              scheduled.len > 0 => controlBurst < MaxBurst
       PROVE  WriterInv' /\ Consistent(scheduled)' /\ AdmissionBound' /\ BurstInv'
  <2>1. Head(controlRx) \in ControlFrame
    BY <1>11, TailFacts DEF StartControl, IInv, TypeOK
  <2>2. ~IsData(Head(controlRx))
    BY <2>1 DEF IsData, ControlFrame, OpenFrame, OtherControl
  <2>3. /\ writing' = <<Head(controlRx)>>
        /\ writing' # <<>>
        /\ writing'[1] = Head(controlRx)
        /\ pc' = "write"
    BY <1>11 DEF StartControl
  <2>4. InFlight' = InFlight
    BY <1>5, <1>11, <2>2, <2>3 DEF InFlight
  <2>5. burstRun' <= MaxBurst /\ burstRun' <= controlBurst + 1
    BY <1>2, <1>6, <1>11, MaxBurstAssumption DEF StartControl
  <2>6. controlBurst' = controlBurst
    BY <1>11 DEF StartControl
  <2> QED BY ZenonT(40), <1>8, <1>11, <2>2, <2>3, <2>4, <2>5, <2>6
          DEF StartControl, WriterInv, BurstInv
<1>12. CASE TakeControl
  BY <1>11, <1>12, <1>2 DEF TakeControl, ControlTurn
<1>13. CASE SelectControl
  BY <1>11, <1>13, <1>3, <1>5 DEF SelectControl
<1>14. CASE NothingReady
  <2>1. InFlight' = InFlight
    BY <1>14 DEF NothingReady, InFlight, IsData
  <2> QED BY <1>5, <1>6, <1>8, <1>14, <2>1
          DEF NothingReady, WriterInv, BurstInv, channelVars, historyVars
<1>15. CASE SelectControlClosed
  <2>1. InFlight' = InFlight
    BY <1>15 DEF SelectControlClosed, InFlight, IsData
  <2> QED BY <1>5, <1>6, <1>8, <1>15, <2>1
          DEF SelectControlClosed, WriterInv, BurstInv, channelVars, historyVars
<1>16. CASE SelectData
  BY <1>5, <1>6, <1>7, <1>16
     DEF SelectData, WriterInv, BurstInv, historyVars
<1>17. CASE SelectDataClosed
  <2>1. InFlight' = InFlight
    BY <1>17 DEF SelectDataClosed, InFlight, IsData
  <2> QED BY <1>5, <1>6, <1>8, <1>17, <2>1
          DEF SelectDataClosed, WriterInv, BurstInv, channelVars, historyVars
<1>18. CASE ServeData
  <2>1. /\ Head(scheduled.active) \in Streams
        /\ scheduled.queues[Head(scheduled.active)] # <<>>
    BY <1>2, <1>18, ConsistentFacts DEF ServeData
  <2>2. Popped(scheduled) \in DataFrame
    BY <1>2, <2>1, TailFacts DEF Popped, FairQueueType
  <2>3. IsData(Popped(scheduled))
    BY <2>2 DEF IsData, DataFrame
  <2>4. /\ writing' = <<Popped(scheduled)>>
        /\ writing' # <<>>
        /\ writing'[1] = Popped(scheduled)
        /\ pc' = "write" /\ pc = "control"
        /\ scheduled' = Pop(scheduled)
        /\ scheduled.active # <<>>
        /\ burstRun' = 0
        /\ UNCHANGED <<dataRx, permits>>
    BY <1>18 DEF ServeData, channelVars
  <2>5. InFlight' = 1 /\ InFlight = 0
    BY Zenon, <1>5, <2>3, <2>4 DEF InFlight
  <2>6. scheduled'.len = scheduled.len - 1
    BY <2>4 DEF Pop
  <2>7. Consistent(scheduled')
    BY Zenon, <1>2, <2>4, PopConsistent
  <2>8. AdmissionBound'
    BY <1>1, <1>2, <1>4, <2>4, <2>5, <2>6 DEF AdmissionBound
  <2>9. WriterInv' /\ BurstInv'
    BY <2>3, <2>4, MaxBurstAssumption DEF WriterInv, BurstInv
  <2> QED BY <2>7, <2>8, <2>9 DEF Consistent, Items
<1>19. CASE Written
  <2>1. /\ pc = "write" /\ pc' = "drain" /\ writing' = <<>>
        /\ UNCHANGED <<scheduled, dataRx, burstRun>>
    BY <1>19 DEF Written
  <2>2. /\ permits' = permits + InFlight
        /\ InFlight' = 0
    BY <1>2, <1>5, <1>19, <2>1 DEF Written, InFlight
  <2>3. AdmissionBound'
    BY SMTT(30), <1>1, <1>2, <1>4, <2>1, <2>2 DEF AdmissionBound
  <2>4. controlBurst' = IF IsData(writing[1]) THEN 0
                        ELSE IF controlBurst < MaxBurst THEN controlBurst + 1
                        ELSE MaxBurst
    BY <1>19 DEF Written
  <2>5. BurstInv'
    BY SMTT(30), <1>2, <1>6, <2>1, <2>4, MaxBurstAssumption DEF BurstInv
  <2>6. WriterInv' /\ Consistent(scheduled)'
    BY <1>2, <2>1 DEF WriterInv, Consistent, Items
  <2> QED BY <2>3, <2>5, <2>6
<1>20. CASE WriteFailed
  <2>1. /\ pc' = "failed" /\ writing' = <<>> /\ dataRx' = <<>>
        /\ scheduled' = EmptyQueue(Streams)
        /\ permits' = permits + Len(dataRx) + scheduled.len + InFlight
        /\ pc = "write"
        /\ UNCHANGED <<burstRun, controlBurst>>
    BY <1>20 DEF WriteFailed, historyVars
  <2>2. InFlight' = 0 /\ Len(dataRx') = 0 /\ scheduled'.len = 0
    BY <2>1 DEF InFlight, EmptyQueue
  <2>3. AdmissionBound'
    BY SMTT(30), <1>1, <1>2, <1>4, <2>1, <2>2 DEF AdmissionBound
  <2>4. Consistent(scheduled')
    BY <2>1, EmptyConsistent
  <2>5. WriterInv' /\ BurstInv'
    BY <1>6, <2>1 DEF WriterInv, BurstInv
  <2> QED BY <2>3, <2>4, <2>5 DEF Consistent, Items
<1> QED BY Zenon, <1>9, <1>10, <1>12, <1>13, <1>14, <1>15, <1>16, <1>17, <1>18, <1>19,
           <1>20 DEF Writer

\* The inductive invariant holds in every reachable state.
THEOREM Inductive == Spec => []IInv
<1>1. Init => IInv
  BY InitIInv
<1>2. IInv /\ [Next]_vars => IInv'
  <2> SUFFICES ASSUME IInv, [Next]_vars PROVE IInv'
    OBVIOUS
  <2>1. CASE Producer
    BY <2>1, ProducerType, ProducerStep DEF IInv
  <2>2. CASE Writer \/ WriteFailed
    BY ZenonT(40), <2>2, WriterType, WriterStep DEF IInv
  <2>3. CASE UNCHANGED vars
    <3>1. /\ UNCHANGED <<task, out, sent, session>> /\ UNCHANGED <<controlRx, dataRx, permits>>
          /\ UNCHANGED <<scheduled, controlBurst, controlOpen, dataOpen, writing, pc>>
          /\ UNCHANGED <<opened, burstRun, bypass>>
      BY Zenon, <2>3 DEF vars, producerVars, channelVars, writerVars, historyVars
    <3>2. TypeOK'
      BY Zenon, <3>1 DEF IInv, TypeOK
    <3>3. WriterInv' /\ BurstInv'
      BY Zenon, <3>1 DEF IInv, WriterInv, BurstInv
    <3>4. Consistent(scheduled)'
      BY Zenon, <3>1 DEF IInv, Consistent, Items
    <3>5. AdmissionBound'
      BY Zenon, <3>1 DEF IInv, AdmissionBound, Holders, InFlight, IsData
    <3> QED BY Zenon, <3>2, <3>3, <3>4, <3>5 DEF IInv
  <2> QED BY <2>1, <2>2, <2>3 DEF Next
<1> QED BY <1>1, <1>2, PTL DEF Spec

\* Every variable of producers, channels and writer_actor keeps its type.
THEOREM TypeCorrect == Spec => []TypeOK
<1>1. IInv => TypeOK
  BY DEF IInv
<1> QED BY <1>1, Inductive, PTL

\* The permits of BoundedQueueItem bound the items in the DATA channel, the
\* fair queue and the encoder together, for any capacity and any streams.
THEOREM AdmissionSafe == Spec => []AdmissionBound
<1>1. IInv => AdmissionBound
  BY DEF IInv
<1> QED BY <1>1, Inductive, PTL

\* The counter, service order and per-key queues of BoundedFairQueue agree
\* whatever pushes and pops writer_actor makes.
THEOREM QueueSafe == Spec => []FairQueueConsistent
<1>1. IInv => FairQueueConsistent
  <2> SUFFICES ASSUME IInv PROVE FairQueueConsistent
    BY Zenon
  <2>1. (scheduled.len = 0) <=> (scheduled.active = <<>>)
    BY ConsistentFacts DEF IInv, TypeOK
  <2> QED BY <2>1 DEF IInv, Consistent, FairQueueConsistent
<1> QED BY <1>1, Inductive, PTL

\* No more than MAX_CONTROL_FRAME_BURST control frames are written in a row
\* while DATA waits in the fair queue.
THEOREM BurstSafe == Spec => []ControlBurstBound
<1>1. IInv => ControlBurstBound
  BY DEF IInv, BurstInv, ControlBurstBound
<1> QED BY <1>1, Inductive, PTL

-----------------------------------------------------------------------------
(* OPEN_STREAM precedes DATA where the task waits for the acknowledgement. *)

\* A task that may send DATA, and every DATA frame on its way, belongs to a
\* stream whose OPEN_STREAM is on the transport.
TasksOpened ==
    \A s \in Streams : task[s] \in {"relay", "want", "hold"} => opened[s]

FramesOpened ==
    /\ \A i \in DOMAIN dataRx : opened[dataRx[i].stream]
    /\ \A s \in Streams : \A i \in DOMAIN scheduled.queues[s] :
          opened[scheduled.queues[s][i].stream]
    /\ writing # <<>> /\ IsData(writing[1]) => opened[writing[1].stream]

OpenInv == TasksOpened /\ FramesOpened

\* With AwaitAck no producer step sends DATA for a stream that is not open.
LEMMA ProducerOpen ==
    ASSUME AwaitAck PROVE IInv /\ OpenInv /\ Producer => OpenInv'
<1> SUFFICES ASSUME IInv, OpenInv, Producer PROVE OpenInv'
  OBVIOUS
<1>1. UNCHANGED <<scheduled, writing, opened>>
  BY ZenonT(40) DEF Producer, SendOpen, OpenAcked, Read, Acquire, Enqueue, EnqueueClosed,
         ResetAndClose, Close, SessionControl, CloseSession, writerVars, historyVars
<1>2. task \in [Streams -> TaskStates] /\ dataRx \in Seq(DataFrame)
  BY Zenon DEF IInv, TypeOK
<1>3. TasksOpened'
  BY Zenon, <1>1, <1>2 DEF OpenInv, TasksOpened, Producer, SendOpen, OpenAcked, Read, Acquire,
         Enqueue, EnqueueClosed, ResetAndClose, Close, SessionControl, CloseSession,
         producerVars
<1>4. \A i \in DOMAIN dataRx' : opened[dataRx'[i].stream]
  <2>1. ASSUME NEW s \in Streams, Enqueue(s)
        PROVE  \A i \in DOMAIN dataRx' : opened[dataRx'[i].stream]
    <3> DEFINE f == [kind |-> out[s], stream |-> s, seq |-> sent[s]]
    <3>1. f \in DataFrame /\ f.stream = s
      BY Zenon DEF IInv, TypeOK, DataFrame
    <3>2. opened[s] /\ dataRx' = Append(dataRx, f)
      BY <2>1 DEF Enqueue, OpenInv, TasksOpened
    <3> HIDE DEF f
    <3>3. /\ DOMAIN dataRx' = 1 .. Len(dataRx) + 1
          /\ DOMAIN dataRx = 1 .. Len(dataRx)
          /\ Len(dataRx) \in Nat
          /\ \A i \in 1 .. Len(dataRx) : dataRx'[i] = dataRx[i]
          /\ dataRx'[Len(dataRx) + 1] = f
      BY <1>2, <3>1, <3>2, AppendProperties
    <3> SUFFICES ASSUME NEW i \in DOMAIN dataRx' PROVE opened[dataRx'[i].stream]
      OBVIOUS
    <3>4. CASE i = Len(dataRx) + 1
      BY Zenon, <3>1, <3>2, <3>3, <3>4
    <3>5. CASE i # Len(dataRx) + 1
      BY <3>3, <3>5 DEF OpenInv, FramesOpened
    <3> QED BY <3>4, <3>5
  <2>2. CASE dataRx' = dataRx
    BY <2>2 DEF OpenInv, FramesOpened
  <2>3. (\E s \in Streams : Enqueue(s)) \/ dataRx' = dataRx
    BY Zenon DEF Producer, SendOpen, OpenAcked, Read, Acquire, EnqueueClosed,
           ResetAndClose, Close, SessionControl, CloseSession, channelVars
  <2> QED BY <2>1, <2>2, <2>3
<1>5. FramesOpened'
  BY <1>1, <1>4 DEF OpenInv, FramesOpened, IsData
<1> QED BY <1>3, <1>5 DEF OpenInv

\* The writer only moves frames, and never forgets that a stream is open.
LEMMA WriterOpen ==
    IInv /\ OpenInv /\ (Writer \/ WriteFailed) => OpenInv'
<1> SUFFICES ASSUME IInv, OpenInv, Writer \/ WriteFailed PROVE OpenInv'
  BY Zenon
<1>1. /\ dataRx \in Seq(DataFrame)
      /\ scheduled \in FairQueueType /\ Consistent(scheduled)
      /\ opened \in [Streams -> BOOLEAN]
      /\ scheduled.queues \in [Streams -> Seq(DataFrame)]
  BY DEF IInv, TypeOK, FairQueueType
<1>2. task' = task
  BY Zenon DEF Writer, DrainTake, DrainDone, TakeControl, ServeData, NothingReady,
         SelectControl, SelectControlClosed, SelectData, SelectDataClosed,
         Written, WriteFailed, StartControl, producerVars
<1>3. ASSUME opened' = opened, FramesOpened' PROVE OpenInv'
  BY <1>2, <1>3 DEF OpenInv, TasksOpened
<1>4. ASSUME dataRx # <<>>,
             scheduled' = Push(scheduled, Head(dataRx).stream, Head(dataRx)),
             dataRx' = Tail(dataRx), writing' = writing, opened' = opened
      PROVE  OpenInv'
  <2> DEFINE f == Head(dataRx)
             k == f.stream
             q == scheduled.queues[k]
  <2>1. /\ f \in DataFrame /\ f = dataRx[1] /\ Len(dataRx) \in Nat \ {0}
        /\ DOMAIN dataRx = 1 .. Len(dataRx)
        /\ DOMAIN Tail(dataRx) = 1 .. Len(dataRx) - 1
        /\ \A i \in 1 .. Len(dataRx) - 1 : Tail(dataRx)[i] = dataRx[i + 1]
    BY <1>1, <1>4, TailFacts
  <2>2. k \in Streams /\ opened[k] /\ q \in Seq(DataFrame)
    <3>1. k \in Streams
      BY <2>1 DEF DataFrame
    <3>2. 1 \in DOMAIN dataRx
      BY <2>1
    <3>3. opened[dataRx[1].stream]
      BY <3>2 DEF OpenInv, FramesOpened
    <3>4. opened[k]
      BY <2>1, <3>3
    <3>5. q \in Seq(DataFrame)
      BY <1>1, <3>1
    <3> QED BY <3>1, <3>4, <3>5
  <2>3. \A i \in DOMAIN dataRx' : opened'[dataRx'[i].stream]
    <3>1. \A i \in DOMAIN dataRx : opened[dataRx[i].stream]
      BY DEF OpenInv, FramesOpened
    <3>2. \A i \in DOMAIN Tail(dataRx) :
             i + 1 \in DOMAIN dataRx /\ Tail(dataRx)[i] = dataRx[i + 1]
      BY <2>1
    <3>3. dataRx' = Tail(dataRx) /\ opened' = opened
      BY <1>4
    <3> QED BY ONLY <3>1, <3>2, <3>3
  <2>4. /\ scheduled'.queues[k] = Append(q, f)
        /\ \A s \in Streams \ {k} : scheduled'.queues[s] = scheduled.queues[s]
    BY ZenonT(40), <1>1, <1>4, <2>2 DEF Push
  <2>6. \A i \in DOMAIN q : opened[q[i].stream]
    BY <2>2 DEF OpenInv, FramesOpened
  <2>7. f.stream = k /\ q = scheduled.queues[k]
    BY Zenon
  <2> HIDE DEF f, k, q
  <2>5. /\ DOMAIN Append(q, f) = 1 .. Len(q) + 1
        /\ DOMAIN q = 1 .. Len(q)
        /\ Len(q) \in Nat
        /\ \A i \in 1 .. Len(q) : Append(q, f)[i] = q[i]
        /\ Append(q, f)[Len(q) + 1] = f
    BY <2>1, <2>2, AppendFacts
  <2>8. \A i \in 1 .. Len(q) + 1 : opened[Append(q, f)[i].stream]
    <3> SUFFICES ASSUME NEW i \in 1 .. Len(q) + 1
                 PROVE  opened[Append(q, f)[i].stream]
      OBVIOUS
    <3>1. CASE i = Len(q) + 1
      BY <3>1, <2>2, <2>5, <2>7
    <3>2. CASE i \in 1 .. Len(q)
      BY <3>2, <2>5, <2>6
    <3> QED BY <3>1, <3>2, <2>5
  <2>9. \A s \in Streams : \A i \in DOMAIN scheduled'.queues[s] :
           opened'[scheduled'.queues[s][i].stream]
    <3> SUFFICES ASSUME NEW s \in Streams, NEW i \in DOMAIN scheduled'.queues[s]
                 PROVE  opened[scheduled'.queues[s][i].stream]
      BY Zenon, <1>4
    <3>1. CASE s = k
      BY Zenon, <3>1, <2>4, <2>5, <2>8
    <3>2. CASE s # k
      BY <3>2, <2>4 DEF OpenInv, FramesOpened
    <3> QED BY ZenonT(40), <3>1, <3>2
  <2>10. FramesOpened'
    BY Zenon, <1>4, <2>3, <2>9 DEF OpenInv, FramesOpened, IsData
  <2> QED BY <1>3, <1>4, <2>10
<1>5. ASSUME UNCHANGED <<scheduled, dataRx, opened>>,
             writing' # <<>> /\ IsData(writing'[1]) => opened[writing'[1].stream]
      PROVE  OpenInv'
  <2>1. FramesOpened'
    BY <1>5 DEF OpenInv, FramesOpened, IsData
  <2> QED BY <1>3, <1>5, <2>1
<1>6. CASE DrainTake
  BY <1>4, <1>6 DEF DrainTake, historyVars
<1>7. CASE SelectData
  BY Zenon, <1>4, <1>7 DEF SelectData, historyVars
<1>8. CASE DrainDone \/ NothingReady \/ SelectControlClosed \/ SelectDataClosed
  <2>1. UNCHANGED <<scheduled, dataRx, opened, writing>>
    BY <1>8 DEF DrainDone, NothingReady, SelectControlClosed, SelectDataClosed,
           channelVars, historyVars
  <2> QED BY ZenonT(40), <1>5, <2>1 DEF OpenInv, FramesOpened
<1>9. CASE TakeControl \/ SelectControl
  <2>1. StartControl
    BY <1>9 DEF TakeControl, SelectControl
  <2>2. Head(controlRx) \in ControlFrame
    BY <2>1, TailFacts DEF StartControl, IInv, TypeOK
  <2>3. ~IsData(Head(controlRx))
    BY <2>2 DEF IsData, ControlFrame, OpenFrame, OtherControl
  <2>4. UNCHANGED <<scheduled, dataRx, opened>> /\ writing'[1] = Head(controlRx)
    BY <2>1 DEF StartControl
  <2> QED BY <1>5, <2>3, <2>4
<1>10. CASE ServeData
  <2> DEFINE k == Head(scheduled.active)
             q == scheduled.queues[k]
  <2>1. k \in Streams /\ q # <<>> /\ q \in Seq(DataFrame)
    BY Zenon, <1>1, <1>10, ConsistentFacts DEF ServeData
  <2>2. /\ Head(q) = q[1] /\ Len(q) \in Nat \ {0}
        /\ DOMAIN q = 1 .. Len(q)
        /\ DOMAIN Tail(q) = 1 .. Len(q) - 1
        /\ \A i \in 1 .. Len(q) - 1 : Tail(q)[i] = q[i + 1]
    BY Zenon, <2>1, TailFacts
  <2>3. \A i \in DOMAIN q : opened[q[i].stream]
    BY ZenonT(40), <2>1 DEF OpenInv, FramesOpened
  <2>4. /\ writing'[1] = Head(q)
        /\ scheduled'.queues[k] = Tail(q)
        /\ \A s \in Streams \ {k} : scheduled'.queues[s] = scheduled.queues[s]
        /\ UNCHANGED <<dataRx, opened>>
    BY <1>1, <1>10, <2>1 DEF ServeData, Pop, Popped, channelVars
  <2> HIDE DEF k, q
  <2>5. \A s \in Streams : \A i \in DOMAIN scheduled'.queues[s] :
           opened'[scheduled'.queues[s][i].stream]
    <3> SUFFICES ASSUME NEW s \in Streams, NEW i \in DOMAIN scheduled'.queues[s]
                 PROVE  opened[scheduled'.queues[s][i].stream]
      BY <2>4
    <3>1. CASE s = k
      <4>1. i \in 1 .. Len(q) - 1 /\ scheduled'.queues[s][i] = q[i + 1]
        BY <3>1, <2>2, <2>4
      <4>2. i + 1 \in DOMAIN q
        BY <4>1, <2>2
      <4> QED BY <4>1, <4>2, <2>3
    <3>2. CASE s # k
      BY <3>2, <2>4 DEF OpenInv, FramesOpened
    <3> QED BY <3>1, <3>2
  <2>6. opened[writing'[1].stream]
    BY <2>2, <2>3, <2>4
  <2>7. FramesOpened'
    BY Zenon, <2>4, <2>5, <2>6 DEF OpenInv, FramesOpened
  <2> QED BY <1>3, <2>4, <2>7
<1>11. CASE Written
  <2>1. UNCHANGED <<scheduled, dataRx>> /\ writing' = <<>>
    BY Zenon, <1>11 DEF Written
  <2>2. ASSUME NEW s, opened[s] PROVE opened'[s]
    BY <1>1, <1>11, <2>2 DEF Written
  <2> QED BY <1>2, <2>1, <2>2 DEF OpenInv, TasksOpened, FramesOpened
<1>12. CASE WriteFailed
  <2>1. /\ dataRx' = <<>> /\ writing' = <<>> /\ opened' = opened
        /\ scheduled' = EmptyQueue(Streams)
    BY <1>12 DEF WriteFailed, historyVars
  <2>2. FramesOpened'
    BY <2>1 DEF FramesOpened, EmptyQueue
  <2> QED BY <1>3, <2>1, <2>2
<1> QED BY <1>6, <1>7, <1>8, <1>9, <1>10, <1>11, <1>12 DEF Writer

\* On the Edge, whose run_ingress_stream waits for the Agent's acknowledgement
\* before it reads, no DATA or END_STREAM frame is written before the stream's
\* OPEN_STREAM, although control and DATA travel through different queues.
THEOREM EdgeOpensFirst == ASSUME AwaitAck PROVE Spec => OpenBeforeData
<1>1. Init => OpenInv
  BY DEF Init, OpenInv, TasksOpened, FramesOpened, EmptyQueue
<1>2. IInv /\ OpenInv /\ [Next]_vars => OpenInv'
  <2> SUFFICES ASSUME IInv, OpenInv, [Next]_vars PROVE OpenInv'
    OBVIOUS
  <2>1. CASE Producer
    BY <2>1, ProducerOpen
  <2>2. CASE Writer \/ WriteFailed
    BY Zenon, <2>2, WriterOpen
  <2>3. CASE UNCHANGED vars
    BY Zenon, <2>3 DEF vars, producerVars, channelVars, writerVars, historyVars,
           OpenInv, TasksOpened, FramesOpened, IsData
  <2> QED BY <2>1, <2>2, <2>3 DEF Next
<1>3. IInv /\ OpenInv =>
        [Written => (IsData(writing[1]) => opened[writing[1].stream])]_vars
  BY Zenon DEF IInv, WriterInv, OpenInv, FramesOpened, Written
<1> QED BY <1>1, <1>2, <1>3, Inductive, PTL DEF Spec, OpenBeforeData

-----------------------------------------------------------------------------
(* Round-robin service.                                                    *)

\* s is served before t.
Before(q, s, t) ==
    \E i, j \in DOMAIN q.active : i < j /\ q.active[i] = s /\ q.active[j] = t

\* A stream that waits was passed at most once by any other, and by none that
\* is still to be served before it.
TurnInv ==
    \A t, s \in Streams :
        /\ bypass[t][s] <= 1
        /\ Before(scheduled, s, t) => bypass[t][s] = 0
        /\ scheduled.queues[t] = <<>> /\ pc # "failed" => bypass[t][s] = 0

\* pop moves every key but the one it served one place to the front.
LEMMA PopOrder ==
    ASSUME NEW q \in FairQueueType, Consistent(q), q.active # <<>>,
           NEW s, NEW t, t # Head(q.active), Before(Pop(q), s, t)
    PROVE  s # Head(q.active) /\ Before(q, s, t)
<1> DEFINE k == Head(q.active)
           r == Pop(q)
           m == Len(q.active)
<1>1. q.active \in Seq(Streams)
  BY Zenon DEF FairQueueType
<1>2. /\ m \in Nat \ {0} /\ DOMAIN q.active = 1 .. m /\ k = q.active[1]
      /\ Tail(q.active) \in Seq(Streams) /\ Len(Tail(q.active)) = m - 1 /\ k \in Streams
      /\ \A i \in 1 .. m - 1 : Tail(q.active)[i] = q.active[i + 1]
  BY <1>1, TailFacts
<1>3. r.active = Tail(q.active) \/ r.active = Append(Tail(q.active), k)
  BY Zenon DEF Pop
<1> HIDE DEF r, k
<1>4. /\ \A i \in 1 .. m - 1 : r.active[i] = q.active[i + 1]
      /\ \A i \in DOMAIN r.active : i \in 1 .. m - 1 \/ (i = m /\ r.active[i] = k)
  <2>1. CASE r.active = Tail(q.active)
    BY SMTT(30), <1>2, <2>1
  <2>2. CASE r.active = Append(Tail(q.active), k)
    <3>1. /\ DOMAIN r.active = 1 .. Len(Tail(q.active)) + 1
          /\ \A i \in 1 .. Len(Tail(q.active)) : r.active[i] = Tail(q.active)[i]
          /\ r.active[Len(Tail(q.active)) + 1] = k
      BY <1>2, <2>2, AppendFacts
    <3> QED BY SMTT(30), <1>2, <3>1
  <2> QED BY Zenon, <1>3, <2>1, <2>2
<1>5. PICK i \in DOMAIN r.active, j \in DOMAIN r.active :
        i < j /\ r.active[i] = s /\ r.active[j] = t
  BY Zenon DEF Before, r
<1>6. j \in 1 .. m - 1 /\ i \in 1 .. m - 1
  BY SMTT(30), <1>2, <1>4, <1>5 DEF k
<1>7. /\ i + 1 \in DOMAIN q.active /\ j + 1 \in DOMAIN q.active /\ i + 1 < j + 1
      /\ q.active[i + 1] = s /\ q.active[j + 1] = t /\ 1 \in DOMAIN q.active
      /\ i + 1 # 1
  BY SMTT(30), <1>2, <1>4, <1>5, <1>6
<1>8. s # k
  BY ZenonT(40), <1>2, <1>7 DEF Consistent
<1> QED BY <1>7, <1>8 DEF Before, k

\* push puts a key that had no item behind all the others.
LEMMA PushOrder ==
    ASSUME NEW q \in FairQueueType, Consistent(q), NEW k \in Streams, NEW v \in DataFrame,
           NEW s, NEW t, Before(Push(q, k, v), s, t)
    PROVE  Before(q, s, t) \/ (t = k /\ q.queues[k] = <<>>)
<1> DEFINE r == Push(q, k, v)
<1>1. q.active \in Seq(Streams)
  BY Zenon DEF FairQueueType
<1>2. r.active = IF q.queues[k] = <<>> THEN Append(q.active, k) ELSE q.active
  BY Zenon DEF Push
<1> HIDE DEF r
<1>3. CASE q.queues[k] # <<>>
  BY Zenon, <1>2, <1>3 DEF Before, r
<1>4. CASE q.queues[k] = <<>>
  <2>1. /\ DOMAIN r.active = 1 .. Len(q.active) + 1 /\ DOMAIN q.active = 1 .. Len(q.active)
        /\ Len(q.active) \in Nat
        /\ \A i \in 1 .. Len(q.active) : r.active[i] = q.active[i]
        /\ r.active[Len(q.active) + 1] = k
    BY <1>1, <1>2, <1>4, AppendFacts
  <2>2. PICK i \in DOMAIN r.active, j \in DOMAIN r.active :
          i < j /\ r.active[i] = s /\ r.active[j] = t
    BY Zenon DEF Before, r
  <2>3. CASE j = Len(q.active) + 1
    BY Zenon, <1>4, <2>1, <2>2, <2>3
  <2>4. CASE j # Len(q.active) + 1
    <3>1. /\ i \in DOMAIN q.active /\ j \in DOMAIN q.active
          /\ q.active[i] = s /\ q.active[j] = t
      BY SMTT(30), <2>1, <2>2, <2>4
    <3> QED BY Zenon, <2>2, <3>1 DEF Before
  <2> QED BY Zenon, <2>3, <2>4
<1> QED BY <1>3, <1>4

\* A new item changes nobody's turn.
LEMMA PushTurns ==
    ASSUME IInv, TurnInv, dataRx # <<>>, pc # "failed", pc' # "failed",
           scheduled' = Push(scheduled, Head(dataRx).stream, Head(dataRx)), bypass' = bypass
    PROVE  TurnInv'
<1> DEFINE f == Head(dataRx)
           k == f.stream
<1>1. /\ scheduled \in FairQueueType /\ Consistent(scheduled) /\ dataRx \in Seq(DataFrame)
      /\ scheduled.queues \in [Streams -> Seq(DataFrame)]
  BY Zenon DEF IInv, TypeOK, FairQueueType
<1>2. f \in DataFrame
  BY <1>1, TailFacts
<1>3. k \in Streams
  BY <1>2 DEF DataFrame
<1>4. \A t \in Streams : scheduled'.queues[t] = <<>> => scheduled.queues[t] = <<>>
  <2>1. Append(scheduled.queues[k], f) # <<>>
    BY SMTT(30), <1>1, <1>2, <1>3, AppendProperties
  <2>2. scheduled'.queues = [scheduled.queues EXCEPT ![k] = Append(scheduled.queues[k], f)]
    BY Zenon DEF Push
  <2> HIDE DEF k, f
  <2> QED BY Zenon, <1>1, <1>3, <2>1, <2>2
<1> SUFFICES ASSUME NEW t \in Streams, NEW s \in Streams
             PROVE  /\ bypass[t][s] <= 1
                    /\ Before(scheduled', s, t) => bypass[t][s] = 0
                    /\ scheduled'.queues[t] = <<>> => bypass[t][s] = 0
  BY Zenon DEF TurnInv, Before
<1>5. ASSUME Before(scheduled', s, t) PROVE bypass[t][s] = 0
  <2>1. Before(scheduled, s, t) \/ (t = k /\ scheduled.queues[k] = <<>>)
    BY Zenon, <1>1, <1>2, <1>3, <1>5, PushOrder
  <2> QED BY Zenon, <2>1 DEF TurnInv
<1> QED BY Zenon, <1>4, <1>5 DEF TurnInv

\* The stream that is served passes each one that waits, once.
LEMMA ServeTurns ==
    ASSUME IInv, TurnInv, ServeData
    PROVE  TurnInv'
<1> DEFINE k == Head(scheduled.active)
<1>1. /\ scheduled \in FairQueueType /\ Consistent(scheduled)
      /\ scheduled.queues \in [Streams -> Seq(DataFrame)]
      /\ bypass \in [Streams -> [Streams -> Nat]] /\ scheduled.active \in Seq(Streams)
  BY DEF IInv, TypeOK, FairQueueType
<1>2. /\ scheduled.active # <<>> /\ scheduled' = Pop(scheduled) /\ bypass' = CountService(k)
      /\ pc = "control"
  BY DEF ServeData
<1>3. k \in Streams
  BY Zenon, <1>1, <1>2, ConsistentFacts
<1>4. scheduled'.queues = [scheduled.queues EXCEPT ![k] = Tail(scheduled.queues[k])]
  BY Zenon, <1>2 DEF Pop
<1> HIDE DEF k
<1> SUFFICES ASSUME NEW t \in Streams, NEW s \in Streams
             PROVE  /\ bypass'[t][s] <= 1
                    /\ Before(scheduled', s, t) => bypass'[t][s] = 0
                    /\ scheduled'.queues[t] = <<>> => bypass'[t][s] = 0
  BY Zenon DEF TurnInv, Before
<1>5. CASE t = k \/ scheduled.queues[t] = <<>>
  BY <1>2, <1>5 DEF CountService
<1>6. CASE t # k /\ scheduled.queues[t] # <<>>
  <2>1. bypass'[t] = [bypass[t] EXCEPT ![k] = @ + 1]
    BY <1>2, <1>6 DEF CountService
  <2>2. bypass[t] \in [Streams -> Nat]
    BY <1>1
  <2>3. s # k => bypass'[t][s] = bypass[t][s]
    BY <1>3, <2>1, <2>2
  <2>4. bypass'[t][k] = bypass[t][k] + 1
    BY <1>3, <2>1, <2>2
  <2>5. Before(scheduled, k, t)
    <3>1. PICK j \in DOMAIN scheduled.active : scheduled.active[j] = t
      BY <1>1, <1>6 DEF Consistent
    <3> DEFINE a == scheduled.active
    <3>0. a \in Seq(Streams) /\ a # <<>>
      BY <1>1, <1>2
    <3> HIDE DEF a
    <3>2. 1 \in DOMAIN a /\ Head(a) = a[1] /\ DOMAIN a = 1 .. Len(a)
      BY SMTT(30), <3>0, TailFacts
    <3> USE DEF a, k
    <3>3. j # 1 /\ 1 < j
      BY SMTT(30), <1>6, <3>1, <3>2
    <3> QED BY Zenon, <3>1, <3>2, <3>3 DEF Before
  <2>6. bypass[t][k] = 0
    BY <1>3, <2>5 DEF TurnInv
  <2>7. bypass'[t][s] <= 1
    <3>1. CASE s = k BY <2>4, <2>6, <3>1
    <3>2. CASE s # k BY <2>3, <3>2 DEF TurnInv
    <3> QED BY <3>1, <3>2
  <2>8. ASSUME Before(scheduled', s, t) PROVE bypass'[t][s] = 0
    <3>1. s # k /\ Before(scheduled, s, t)
      BY Zenon, <1>1, <1>2, <1>6, <2>8, PopOrder DEF k
    <3> QED BY Zenon, <2>3, <3>1 DEF TurnInv
  <2>9. scheduled'.queues[t] # <<>>
    BY <1>1, <1>3, <1>4, <1>6
  <2> QED BY <2>7, <2>8, <2>9
<1> QED BY Zenon, <1>5, <1>6

LEMMA NextTurns == ASSUME IInv, TurnInv, [Next]_vars PROVE TurnInv'
<1>1. ASSUME UNCHANGED <<scheduled, bypass>>, pc # "failed" \/ pc' = "failed" PROVE TurnInv'
  BY <1>1 DEF TurnInv, Before
<1>2. CASE Producer \/ UNCHANGED vars
  <2>1. UNCHANGED <<scheduled, bypass, pc>>
    BY Zenon, <1>2 DEF Producer, SendOpen, OpenAcked, Read, Acquire, Enqueue, EnqueueClosed,
           ResetAndClose, Close, SessionControl, CloseSession, writerVars, historyVars, vars
  <2> QED BY <1>1, <2>1
<1>3. CASE DrainTake
  BY <1>3, PushTurns DEF DrainTake, historyVars
<1>4. CASE SelectData
  BY <1>4, PushTurns DEF SelectData, historyVars
<1>5. CASE ServeData
  BY <1>5, ServeTurns
<1>6. CASE DrainDone \/ TakeControl \/ NothingReady \/ SelectControl \/ SelectControlClosed
           \/ SelectDataClosed \/ Written
  <2>1. UNCHANGED <<scheduled, bypass>> /\ pc # "failed"
    BY Zenon, <1>6 DEF DrainDone, TakeControl, NothingReady, SelectControl, SelectControlClosed,
           SelectDataClosed, Written, StartControl, historyVars
  <2> QED BY <1>1, <2>1
<1>7. CASE WriteFailed
  <2>1. scheduled'.active = <<>> /\ bypass' = bypass /\ pc' = "failed"
    BY <1>7 DEF WriteFailed, EmptyQueue, historyVars
  <2>2. \A s, t : ~Before(scheduled', s, t)
    BY <2>1 DEF Before
  <2> QED BY Zenon, <2>1, <2>2 DEF TurnInv, Before
<1> QED BY Zenon, <1>2, <1>3, <1>4, <1>5, <1>6, <1>7 DEF Next, Writer

\* For any number of streams and any capacity the permits, from which each item
\* holds one until it is dropped, add up to the capacity, and BoundedFairQueue is
\* fair: while a stream waits no other is served more than once (pop's rotation
\* of the service order).
THEOREM ServiceFair == Spec => []QueueServes
<1>1. Init => TurnInv
  <2> SUFFICES ASSUME Init PROVE TurnInv
    OBVIOUS
  <2>1. \A t, s \in Streams : bypass[t][s] = 0
    BY DEF Init
  <2> QED BY <2>1 DEF TurnInv
<1>2. IInv /\ TurnInv /\ [Next]_vars => TurnInv'
  BY NextTurns
<1>3. IInv /\ TurnInv => QueueServes
  BY DEF IInv, TurnInv, FairService, QueueServes
<1> QED BY <1>1, <1>2, <1>3, Inductive, PTL DEF Spec

-----------------------------------------------------------------------------
(* The frames of one stream in a channel.                                  *)

\* p lists the places of stream s in q in increasing order.
Lists(p, n, q, s) ==
    /\ n \in Nat /\ p \in [1 .. n -> DOMAIN q]
    /\ \A a, b \in 1 .. n : a < b => p[a] < p[b]
    /\ \A i \in DOMAIN q : q[i].stream = s <=> \E k \in 1 .. n : p[k] = i

\* The first k places in such a list are k places.
LEMMA CountPlaces ==
    ASSUME NEW q \in Seq(DataFrame), NEW s, NEW n, NEW p, Lists(p, n, q, s), NEW k \in 0 .. n
    PROVE  Cardinality({p[j] : j \in 1 .. k}) = k
<1> DEFINE f == [j \in 1 .. k |-> p[j]]
           T == {p[j] : j \in 1 .. k}
<1>1. n \in Nat /\ k \in Nat /\ \A j \in 1 .. k : j \in 1 .. n
  BY DEF Lists
<1>2. \A a, b \in 1 .. k : a # b => p[a] # p[b]
  <2> SUFFICES ASSUME NEW a \in 1 .. k, NEW b \in 1 .. k, a # b PROVE p[a] # p[b]
    OBVIOUS
  <2>1. DOMAIN q \subseteq Nat
    BY LenProperties
  <2>2. p[a] \in Nat /\ p[b] \in Nat
    BY <1>1, <2>1 DEF Lists
  <2>3. CASE a < b BY SMTT(30), <1>1, <2>2, <2>3 DEF Lists
  <2>4. CASE b < a BY SMTT(30), <1>1, <2>2, <2>4 DEF Lists
  <2> QED BY <1>1, <2>3, <2>4
<1>3. f \in Bijection(1 .. k, T)
  BY <1>2 DEF Bijection, Injection, IsInjective, Surjection
<1>4. ExistsBijection(1 .. k, T)
  BY <1>3 DEF ExistsBijection
<1> QED BY <1>1, <1>4, FS_CountingElements

\* Such a list determines the stream's frames.
LEMMA ListedFrames ==
    ASSUME NEW q \in Seq(DataFrame), NEW s, NEW n, NEW p, Lists(p, n, q, s)
    PROVE  /\ OfStream(q, s) \in Seq(DataFrame) /\ Len(OfStream(q, s)) = n
           /\ \A k \in 1 .. n : OfStream(q, s)[k] = q[p[k]]
<1> DEFINE P == Places(q, s, Len(q))
           upto(i) == Places(q, s, i)
           place(k) == CHOOSE i \in DOMAIN q : q[i].stream = s /\ Cardinality(upto(i)) = k
<1>0. n \in Nat /\ p \in [1 .. n -> DOMAIN q] /\ DOMAIN q = 1 .. Len(q) /\ Len(q) \in Nat
  BY LenProperties DEF Lists
<1>1. \A x : x \in P <=> \E j \in 1 .. n : x = p[j]
  BY <1>0 DEF Places, Lists
<1>2. Cardinality(P) = n
  <2>1. P = {p[j] : j \in 1 .. n} BY Zenon, <1>1
  <2>2. n \in 0 .. n BY <1>0
  <2> QED BY <2>1, <2>2, CountPlaces
<1>3. ASSUME NEW k \in 1 .. n PROVE p[k] \in DOMAIN q /\ q[p[k]].stream = s /\ Cardinality(upto(p[k])) = k
  <2>1. upto(p[k]) = {p[j] : j \in 1 .. k}
    <3>0. p[k] \in 1 .. Len(q) BY Zenon, <1>0
    <3>1. ASSUME NEW j \in 1 .. n PROVE p[j] <= p[k] <=> j <= k
      <4>1. p[j] \in Nat /\ p[k] \in Nat BY <1>0
      <4>2. CASE j < k BY <4>1, <4>2 DEF Lists
      <4>3. CASE k < j BY <4>1, <4>3 DEF Lists
      <4>4. CASE k = j BY <4>1, <4>4
      <4> QED BY <1>0, <4>2, <4>3, <4>4
    <3>2. \A j \in 1 .. k : j \in 1 .. n /\ j <= k BY <1>0
    <3>3. \A j \in 1 .. n : j <= k => j \in 1 .. k BY <1>0
    <3>4. \A x : x \in upto(p[k]) <=> x \in P /\ x <= p[k]
      BY ONLY <1>0, <3>0 DEF Places
    <3>5. ASSUME NEW x \in upto(p[k]) PROVE x \in {p[j] : j \in 1 .. k}
      <4>1. PICK j \in 1 .. n : x = p[j] BY Zenon, <1>1, <3>4
      <4> QED BY Zenon, <3>1, <3>3, <3>4, <4>1
    <3>6. ASSUME NEW x \in {p[j] : j \in 1 .. k} PROVE x \in upto(p[k])
      <4>1. PICK j \in 1 .. k : x = p[j] OBVIOUS
      <4> QED BY Zenon, <1>1, <3>1, <3>2, <3>4, <4>1
    <3> QED BY Zenon, <3>5, <3>6
  <2>2. k \in 0 .. n BY <1>0
  <2>3. Cardinality(upto(p[k])) = k BY <2>1, <2>2, CountPlaces
  <2>4. p[k] \in DOMAIN q /\ q[p[k]].stream = s BY Zenon, <1>0 DEF Lists
  <2> QED BY Zenon, <2>3, <2>4
<1>4. ASSUME NEW k \in 1 .. n PROVE place(k) = p[k]
  <2>1. p[k] \in DOMAIN q /\ q[p[k]].stream = s /\ Cardinality(upto(p[k])) = k BY Zenon, <1>3
  <2>2. ASSUME NEW i \in DOMAIN q, q[i].stream = s, Cardinality(upto(i)) = k PROVE i = p[k]
    <3>1. PICK m \in 1 .. n : i = p[m] BY Zenon, <2>2 DEF Lists
    <3>2. Cardinality(upto(p[m])) = m BY Zenon, <1>3
    <3> QED BY Zenon, <2>2, <3>1, <3>2
  <2> HIDE DEF upto
  <2> QED BY Zenon, <2>1, <2>2
<1>5. CASE \A i \in DOMAIN q : q[i].stream = s
  <2>1. OfStream(q, s) = q BY Zenon, <1>5 DEF OfStream
  <2>2. ASSUME NEW k \in 1 .. Len(q) PROVE Cardinality(Places(q, s, k)) = k
    <3>1. Places(q, s, k) = 1 .. k BY <1>0, <1>5 DEF Places
    <3>2. Cardinality(1 .. k) = k BY <1>0, FS_Interval
    <3> QED BY Zenon, <3>1, <3>2
  <2>3. Len(q) = n
    <3>1. CASE Len(q) = 0
      <4>1. P = {} BY <3>1 DEF Places
      <4> QED BY Zenon, <1>2, <3>1, <4>1, FS_EmptySet
    <3>2. CASE Len(q) # 0
      <4>1. Len(q) \in 1 .. Len(q) BY <1>0, <3>2
      <4> QED BY Zenon, <1>2, <2>2, <4>1
    <3> QED BY Zenon, <3>1, <3>2
  <2>4. ASSUME NEW k \in 1 .. n PROVE p[k] = k BY Zenon, <1>0, <1>3, <2>2
  <2> QED BY Zenon, <2>1, <2>3, <2>4
<1>6. CASE \A i \in DOMAIN q : q[i].stream # s
  <2>1. n = 0
    <3>1. P = {} BY <1>0, <1>6 DEF Places
    <3> QED BY Zenon, <1>2, <3>1, FS_EmptySet
  <2>2. OfStream(q, s) = <<>>
    <3>1. CASE DOMAIN q = {}
      <4>1. Len(q) = 0 BY <1>0, <3>1
      <4>2. q = <<>> BY <1>0, <4>1, EmptySeq
      <4> QED BY Zenon, <3>1, <4>2 DEF OfStream
    <3>2. CASE DOMAIN q # {} BY Zenon, <1>6, <3>2 DEF OfStream
    <3> QED BY Zenon, <3>1, <3>2
  <2>3. \A k \in 1 .. n : FALSE BY <2>1
  <2> QED BY Zenon, <2>1, <2>2, <2>3, EmptySeq
<1>7. CASE /\ ~(\A i \in DOMAIN q : q[i].stream = s)
           /\ ~(\A i \in DOMAIN q : q[i].stream # s)
  <2>1. OfStream(q, s) = [k \in 1 .. Cardinality(P) |-> q[place(k)]] BY Zenon, <1>7 DEF OfStream
  <2> HIDE DEF place, P
  <2>2. OfStream(q, s) = [k \in 1 .. n |-> q[p[k]]] BY <1>2, <1>4, <2>1
  <2>3. \A k \in 1 .. n : q[p[k]] \in DataFrame BY <1>0, ElementOfSeq
  <2>4. OfStream(q, s) \in [1 .. n -> DataFrame] BY <2>2, <2>3
  <2>5. OfStream(q, s) \in Seq(DataFrame) BY Zenon, <1>0, <2>4, FunctionIsSeq
  <2>6. Len(OfStream(q, s)) = n BY <1>0, <2>4, <2>5, LenProperties
  <2> QED BY Zenon, <2>2, <2>5, <2>6
<1> QED BY Zenon, <1>5, <1>6, <1>7

Listed(q, s) == \E n, p : Lists(p, n, q, s)

LEMMA EmptyListed ==
    ASSUME NEW s PROVE Listed(<<>>, s) /\ OfStream(<<>>, s) = <<>>
<1> DEFINE p == [k \in 1 .. 0 |-> 0]
<1>0. <<>> \in Seq(DataFrame) /\ DOMAIN <<>> = {}
  BY EmptySeq
<1>1. Lists(p, 0, <<>>, s)
  BY <1>0 DEF Lists
<1>2. OfStream(<<>>, s) \in Seq(DataFrame) /\ Len(OfStream(<<>>, s)) = 0
  BY Zenon, <1>0, <1>1, ListedFrames
<1>3. Listed(<<>>, s)
  BY Zenon, <1>1 DEF Listed
<1> QED BY <1>2, <1>3, EmptySeq

\* A frame sent joins the frames of its stream at the back.
LEMMA AppendListed ==
    ASSUME NEW q \in Seq(DataFrame), NEW f \in DataFrame, NEW s, Listed(q, s)
    PROVE  /\ Listed(Append(q, f), s)
           /\ OfStream(Append(q, f), s) =
                IF f.stream = s THEN Append(OfStream(q, s), f) ELSE OfStream(q, s)
<1> DEFINE r == Append(q, f)
           L == Len(q)
<1>1. PICK n, p : Lists(p, n, q, s)
  BY Zenon DEF Listed
<1>2. /\ n \in Nat /\ p \in [1 .. n -> DOMAIN q] /\ L \in Nat /\ DOMAIN q = 1 .. L
      /\ r \in Seq(DataFrame) /\ DOMAIN r = 1 .. L + 1 /\ r[L + 1] = f
      /\ \A i \in 1 .. L : r[i] = q[i]
  BY SMTT(30), <1>1, AppendFacts, AppendProperties DEF Lists
<1> DEFINE x == OfStream(q, s)
           y == OfStream(r, s)
<1>3. x \in Seq(DataFrame) /\ Len(x) = n /\ \A k \in 1 .. n : x[k] = q[p[k]]
  BY <1>1, ListedFrames
<1> HIDE DEF r, L, x, y
<1>4. CASE f.stream # s
  <2>1. Lists(p, n, r, s)
    <3>1. p \in [1 .. n -> DOMAIN r] BY <1>2
    <3>2. ASSUME NEW i \in DOMAIN r PROVE r[i].stream = s <=> \E k \in 1 .. n : p[k] = i
      <4>1. CASE i = L + 1
        <5>1. \A k \in 1 .. n : p[k] # L + 1 BY <1>2
        <5> QED BY Zenon, <1>2, <1>4, <4>1, <5>1
      <4>2. CASE i # L + 1
        <5>1. i \in DOMAIN q /\ r[i] = q[i] BY SMTT(30), <1>2, <4>2
        <5> QED BY Zenon, <1>1, <5>1 DEF Lists
      <4> QED BY Zenon, <4>1, <4>2
    <3> QED BY <1>1, <3>1, <3>2 DEF Lists
  <2>2. y \in Seq(DataFrame) /\ Len(y) = n /\ \A k \in 1 .. n : y[k] = r[p[k]]
    BY SMTT(30), <1>2, <2>1, ListedFrames DEF y
  <2>3. \A k \in 1 .. n : r[p[k]] = q[p[k]]
    BY <1>2
  <2>4. y = x
    BY ZenonT(40), <1>3, <2>2, <2>3, SeqEqual
  <2> QED BY Zenon, <1>4, <2>1, <2>4 DEF Listed, r, x, y
<1>5. CASE f.stream = s
  <2> DEFINE w == [k \in 1 .. n + 1 |-> IF k = n + 1 THEN L + 1 ELSE p[k]]
  <2>1. \A k \in 1 .. n : k \in 1 .. n + 1 /\ w[k] = p[k] /\ p[k] \in 1 .. L
    BY SMTT(30), <1>2
  <2>2. n + 1 \in 1 .. n + 1 /\ w[n + 1] = L + 1 /\ \A k \in 1 .. n + 1 : k = n + 1 \/ k \in 1 .. n
    BY SMTT(30), <1>2
  <2>3. w \in [1 .. n + 1 -> DOMAIN r]
    BY SMTT(30), <1>2
  <2> HIDE DEF w
  <2>4. ASSUME NEW a \in 1 .. n + 1, NEW b \in 1 .. n + 1, a < b PROVE w[a] < w[b]
    <3>1. a \in 1 .. n BY <1>2, <2>4
    <3>2. CASE b = n + 1 BY SMTT(30), <1>2, <2>1, <2>2, <3>1, <3>2
    <3>3. CASE b # n + 1
      <4>1. b \in 1 .. n BY <2>2, <3>3
      <4>2. p[a] < p[b] BY <1>1, <2>4, <3>1, <4>1 DEF Lists
      <4> QED BY <2>1, <3>1, <4>1, <4>2
    <3> QED BY Zenon, <3>2, <3>3
  <2>5. ASSUME NEW i \in DOMAIN r PROVE r[i].stream = s <=> \E k \in 1 .. n + 1 : w[k] = i
    <3>1. CASE i = L + 1 BY <1>2, <1>5, <2>2, <3>1
    <3>2. CASE i # L + 1
      <4>1. i \in DOMAIN q /\ r[i] = q[i] BY <1>2, <3>2
      <4>2. q[i].stream = s <=> \E k \in 1 .. n : p[k] = i BY <1>1, <4>1 DEF Lists
      <4>3. (\E k \in 1 .. n : p[k] = i) <=> \E k \in 1 .. n + 1 : w[k] = i
        BY Zenon, <2>1, <2>2, <3>2
      <4> QED BY Zenon, <4>1, <4>2, <4>3
    <3> QED BY Zenon, <3>1, <3>2
  <2>6. Lists(w, n + 1, r, s)
    BY <1>2, <2>3, <2>4, <2>5 DEF Lists
  <2>7. y \in Seq(DataFrame) /\ Len(y) = n + 1 /\ \A k \in 1 .. n + 1 : y[k] = r[w[k]]
    <3>1. ASSUME NEW m, Lists(w, m, r, s)
          PROVE  y \in Seq(DataFrame) /\ Len(y) = m /\ \A k \in 1 .. m : y[k] = r[w[k]]
      BY SMTT(30), <1>2, <3>1, ListedFrames DEF y
    <3> QED BY Zenon, <2>6, <3>1
  <2>9. /\ Append(x, f) \in Seq(DataFrame) /\ Len(Append(x, f)) = n + 1
        /\ \A k \in 1 .. n : Append(x, f)[k] = x[k]
        /\ Append(x, f)[n + 1] = f
    BY <1>3, AppendProperties
  <2>10. ASSUME NEW k \in 1 .. n + 1 PROVE y[k] = Append(x, f)[k]
    <3>1. CASE k = n + 1 BY Zenon, <1>2, <2>2, <2>7, <2>9, <3>1
    <3>2. CASE k # n + 1
      <4>1. k \in 1 .. n /\ y[k] = r[p[k]] /\ x[k] = q[p[k]] BY Zenon, <1>3, <2>1, <2>2, <2>7, <3>2
      <4>2. r[p[k]] = q[p[k]] BY <1>2, <2>1, <4>1
      <4> QED BY Zenon, <2>9, <4>1, <4>2
    <3> QED BY Zenon, <3>1, <3>2
  <2>11. y = Append(x, f)
    BY Zenon, <2>7, <2>9, <2>10, SeqEqual
  <2> QED BY Zenon, <1>5, <2>6, <2>11 DEF Listed, r, x, y
<1> QED BY <1>4, <1>5

\* The frame taken from the channel is the first one of its stream.
LEMMA TailListed ==
    ASSUME NEW q \in Seq(DataFrame), q # <<>>, NEW s, Listed(q, s)
    PROVE  /\ Listed(Tail(q), s)
           /\ OfStream(q, s) \in Seq(DataFrame) /\ OfStream(Tail(q), s) \in Seq(DataFrame)
           /\ Head(q).stream # s => OfStream(Tail(q), s) = OfStream(q, s)
           /\ Head(q).stream = s => /\ OfStream(q, s) # <<>>
                                    /\ Head(OfStream(q, s)) = Head(q)
                                    /\ OfStream(Tail(q), s) = Tail(OfStream(q, s))
<1> DEFINE r == Tail(q)
           L == Len(q)
           x == OfStream(q, s)
           y == OfStream(r, s)
<1>1. PICK n, p : Lists(p, n, q, s)
  BY DEF Listed
<1>2. /\ n \in Nat /\ p \in [1 .. n -> DOMAIN q] /\ L \in Nat \ {0} /\ DOMAIN q = 1 .. L
      /\ r \in Seq(DataFrame) /\ DOMAIN r = 1 .. L - 1 /\ Head(q) = q[1]
      /\ \A i \in 1 .. L - 1 : r[i] = q[i + 1]
  BY <1>1, TailFacts DEF Lists
<1>3. x \in Seq(DataFrame) /\ Len(x) = n /\ \A k \in 1 .. n : x[k] = q[p[k]]
  BY SMTT(30), <1>1, ListedFrames
<1> HIDE DEF r, L, x, y
<1>4. ASSUME NEW m, NEW w, Lists(w, m, r, s)
      PROVE  y \in Seq(DataFrame) /\ Len(y) = m /\ \A k \in 1 .. m : y[k] = r[w[k]]
  BY SMTT(30), <1>2, <1>4, ListedFrames DEF y
<1>5. CASE Head(q).stream # s
  <2> DEFINE w == [k \in 1 .. n |-> p[k] - 1]
  <2>1. ASSUME NEW k \in 1 .. n PROVE p[k] \in 2 .. L /\ w[k] = p[k] - 1 /\ w[k] \in 1 .. L - 1
    <3>1. p[k] \in DOMAIN q /\ q[p[k]].stream = s BY Zenon, <1>1, <1>2 DEF Lists
    <3>2. p[k] # 1 BY Zenon, <1>2, <1>5, <3>1
    <3> QED BY SMTT(30), <1>2, <3>1, <3>2
  <2>2. w \in [1 .. n -> DOMAIN r] BY Zenon, <1>2, <2>1
  <2> HIDE DEF w
  <2>3. ASSUME NEW a \in 1 .. n, NEW b \in 1 .. n, a < b PROVE w[a] < w[b]
    <3>1. p[a] < p[b] BY Zenon, <1>1, <2>3 DEF Lists
    <3> QED BY SMTT(30), <2>1, <3>1
  <2>4. ASSUME NEW i \in DOMAIN r PROVE r[i].stream = s <=> \E k \in 1 .. n : w[k] = i
    <3>1. i + 1 \in DOMAIN q /\ r[i] = q[i + 1] BY <1>2
    <3>2. q[i + 1].stream = s <=> \E k \in 1 .. n : p[k] = i + 1 BY <1>1, <3>1 DEF Lists
    <3>3. \A k \in 1 .. n : p[k] = i + 1 <=> w[k] = i BY SMTT(30), <1>2, <2>1
    <3> QED BY Zenon, <3>1, <3>2, <3>3
  <2>5. Lists(w, n, r, s) BY Zenon, <1>2, <2>2, <2>3, <2>4 DEF Lists
  <2>6. y \in Seq(DataFrame) /\ Len(y) = n /\ \A k \in 1 .. n : y[k] = r[w[k]]
    BY Zenon, <1>4, <2>5
  <2>7. ASSUME NEW k \in 1 .. n PROVE y[k] = x[k]
    <3>0. p[k] \in 2 .. L /\ w[k] = p[k] - 1 /\ w[k] \in 1 .. L - 1 BY Zenon, <2>1
    <3>1. w[k] \in 1 .. L - 1 /\ w[k] + 1 = p[k] BY SMTT(30), <3>0
    <3>2. r[w[k]] = q[w[k] + 1] BY Zenon, <1>2, <3>1
    <3> QED BY Zenon, <1>3, <2>6, <3>1, <3>2
  <2>8. y = x BY Zenon, <1>3, <2>6, <2>7, SeqEqual
  <2> QED BY Zenon, <1>3, <1>5, <2>5, <2>6, <2>8 DEF Listed, r, x, y
<1>6. CASE Head(q).stream = s
  <2>1. PICK h \in 1 .. n : p[h] = 1
    <3>1. 1 \in DOMAIN q /\ q[1].stream = s BY <1>2, <1>6
    <3> QED BY <1>1, <3>1 DEF Lists
  <2>2. h = 1 /\ n >= 1
    <3>1. ASSUME h # 1 PROVE FALSE
      <4>1. 1 \in 1 .. n /\ 1 < h BY <1>2, <3>1
      <4>2. p[1] < p[h] BY <1>1, <4>1 DEF Lists
      <4>3. p[1] \in 1 .. L BY <1>2, <4>1
      <4> QED BY SMTT(30), <1>2, <2>1, <4>2, <4>3
    <3> QED BY <1>2, <3>1
  <2> DEFINE w == [k \in 1 .. n - 1 |-> p[k + 1] - 1]
  <2>3. ASSUME NEW k \in 1 .. n - 1
        PROVE  /\ k + 1 \in 1 .. n /\ p[k + 1] \in 2 .. L
               /\ w[k] = p[k + 1] - 1 /\ w[k] \in 1 .. L - 1
    <3>1. k + 1 \in 1 .. n /\ 1 \in 1 .. n /\ 1 < k + 1 BY <1>2, <2>2
    <3>2. p[k + 1] \in 1 .. L /\ p[1] = 1 BY Zenon, <1>2, <2>1, <2>2, <3>1
    <3>3. p[1] < p[k + 1] BY <1>1, <3>1 DEF Lists
    <3> QED BY SMTT(30), <1>2, <3>1, <3>2, <3>3
  <2>4. w \in [1 .. n - 1 -> DOMAIN r] BY <1>2, <2>3
  <2> HIDE DEF w
  <2>5. ASSUME NEW a \in 1 .. n - 1, NEW b \in 1 .. n - 1, a < b PROVE w[a] < w[b]
    <3>1. a + 1 \in 1 .. n /\ b + 1 \in 1 .. n /\ a + 1 < b + 1 BY <1>2, <2>5
    <3>2. p[a + 1] < p[b + 1] BY <1>1, <3>1 DEF Lists
    <3> QED BY SMTT(30), <2>3, <3>2
  <2>6. ASSUME NEW i \in DOMAIN r PROVE r[i].stream = s <=> \E k \in 1 .. n - 1 : w[k] = i
    <3>1. i + 1 \in DOMAIN q /\ r[i] = q[i + 1] /\ i + 1 # 1 /\ i \in Nat BY SMTT(30), <1>2
    <3>2. q[i + 1].stream = s <=> \E k \in 1 .. n : p[k] = i + 1 BY Zenon, <1>1, <3>1 DEF Lists
    <3>3. ASSUME NEW k \in 1 .. n - 1, w[k] = i PROVE \E m \in 1 .. n : p[m] = i + 1
      BY <2>3, <3>3
    <3>4. ASSUME NEW m \in 1 .. n, p[m] = i + 1 PROVE \E k \in 1 .. n - 1 : w[k] = i
      <4>1. m # 1 BY Zenon, <2>1, <2>2, <3>1, <3>4
      <4>2. m - 1 \in 1 .. n - 1 /\ (m - 1) + 1 = m BY SMTT(30), <1>2, <4>1
      <4>3. w[m - 1] = i BY SMTT(30), <2>3, <3>1, <3>4, <4>2
      <4> QED BY Zenon, <4>2, <4>3
    <3> QED BY Zenon, <3>1, <3>2, <3>3, <3>4
  <2>7. Lists(w, n - 1, r, s) BY SMTT(30), <1>2, <2>2, <2>4, <2>5, <2>6 DEF Lists
  <2>8. y \in Seq(DataFrame) /\ Len(y) = n - 1 /\ \A k \in 1 .. n - 1 : y[k] = r[w[k]]
    BY <1>4, <2>7
  <2>9. x # <<>> BY SMTT(30), <1>2, <1>3, <2>2, EmptySeq
  <2>10. /\ Head(x) = x[1] /\ Tail(x) \in Seq(DataFrame) /\ Len(Tail(x)) = n - 1
         /\ \A k \in 1 .. n - 1 : Tail(x)[k] = x[k + 1]
    BY <1>3, <2>9, TailFacts
  <2>11. Head(x) = Head(q)
    BY Zenon, <1>2, <1>3, <2>1, <2>2, <2>10
  <2>12. ASSUME NEW k \in 1 .. n - 1 PROVE y[k] = Tail(x)[k]
    <3>1. r[w[k]] = q[w[k] + 1] /\ w[k] + 1 = p[k + 1] /\ k + 1 \in 1 .. n BY SMTT(30), <1>2, <2>3
    <3> QED BY Zenon, <1>3, <2>8, <2>10, <3>1
  <2>13. y = Tail(x) BY Zenon, <2>8, <2>10, <2>12, SeqEqual
  <2> QED BY Zenon, <1>3, <1>6, <2>7, <2>8, <2>9, <2>11, <2>13 DEF Listed, r, x, y
<1> QED BY <1>5, <1>6

-----------------------------------------------------------------------------
(* writer_actor implements the ordered relay.                              *)

\* A frame and what follows it.
LEMMA FrontOf ==
    ASSUME NEW S, NEW x \in S, NEW t \in Seq(S)
    PROVE  /\ <<x>> \o t \in Seq(S) /\ <<x>> \o t # <<>>
           /\ Tail(<<x>> \o t) = t
<1>1. <<x>> \in Seq(S) /\ Len(<<x>>) = 1 /\ <<x>>[1] = x
  BY SMTT(30)
<1> DEFINE c == <<x>> \o t
           n == Len(t)
<1>2. /\ c \in Seq(S) /\ Len(c) = 1 + n /\ n \in Nat
      /\ \A i \in 1 .. 1 + n : c[i] = IF i <= 1 THEN <<x>>[i] ELSE t[i - 1]
  BY Zenon, <1>1, ConcatProperties, LenProperties
<1> HIDE DEF c, n
<1>3. c # <<>>
  BY <1>2, EmptySeq
<1>4. Tail(c) \in Seq(S) /\ Len(Tail(c)) = n /\ \A i \in 1 .. n : Tail(c)[i] = c[i + 1]
  BY SMTT(30), <1>2, <1>3, TailFacts
<1>5. ASSUME NEW i \in 1 .. n PROVE Tail(c)[i] = t[i]
  <2>1. i + 1 \in 1 .. 1 + n /\ ~(i + 1 <= 1) /\ (i + 1) - 1 = i
    BY SMTT(30), <1>2
  <2> QED BY Zenon, <1>2, <1>4, <2>1
<1>6. Tail(c) = t
  BY <1>4, <1>5, SeqEqual DEF n
<1> QED BY <1>2, <1>3, <1>6 DEF c

\* A sequence that is not empty is its head and its tail.
LEMMA SplitFront ==
    ASSUME NEW S, NEW q \in Seq(S), q # <<>>
    PROVE  <<Head(q)>> \o Tail(q) = q
<1> DEFINE h == <<Head(q)>>
           t == Tail(q)
           n == Len(t)
<1>1. /\ Len(q) = n + 1 /\ n \in Nat /\ t \in Seq(S) /\ Head(q) \in S /\ Head(q) = q[1]
      /\ \A i \in 1 .. n : t[i] = q[i + 1]
  BY TailFacts
<1>2. h \in Seq(S) /\ Len(h) = 1 /\ h[1] = q[1]
  BY <1>1
<1> HIDE DEF h, t, n
<1>0. Len(t) = n
  BY DEF n
<1>3. /\ h \o t \in Seq(S) /\ Len(h \o t) = 1 + n
      /\ \A i \in 1 .. 1 + n : (h \o t)[i] = IF i <= 1 THEN h[i] ELSE t[i - 1]
  <2>1. /\ h \o t \in Seq(S) /\ Len(h \o t) = Len(h) + Len(t)
        /\ \A i \in 1 .. Len(h) + Len(t) :
              (h \o t)[i] = IF i <= Len(h) THEN h[i] ELSE t[i - Len(h)]
    <3>1. h \in Seq(S) /\ t \in Seq(S) BY <1>1, <1>2
    <3> QED BY ONLY <3>1, ConcatProperties
  <2> QED BY <1>0, <1>2, <2>1, Zenon
<1>4. ASSUME NEW i \in 1 .. 1 + n PROVE (h \o t)[i] = q[i]
  <2>1. CASE i = 1 BY SMTT(30), <1>1, <1>2, <1>3, <2>1
  <2>2. CASE i # 1
    <3>1. i - 1 \in 1 .. n /\ ~(i <= 1) /\ (i - 1) + 1 = i BY <1>1, <2>2
    <3> QED BY Zenon, <1>1, <1>3, <3>1
  <2> QED BY <2>1, <2>2, Zenon
<1>5. h \o t = q
  <2>1. Len(h \o t) = Len(q) BY ONLY <1>1, <1>3
  <2> QED BY Zenon, <1>3, <1>4, <2>1, SeqEqual
<1> QED BY <1>5 DEF h, t

\* Concatenation is associative.
LEMMA Joined ==
    \A x, y, z \in Seq(DataFrame) : (x \o y) \o z = x \o (y \o z)
  BY ConcatAssociative

\* Moving the head of one sequence to the end of the one before it.
LEMMA MoveHead ==
    ASSUME NEW i \in Seq(DataFrame), NEW q \in Seq(DataFrame), NEW o \in Seq(DataFrame), o # <<>>
    PROVE  i \o Append(q, Head(o)) \o Tail(o) = i \o q \o o
<1> DEFINE T == Seq(DataFrame)
           h == Head(o)
           g == <<h>>
           t == Tail(o)
<1>1. \A x, y, z \in T : (x \o y) \o z = x \o (y \o z)
  BY Joined, Zenon
<1>2. h \in DataFrame /\ t \in T
  BY TailFacts
<1>3. g \o t = o
  BY SplitFront, Zenon
<1> HIDE DEF h, t
<1>4. Append(q, h) = q \o g
  BY <1>2, AppendIsConcat
<1>5. g \in T
  BY <1>2
<1>6. i \o q \in T
  BY ConcatProperties
<1>7. i \in T /\ q \in T
  OBVIOUS
<1> HIDE DEF g, T
<1>8. i \o (q \o g) = (i \o q) \o g
  BY <1>1, <1>5, <1>7, Zenon
<1>9. ((i \o q) \o g) \o t = (i \o q) \o (g \o t)
  BY <1>1, <1>2, <1>5, <1>6, Zenon
<1>10. i \o Append(q, h) \o t = i \o q \o o
  BY <1>3, <1>4, <1>8, <1>9, Zenon
<1> QED BY <1>10, Zenon DEF h, t

\* Adding a frame at the end.
LEMMA AddLast ==
    ASSUME NEW i \in Seq(DataFrame), NEW q \in Seq(DataFrame), NEW o \in Seq(DataFrame),
           NEW x \in DataFrame
    PROVE  i \o q \o Append(o, x) = Append(i \o q \o o, x)
<1>1. i \o q \in Seq(DataFrame) /\ i \o q \o o \in Seq(DataFrame)
  BY ConcatProperties
<1>2. <<x>> \in Seq(DataFrame)
  OBVIOUS
<1>3. Append(o, x) = o \o <<x>> /\ Append(i \o q \o o, x) = i \o q \o o \o <<x>>
  BY <1>1, AppendIsConcat
<1> QED BY SMTT(30), <1>1, <1>2, <1>3, ConcatAssociative

\* Taking the first frame away.
LEMMA DropFirst ==
    ASSUME NEW x \in DataFrame, NEW q \in Seq(DataFrame), NEW o \in Seq(DataFrame)
    PROVE  <<x>> \o q \o o # <<>> /\ Tail(<<x>> \o q \o o) = <<>> \o q \o o
<1>1. <<x>> \in Seq(DataFrame) /\ q \o o \in Seq(DataFrame)
  BY ConcatProperties
<1>2. <<x>> \o q \o o = <<x>> \o (q \o o)
  BY <1>1, ConcatAssociative
<1>3. <<>> \o q = q
  BY ConcatEmptySeq
<1>4. <<x>> \o (q \o o) # <<>> /\ Tail(<<x>> \o (q \o o)) = q \o o
  BY <1>1, FrontOf
<1> QED BY Zenon, <1>2, <1>3, <1>4

\* What the mapping needs beside IInv: a closed channel was empty when its last
\* sender went, the channel's frames can be listed per stream, and the fair
\* queue keeps the frames of a stream under its key.
RelayInv ==
    /\ ~dataOpen => dataRx = <<>> /\ SendersGone
    /\ ~controlOpen => controlRx = <<>> /\ SendersGone
    /\ \A s \in Streams : Listed(dataRx, s)
    /\ \A s \in Streams : \A i \in DOMAIN scheduled.queues[s] :
          scheduled.queues[s][i].stream = s

\* The frames of a stream in the channel are DATA frames.
LEMMA ListedType ==
    ASSUME NEW q \in Seq(DataFrame), NEW s, Listed(q, s)
    PROVE  OfStream(q, s) \in Seq(DataFrame)
  BY ListedFrames, Zenon DEF Listed

\* push files a frame under the stream it belongs to.
LEMMA PushOwn ==
    ASSUME IInv, RelayInv, dataRx # <<>>,
           scheduled' = Push(scheduled, Head(dataRx).stream, Head(dataRx))
    PROVE  /\ \A s \in Streams : \A i \in DOMAIN scheduled'.queues[s] :
                 scheduled'.queues[s][i].stream = s
           /\ Head(dataRx) \in DataFrame /\ Head(dataRx).stream \in Streams
           /\ scheduled'.queues[Head(dataRx).stream] =
                 Append(scheduled.queues[Head(dataRx).stream], Head(dataRx))
           /\ \A s \in Streams \ {Head(dataRx).stream} : scheduled'.queues[s] = scheduled.queues[s]
<1> DEFINE f == Head(dataRx)
           k == f.stream
<1>1. /\ scheduled.queues \in [Streams -> Seq(DataFrame)] /\ dataRx \in Seq(DataFrame)
  BY Zenon DEF IInv, TypeOK, FairQueueType
<1>2. f \in DataFrame
  BY <1>1, TailFacts
<1>3. k \in Streams
  BY Zenon, <1>2 DEF DataFrame
<1>4. scheduled'.queues = [scheduled.queues EXCEPT ![k] = Append(@, f)]
  BY Zenon DEF Push
<1> HIDE DEF f
<1>5. ASSUME NEW s \in Streams, NEW i \in DOMAIN scheduled'.queues[s]
      PROVE  scheduled'.queues[s][i].stream = s
  <2> DEFINE q == scheduled.queues[s]
  <2>1. CASE s # k
    BY Zenon, <1>1, <1>4, <1>5, <2>1 DEF RelayInv
  <2>2. CASE s = k
    <3>1. scheduled'.queues[s] = Append(q, f) /\ q \in Seq(DataFrame)
      BY Zenon, <1>1, <1>4, <2>2
    <3>2. i \in 1 .. Len(q) \/ i = Len(q) + 1
      BY SMTT(30), <1>2, <1>5, <3>1, AppendFacts
    <3>3. CASE i \in 1 .. Len(q)
      <4>1. i \in DOMAIN q /\ Append(q, f)[i] = q[i]
        BY <1>2, <3>1, <3>3, AppendFacts
      <4> QED BY Zenon, <3>1, <4>1 DEF RelayInv
    <3>4. CASE i = Len(q) + 1
      <4>1. Append(q, f)[Len(q) + 1] = f BY ONLY <1>2, <3>1, AppendFacts
      <4>2. k = f.stream BY Zenon DEF k, f
      <4> QED BY Zenon, <2>2, <3>1, <3>4, <4>1, <4>2
    <3> QED BY Zenon, <3>2, <3>3, <3>4
  <2> QED BY Zenon, <2>1, <2>2
<1>6. scheduled'.queues[k] = Append(scheduled.queues[k], f)
  BY Zenon, <1>1, <1>3, <1>4
<1>7. \A s \in Streams \ {k} : scheduled'.queues[s] = scheduled.queues[s]
  BY <1>1, <1>4
<1> QED BY <1>2, <1>3, <1>5, <1>6, <1>7, Zenon DEF f

\* pop takes the served stream's first frame.
LEMMA PopOwn ==
    ASSUME IInv, RelayInv, scheduled.active # <<>>, scheduled' = Pop(scheduled),
           NEW k, k = Head(scheduled.active)
    PROVE  /\ k \in Streams /\ scheduled.queues[k] \in Seq(DataFrame)
           /\ scheduled.queues[k] # <<>>
           /\ Head(scheduled.queues[k]) \in DataFrame /\ Head(scheduled.queues[k]).stream = k
           /\ scheduled'.queues[k] = Tail(scheduled.queues[k])
           /\ \A s \in Streams \ {k} : scheduled'.queues[s] = scheduled.queues[s]
           /\ \A s \in Streams : \A i \in DOMAIN scheduled'.queues[s] :
                 scheduled'.queues[s][i].stream = s
<1> DEFINE q == scheduled.queues[k]
<1>1. /\ scheduled.queues \in [Streams -> Seq(DataFrame)] /\ scheduled.active \in Seq(Streams)
      /\ scheduled \in FairQueueType /\ Consistent(scheduled)
  BY Zenon DEF IInv, TypeOK, FairQueueType
<1>2. k \in Streams /\ q \in Seq(DataFrame) /\ q # <<>>
  <2>1. k \in Streams /\ k = scheduled.active[1] /\ 1 \in DOMAIN scheduled.active
    BY SMTT(30), <1>1, TailFacts
  <2> QED BY Zenon, <1>1, <2>1 DEF Consistent
<1>3. scheduled'.queues = [scheduled.queues EXCEPT ![k] = Tail(q)]
  BY DEF Pop
<1> HIDE DEF q
<1>4. /\ Head(q) \in DataFrame /\ Head(q) = q[1] /\ 1 \in DOMAIN q /\ Len(q) \in Nat
      /\ Tail(q) \in Seq(DataFrame) /\ DOMAIN q = 1 .. Len(q) /\ DOMAIN Tail(q) = 1 .. Len(q) - 1
      /\ \A i \in 1 .. Len(q) - 1 : Tail(q)[i] = q[i + 1]
  BY <1>2, TailFacts
<1>5. \A i \in DOMAIN q : q[i].stream = k
  BY <1>2 DEF RelayInv, q
<1>6. scheduled'.queues[k] = Tail(q)
  BY Zenon, <1>1, <1>2, <1>3
<1>7. \A s \in Streams \ {k} : scheduled'.queues[s] = scheduled.queues[s]
  BY Zenon, <1>1, <1>3
<1>8. \A i \in DOMAIN Tail(q) : Tail(q)[i].stream = k
  BY <1>4, <1>5
<1>9. ASSUME NEW s \in Streams, NEW i \in DOMAIN scheduled'.queues[s]
      PROVE  scheduled'.queues[s][i].stream = s
  BY <1>6, <1>7, <1>8, <1>9, Zenon DEF RelayInv
<1> QED BY <1>2, <1>4, <1>5, <1>6, <1>7, <1>9, ZenonT(40) DEF q

\* A step of a producer finds a sender alive, so both channels open.
LEMMA ProducerAlive == ASSUME Producer PROVE ~SendersGone
  BY Zenon DEF Producer, SendOpen, OpenAcked, Read, Acquire, Enqueue, EnqueueClosed,
     ResetAndClose, Close, SessionControl, CloseSession, SendersGone

\* A step of a producer keeps it.
LEMMA ProducerRelayInv == ASSUME IInv, RelayInv, Producer PROVE RelayInv'
<1>1. dataOpen /\ controlOpen
  BY ProducerAlive, Zenon DEF RelayInv, IInv, TypeOK
<1>2. UNCHANGED writerVars
  BY Zenon DEF Producer, SendOpen, OpenAcked, Read, Acquire, Enqueue, EnqueueClosed,
     ResetAndClose, Close, SessionControl, CloseSession
<1>3. dataOpen' /\ controlOpen' /\ scheduled' = scheduled
  BY <1>1, <1>2 DEF writerVars
<1>4. ASSUME NEW s \in Streams PROVE Listed(dataRx', s)
  <2>1. CASE dataRx' = dataRx
    BY <2>1, Zenon DEF RelayInv
  <2>2. ASSUME NEW k \in Streams, Enqueue(k) PROVE Listed(dataRx', s)
    <3> DEFINE f == [kind |-> out[k], stream |-> k, seq |-> sent[k]]
    <3>1. f \in DataFrame /\ dataRx \in Seq(DataFrame)
      BY DEF IInv, TypeOK, DataFrame
    <3>2. dataRx' = Append(dataRx, f)
      BY <2>2 DEF Enqueue
    <3> HIDE DEF f
    <3> QED BY Zenon, <3>1, <3>2, AppendListed DEF RelayInv
  <2>3. dataRx' = dataRx \/ \E k \in Streams : Enqueue(k)
    BY Zenon DEF Producer, SendOpen, OpenAcked, Read, Acquire, EnqueueClosed, ResetAndClose,
       Close, SessionControl, CloseSession, channelVars
  <2> QED BY <2>1, <2>2, <2>3
<1> QED BY <1>3, <1>4, Zenon DEF RelayInv

\* A step of the writer keeps it.
LEMMA WriterRelayInv == ASSUME IInv, RelayInv, Writer \/ WriteFailed PROVE RelayInv'
<1> USE DEF RelayInv
<1>0. /\ SendersGone' = SendersGone /\ dataRx \in Seq(DataFrame) /\ dataOpen \in BOOLEAN
      /\ controlOpen \in BOOLEAN /\ controlRx \in Seq(ControlFrame)
  <2>1. UNCHANGED <<task, session>>
    BY Zenon DEF Writer, WriteFailed, DrainTake, DrainDone, TakeControl, StartControl, ServeData,
       NothingReady, SelectControl, SelectControlClosed, SelectData, SelectDataClosed, Written,
       producerVars
  <2> QED BY <2>1 DEF SendersGone, IInv, TypeOK
<1>1. ASSUME dataRx # <<>>, dataRx' = Tail(dataRx),
             scheduled' = Push(scheduled, Head(dataRx).stream, Head(dataRx)),
             UNCHANGED <<controlRx, controlOpen, dataOpen>>
      PROVE  RelayInv'
  <2>1. \A s \in Streams : Listed(dataRx', s)
    BY <1>0, <1>1, TailListed, Zenon
  <2>2. \A s \in Streams : \A i \in DOMAIN scheduled'.queues[s] : scheduled'.queues[s][i].stream = s
    BY <1>1, PushOwn, Zenon
  <2>3. dataOpen'
    BY <1>0, <1>1, Zenon
  <2> QED BY <1>0, <1>1, <2>1, <2>2, <2>3, Zenon
<1>2. CASE DrainTake
  BY ZenonT(40), <1>1, <1>2 DEF DrainTake
<1>3. CASE SelectData
  BY Zenon, <1>1, <1>3 DEF SelectData
<1>4. CASE DrainDone
  BY <1>0, <1>4, Zenon DEF DrainDone, MayDrain, channelVars
<1>5. ASSUME StartControl, controlOpen PROVE RelayInv'
  BY <1>0, <1>5, Zenon DEF StartControl
<1>6. CASE TakeControl
  BY <1>5, <1>6, Zenon DEF TakeControl, ControlTurn
<1>7. CASE SelectControl
  BY <1>5, <1>7, Zenon DEF SelectControl
<1>8. CASE ServeData
  <2>1. \A s \in Streams : \A i \in DOMAIN scheduled'.queues[s] : scheduled'.queues[s][i].stream = s
    BY <1>8, PopOwn, Zenon DEF ServeData
  <2> QED BY <1>0, <1>8, <2>1, Zenon DEF ServeData, ControlOpenAfterTry, channelVars
<1>9. CASE NothingReady
  BY <1>0, <1>9, Zenon DEF NothingReady, ControlOpenAfterTry, channelVars
<1>10. CASE SelectControlClosed
  BY <1>0, <1>10, Zenon DEF SelectControlClosed, channelVars
<1>11. CASE SelectDataClosed
  BY <1>0, <1>11, Zenon DEF SelectDataClosed, channelVars
<1>12. CASE Written
  BY <1>0, <1>12, Zenon DEF Written
<1>13. CASE WriteFailed
  <2>1. dataRx' = <<>> /\ controlRx' = <<>> /\ UNCHANGED <<controlOpen, dataOpen>>
        /\ scheduled' = EmptyQueue(Streams)
    BY Zenon, <1>13 DEF WriteFailed
  <2>2. \A s \in Streams : scheduled'.queues[s] = <<>>
    BY Zenon, <2>1 DEF EmptyQueue
  <2>3. \A s \in Streams : Listed(dataRx', s)
    BY Zenon, <2>1, EmptyListed
  <2>4. DOMAIN <<>> = {}
    BY EmptySeq
  <2> QED BY <1>0, <2>1, <2>2, <2>3, <2>4, Zenon
<1> QED BY <1>2, <1>3, <1>4, <1>6, <1>7, <1>8, <1>9, <1>10, <1>11, <1>12, <1>13, Zenon DEF Writer

\* Types of the pieces the mapping joins.
LEMMA PieceTypes ==
    ASSUME IInv, RelayInv, NEW s \in Streams
    PROVE  /\ InHand(s) \in Seq(DataFrame)
           /\ scheduled.queues[s] \in Seq(DataFrame)
           /\ OfStream(dataRx, s) \in Seq(DataFrame)
<1>1. OfStream(dataRx, s) \in Seq(DataFrame)
  BY ListedType, Zenon DEF IInv, TypeOK, RelayInv
<1>2. scheduled.queues[s] \in Seq(DataFrame)
  BY DEF IInv, TypeOK, FairQueueType
<1>3. InHand(s) \in Seq(DataFrame)
  <2>1. CASE InHand(s) = <<>>
    BY <2>1
  <2>2. CASE InHand(s) = writing /\ writing # <<>> /\ IsData(writing[1])
    <3>1. PICK f \in AnyFrame : writing = <<f>>
      BY <2>2 DEF IInv, TypeOK
    <3>2. f.kind \in {"DATA", "END"}
      BY SMTT(30), <2>2, <3>1 DEF IsData
    <3>3. f \in DataFrame
      BY <3>2 DEF AnyFrame, ControlFrame, OpenFrame, OtherControl
    <3> QED BY SMTT(30), <2>2, <3>1, <3>3
  <2> QED BY <2>1, <2>2, Zenon DEF InHand
<1> QED BY <1>1, <1>2, <1>3

\* What is on its way is unchanged when it is for every stream.
LEMMA PendingSame ==
    ASSUME \A s \in Streams : InHand(s)' \o scheduled'.queues[s] \o OfStream(dataRx', s)
                                = InHand(s) \o scheduled.queues[s] \o OfStream(dataRx, s)
    PROVE  Pending' = Pending
  BY Zenon DEF Pending

LEMMA PendingKept == ASSUME UNCHANGED <<writing, scheduled, dataRx>> PROVE Pending' = Pending
<1>1. ASSUME NEW s \in Streams
      PROVE  InHand(s)' \o scheduled'.queues[s] \o OfStream(dataRx', s)
               = InHand(s) \o scheduled.queues[s] \o OfStream(dataRx, s)
  BY Zenon DEF InHand
<1> QED BY Zenon, <1>1, PendingSame

\* A frame that goes from the DATA channel to the fair queue keeps its place
\* in its stream.
LEMMA PendingDrain ==
    ASSUME IInv, RelayInv, dataRx # <<>>, dataRx' = Tail(dataRx), writing' = writing,
           scheduled' = Push(scheduled, Head(dataRx).stream, Head(dataRx))
    PROVE  Pending' = Pending
<1> DEFINE f == Head(dataRx)
           k == f.stream
<1>1. /\ f \in DataFrame /\ k \in Streams
      /\ scheduled'.queues[k] = Append(scheduled.queues[k], f)
      /\ \A s \in Streams \ {k} : scheduled'.queues[s] = scheduled.queues[s]
  BY PushOwn, Zenon
<1>2. dataRx \in Seq(DataFrame)
  BY DEF IInv, TypeOK
<1> HIDE DEF f
<1>3. ASSUME NEW s \in Streams
      PROVE  InHand(s)' \o scheduled'.queues[s] \o OfStream(dataRx', s)
               = InHand(s) \o scheduled.queues[s] \o OfStream(dataRx, s)
  <2> DEFINE o == OfStream(dataRx, s)
  <2>1. /\ InHand(s) \in Seq(DataFrame) /\ scheduled.queues[s] \in Seq(DataFrame)
        /\ o \in Seq(DataFrame) /\ InHand(s)' = InHand(s)
    BY PieceTypes, Zenon DEF InHand
  <2>2. /\ f.stream # s => OfStream(dataRx', s) = o
        /\ f.stream = s => o # <<>> /\ Head(o) = f /\ OfStream(dataRx', s) = Tail(o)
    BY <1>2, TailListed, Zenon DEF RelayInv, f
  <2> HIDE DEF o
  <2>3. CASE s # k
    <3>1. scheduled'.queues[s] = scheduled.queues[s] /\ OfStream(dataRx', s) = o
      BY <1>1, <2>2, <2>3, Zenon
    <3> QED BY <2>1, <3>1, Zenon DEF o
  <2>4. CASE s = k
    <3>1. /\ o # <<>> /\ OfStream(dataRx', s) = Tail(o)
          /\ scheduled'.queues[s] = Append(scheduled.queues[s], Head(o))
      BY <1>1, <2>2, <2>4, Zenon
    <3>2. InHand(s) \o Append(scheduled.queues[s], Head(o)) \o Tail(o)
            = InHand(s) \o scheduled.queues[s] \o o
      BY <2>1, <3>1, MoveHead, Zenon
    <3> QED BY <2>1, <3>1, <3>2, Zenon DEF o
  <2> QED BY <2>3, <2>4, Zenon
<1> QED BY <1>3, PendingSame, Zenon

\* A frame that goes from the fair queue to the encoder keeps its place too.
LEMMA PendingServe == ASSUME IInv, RelayInv, ServeData PROVE Pending' = Pending
<1> DEFINE k == Head(scheduled.active)
           q == scheduled.queues[k]
           f == Head(q)
<1>1. /\ k \in Streams /\ q \in Seq(DataFrame) /\ q # <<>> /\ f \in DataFrame /\ f.stream = k
      /\ scheduled'.queues[k] = Tail(q)
      /\ \A s \in Streams \ {k} : scheduled'.queues[s] = scheduled.queues[s]
  BY PopOwn, Zenon DEF ServeData
<1>2. writing = <<>>
  BY Zenon DEF IInv, WriterInv, ServeData
<1>3. writing' = <<f>> /\ dataRx' = dataRx
  BY DEF ServeData, Popped, channelVars
<1> HIDE DEF f, q, k
<1>4. writing' # <<>> /\ writing'[1] = f /\ IsData(f)
  BY <1>1, <1>3 DEF DataFrame, IsData
<1>5. ASSUME NEW s \in Streams
      PROVE  InHand(s)' \o scheduled'.queues[s] \o OfStream(dataRx', s)
               = InHand(s) \o scheduled.queues[s] \o OfStream(dataRx, s)
  <2>1. InHand(s) = <<>> /\ OfStream(dataRx', s) = OfStream(dataRx, s)
    BY <1>2, <1>3, Zenon DEF InHand
  <2>2. CASE s # k
    <3>1. InHand(s)' = <<>> /\ scheduled'.queues[s] = scheduled.queues[s]
      BY <1>1, <1>4, <2>2, Zenon DEF InHand
    <3> QED BY <2>1, <3>1, Zenon
  <2>3. CASE s = k
    <3> DEFINE o == OfStream(dataRx, s)
    <3>1. InHand(s)' = <<Head(q)>> /\ scheduled'.queues[s] = Tail(q) /\ scheduled.queues[s] = q
      BY <1>1, <1>3, <1>4, <2>3, Zenon DEF InHand, f, q
    <3>2. o \in Seq(DataFrame)
      BY PieceTypes
    <3>3. <<Head(q)>> \o Tail(q) = q /\ <<>> \o q = q
      BY <1>1, SplitFront, ConcatEmptySeq
    <3> QED BY <2>1, <3>1, <3>3, Zenon
  <2> QED BY <2>2, <2>3, Zenon
<1> QED BY <1>5, PendingSame, Zenon

\* A step of the abstract relay, or none.
RelayStep == [Relay!Next]_(Relay!vars)

LEMMA PhaseOf ==
    /\ pc = "done" => Phase = "finished"
    /\ pc = "failed" => Phase = "failed"
    /\ ~ReceiversGone => Phase = "up"
  BY DEF Phase, ReceiversGone

\* Steps that move nothing the relay shows.
LEMMA Stutter ==
    ASSUME Pending' = Pending, PendingControl' = PendingControl, Phase' = Phase
    PROVE  RelayStep
  BY Zenon DEF RelayStep, Relay!vars

\* A task's frame is offered to its stream.
LEMMA OfferStep == ASSUME IInv, RelayInv, NEW k \in Streams, Enqueue(k) PROVE RelayStep
<1> DEFINE f == [kind |-> out[k], stream |-> k, seq |-> sent[k]]
<1>1. f \in DataFrame /\ f.stream = k /\ dataRx \in Seq(DataFrame)
  BY Zenon DEF IInv, TypeOK, DataFrame
<1>2. dataRx' = Append(dataRx, f) /\ UNCHANGED <<controlRx, writerVars>> /\ ~ReceiversGone
  BY DEF Enqueue
<1> HIDE DEF f
<1>3. UNCHANGED <<writing, scheduled, pc, controlRx>>
  BY <1>2 DEF writerVars
<1>4. ASSUME NEW s \in Streams
      PROVE  InHand(s)' \o scheduled'.queues[s] \o OfStream(dataRx', s)
               = IF s = k THEN Append(Pending[s], f) ELSE Pending[s]
  <2> DEFINE i == InHand(s)
             q == scheduled.queues[s]
             o == OfStream(dataRx, s)
  <2>1. i \in Seq(DataFrame) /\ q \in Seq(DataFrame) /\ o \in Seq(DataFrame)
    BY Zenon, PieceTypes
  <2>2. OfStream(dataRx', s) = IF s = k THEN Append(o, f) ELSE o
    BY <1>1, <1>2, AppendListed DEF RelayInv
  <2>3. Pending[s] = i \o q \o o /\ InHand(s)' = i /\ scheduled'.queues[s] = q
    BY <1>3, Zenon DEF Pending, InHand
  <2> HIDE DEF i, q, o
  <2>4. i \o q \o Append(o, f) = Append(i \o q \o o, f)
    BY <1>1, <2>1, AddLast, ZenonT(40)
  <2> QED BY <2>2, <2>3, <2>4, Zenon
<1>5. Pending' = [Pending EXCEPT ![k] = Append(@, f)]
  <2>1. Pending' = [s \in Streams |-> IF s = k THEN Append(Pending[s], f) ELSE Pending[s]]
    BY <1>4, Zenon DEF Pending
  <2>2. DOMAIN Pending = Streams
    BY DEF Pending
  <2> HIDE DEF f
  <2> QED BY <2>1, <2>2, Zenon
<1>6. PendingControl' = PendingControl /\ Phase' = Phase
  BY <1>3, Zenon DEF PendingControl, Phase
<1>7. Phase = "up" /\ f \in AnyFrame
  BY <1>1, <1>2, PhaseOf, Zenon DEF AnyFrame
<1>8. Relay!Offer(k)
  BY <1>5, <1>6, <1>7, Zenon DEF Relay!Offer
<1> QED BY <1>8, Zenon DEF RelayStep, Relay!Next

\* A frame that enters the control channel is offered to the control path.
LEMMA OfferControlStep ==
    ASSUME IInv, NEW f \in ControlFrame, ControlSend(f), UNCHANGED <<dataRx, writerVars>>
    PROVE  RelayStep
<1> DEFINE w == IF writing # <<>> /\ ~IsData(writing[1]) THEN writing ELSE <<>>
<1>1. controlRx' = Append(controlRx, f) /\ ~ReceiversGone /\ UNCHANGED <<dataRx, writing, scheduled, pc>>
  BY DEF ControlSend, writerVars
<1>2. Pending' = Pending
  BY <1>1, PendingKept, Zenon
<1>3. Phase = "up" /\ Phase' = Phase
  BY <1>1, PhaseOf, Zenon DEF Phase
<1>4. w \in Seq(AnyFrame) /\ controlRx \in Seq(AnyFrame) /\ f \in AnyFrame
  <2>1. writing = <<>> \/ \E x \in AnyFrame : writing = <<x>>
    BY Zenon DEF IInv, TypeOK
  <2>2. controlRx \in Seq(ControlFrame)
    BY DEF IInv, TypeOK
  <2>3. w \in Seq(AnyFrame)
    <3>1. CASE writing = <<>>
      <4>1. w = <<>> BY <3>1, Zenon
      <4> QED BY <4>1
    <3>2. ASSUME NEW x \in AnyFrame, writing = <<x>> PROVE w \in Seq(AnyFrame)
      <4>1. w = <<>> \/ w = <<x>> BY <3>2, Zenon
      <4>2. <<>> \in Seq(AnyFrame) /\ <<x>> \in Seq(AnyFrame) OBVIOUS
      <4> QED BY <4>1, <4>2, Zenon
    <3> QED BY <2>1, <3>1, <3>2, Zenon
  <2>4. controlRx \in Seq(AnyFrame) /\ f \in AnyFrame
    BY <2>2 DEF AnyFrame
  <2> QED BY <2>3, <2>4
<1>5. PendingControl = w \o controlRx /\ PendingControl' = w \o controlRx'
  BY <1>1, Zenon DEF PendingControl
<1> HIDE DEF w
<1>6. w \o Append(controlRx, f) = Append(w \o controlRx, f)
  <2>1. <<f>> \in Seq(AnyFrame) /\ w \o controlRx \in Seq(AnyFrame)
    BY <1>4, ConcatProperties
  <2>2. Append(controlRx, f) = controlRx \o <<f>>
    BY Zenon, <1>4, AppendIsConcat
  <2>3. Append(w \o controlRx, f) = (w \o controlRx) \o <<f>>
    BY Zenon, <1>4, <2>1, AppendIsConcat
  <2>4. (w \o controlRx) \o <<f>> = w \o (controlRx \o <<f>>)
    BY SMTT(30), <1>4, <2>1, ConcatAssociative
  <2> QED BY <2>2, <2>3, <2>4, Zenon
<1>7. PendingControl' = Append(PendingControl, f)
  BY <1>1, <1>5, <1>6, Zenon
<1>8. Relay!OfferControl
  BY <1>2, <1>3, <1>4, <1>7, Zenon DEF Relay!OfferControl
<1> QED BY <1>8, Zenon DEF RelayStep, Relay!Next

\* A producer's step offers one frame or shows nothing.
LEMMA ProducerRelay == ASSUME IInv, RelayInv, Producer PROVE RelayStep
<1>1. ASSUME UNCHANGED <<dataRx, controlRx, writerVars>> PROVE RelayStep
  <2>1. UNCHANGED <<writing, scheduled, pc>>
    BY <1>1 DEF writerVars
  <2>2. Pending' = Pending
    BY <1>1, <2>1, PendingKept, Zenon
  <2>3. PendingControl' = PendingControl /\ Phase' = Phase
    BY <1>1, <2>1, Zenon DEF PendingControl, Phase
  <2> QED BY <2>2, <2>3, Stutter, Zenon
<1>2. ASSUME NEW s \in Streams, SendOpen(s) PROVE RelayStep
  <2>1. [kind |-> "OPEN", stream |-> s] \in ControlFrame
    BY DEF ControlFrame, OpenFrame
  <2> QED BY <1>2, <2>1, OfferControlStep, Zenon DEF SendOpen
<1>3. OtherControl \in ControlFrame
  BY DEF ControlFrame
<1>4. ASSUME NEW s \in Streams, ResetAndClose(s) PROVE RelayStep
  <2>1. CASE ReceiversGone
    BY <1>1, <1>4, <2>1, Zenon DEF ResetAndClose
  <2>2. CASE ~ReceiversGone
    BY <1>3, <1>4, <2>2, OfferControlStep, Zenon DEF ResetAndClose
  <2> QED BY <2>1, <2>2
<1>5. CASE SessionControl
  BY <1>3, <1>5, OfferControlStep, Zenon DEF SessionControl
<1>6. ASSUME NEW s \in Streams,
             OpenAcked(s) \/ Read(s) \/ Acquire(s) \/ EnqueueClosed(s) \/ Close(s)
      PROVE  RelayStep
  <2>1. UNCHANGED <<dataRx, controlRx, writerVars>>
    BY <1>6, Zenon DEF OpenAcked, Read, Acquire, EnqueueClosed, Close, channelVars
  <2> QED BY <1>1, <2>1, Zenon
<1>7. CASE CloseSession
  BY <1>1, <1>7, Zenon DEF CloseSession, channelVars
<1> QED BY <1>2, <1>4, <1>5, <1>6, <1>7, OfferStep, Zenon DEF Producer

\* A frame that leaves its channel for the encoder stays first in line.
LEMMA StartControlStep == ASSUME IInv, StartControl, pc \in {"control", "select"} PROVE RelayStep
<1> DEFINE f == Head(controlRx)
<1>1. /\ writing = <<>> /\ controlRx \in Seq(ControlFrame) /\ controlRx # <<>>
      /\ writing' = <<f>> /\ controlRx' = Tail(controlRx) /\ pc' = "write"
      /\ UNCHANGED <<scheduled, dataRx>>
  BY Zenon DEF IInv, TypeOK, WriterInv, StartControl
<1>2. f \in ControlFrame
  BY <1>1, TailFacts
<1>3. ~IsData(f)
  BY <1>2 DEF ControlFrame, OpenFrame, OtherControl, IsData
<1>4. <<f>> \o Tail(controlRx) = controlRx /\ <<>> \o controlRx = controlRx
  BY <1>1, SplitFront, ConcatEmptySeq
<1> HIDE DEF f
<1>5. writing' # <<>> /\ writing'[1] = f
  BY <1>1
<1>6. ASSUME NEW s \in Streams PROVE InHand(s)' = InHand(s)
  BY <1>1, <1>3, <1>5, Zenon DEF InHand
<1>7. Pending' = Pending
  BY <1>1, <1>6, PendingSame, Zenon
<1>8. PendingControl = <<>> \o controlRx /\ PendingControl' = <<f>> \o Tail(controlRx)
  BY <1>1, <1>3, <1>5, Zenon DEF PendingControl
<1>9. Phase = "up" /\ Phase' = "up"
  BY <1>1 DEF Phase
<1> QED BY <1>4, <1>7, <1>8, <1>9, Stutter, Zenon

\* The frame that was encoded is delivered.
LEMMA DeliverStep == ASSUME IInv, RelayInv, Written PROVE RelayStep
<1>1. writing # <<>> /\ writing' = <<>> /\ UNCHANGED <<controlRx, dataRx, scheduled>>
  BY Zenon DEF IInv, WriterInv, Written
<1>2. PICK f \in AnyFrame : writing = <<f>>
  BY <1>1 DEF IInv, TypeOK
<1>3. writing[1] = f
  BY <1>2
<1>4. Phase = "up" /\ Phase' = "up"
  BY DEF Phase, Written
<1>5. \A s \in Streams : InHand(s)' = <<>>
  BY <1>1, Zenon DEF InHand
<1>6. PendingControl' = <<>> \o controlRx
  BY <1>1, Zenon DEF PendingControl
<1>7. CASE IsData(f)
  <2> DEFINE k == f.stream
  <2>1. f \in DataFrame
    BY <1>7 DEF AnyFrame, ControlFrame, OpenFrame, OtherControl, IsData
  <2>2. k \in Streams
    BY <2>1 DEF DataFrame
  <2>3. PendingControl' = PendingControl
    BY <1>1, <1>3, <1>6, <1>7, Zenon DEF PendingControl
  <2>4. ASSUME NEW s \in Streams, s # k
        PROVE  InHand(s)' \o scheduled'.queues[s] \o OfStream(dataRx', s) = Pending[s]
    <3>1. InHand(s) = <<>>
      BY <1>3, <2>4, Zenon DEF InHand
    <3>2. Pending[s] = InHand(s) \o scheduled.queues[s] \o OfStream(dataRx, s)
      BY Zenon DEF Pending
    <3> QED BY <1>1, <1>5, <3>1, <3>2, Zenon
  <2>5. /\ Pending[k] # <<>>
        /\ InHand(k)' \o scheduled'.queues[k] \o OfStream(dataRx', k) = Tail(Pending[k])
    <3> DEFINE q == scheduled.queues[k]
               o == OfStream(dataRx, k)
    <3>1. q \in Seq(DataFrame) /\ o \in Seq(DataFrame)
      BY <2>2, PieceTypes, Zenon
    <3>2. InHand(k) = <<f>>
      BY <1>1, <1>2, <1>3, <1>7, Zenon DEF InHand
    <3>3. Pending[k] = <<f>> \o q \o o
      BY <2>2, <3>2, Zenon DEF Pending
    <3>4. InHand(k)' \o scheduled'.queues[k] \o OfStream(dataRx', k) = <<>> \o q \o o
      BY <1>1, <1>5, <2>2, Zenon
    <3> HIDE DEF q, o
    <3>5. <<f>> \o q \o o # <<>> /\ Tail(<<f>> \o q \o o) = <<>> \o q \o o
      BY <2>1, <3>1, DropFirst, Zenon
    <3> QED BY <3>3, <3>4, <3>5, Zenon
  <2>6. Pending' = [Pending EXCEPT ![k] = Tail(@)]
    <3>1. Pending' = [s \in Streams |-> IF s = k THEN Tail(Pending[s]) ELSE Pending[s]]
      BY <2>4, <2>5, Zenon DEF Pending
    <3>2. DOMAIN Pending = Streams
      BY Zenon DEF Pending
    <3> QED BY <3>1, <3>2, Zenon
  <2>7. Relay!Deliver(k)
    BY <1>4, <2>3, <2>5, <2>6, Zenon DEF Relay!Deliver
  <2> QED BY <2>2, <2>7, Zenon DEF RelayStep, Relay!Next
<1>8. CASE ~IsData(f)
  <2>1. \A s \in Streams : InHand(s) = <<>>
    BY <1>3, <1>8, Zenon DEF InHand
  <2>2. Pending' = Pending
    BY <1>1, <1>5, <2>1, PendingSame, Zenon
  <2>3. PendingControl = <<f>> \o controlRx
    BY <1>1, <1>2, <1>3, <1>8, Zenon DEF PendingControl
  <2>4. controlRx \in Seq(AnyFrame)
    <3>1. controlRx \in Seq(ControlFrame)
      BY DEF IInv, TypeOK
    <3> QED BY SMTT(30), <3>1 DEF AnyFrame
  <2>5. <<f>> \o controlRx # <<>> /\ Tail(<<f>> \o controlRx) = controlRx
    BY <2>4, FrontOf
  <2>6. <<>> \o controlRx = controlRx
    BY <2>4, ConcatEmptySeq
  <2>7. Relay!DeliverControl
    BY <1>4, <1>6, <2>2, <2>3, <2>5, <2>6, Zenon DEF Relay!DeliverControl
  <2> QED BY <2>7, Zenon DEF RelayStep, Relay!Next
<1> QED BY <1>7, <1>8

\* The writer returns with nothing on its way, or waits.
LEMMA FinishStep == ASSUME IInv, RelayInv, NothingReady PROVE RelayStep
<1>1. /\ writing = <<>> /\ scheduled.active = <<>> /\ pc = "control" /\ Consistent(scheduled)
      /\ UNCHANGED <<controlRx, dataRx, scheduled, writing>>
  BY Zenon DEF IInv, WriterInv, NothingReady, channelVars
<1>2. Pending' = Pending /\ PendingControl' = PendingControl
  BY <1>1, PendingKept, Zenon DEF PendingControl
<1>3. Phase = "up"
  BY <1>1 DEF Phase
<1>4. CASE controlOpen' \/ dataOpen
  <2>1. pc' = "select"
    BY <1>4, Zenon DEF NothingReady
  <2>2. Phase' = "up"
    BY <2>1 DEF Phase
  <2> QED BY <1>2, <1>3, <2>2, Stutter, Zenon
<1>5. CASE ~(controlOpen' \/ dataOpen)
  <2>1. controlRx = <<>> /\ dataRx = <<>>
    BY <1>5, Zenon DEF NothingReady, ControlOpenAfterTry, RelayInv
  <2>2. Phase' = "finished"
    <3>1. pc' = "done"
      BY <1>5, Zenon DEF NothingReady
    <3> QED BY <3>1 DEF Phase
  <2>3. <<>> \o <<>> = <<>>
    OBVIOUS
  <2>4. PendingControl = <<>>
    BY <1>1, <2>1, <2>3, Zenon DEF PendingControl
  <2>5. ASSUME NEW s \in Streams PROVE Pending[s] = <<>>
    <3>1. scheduled.queues[s] = <<>>
      <4>1. DOMAIN scheduled.active = {}
        BY <1>1
      <4> QED BY <1>1, <4>1, Zenon DEF Consistent
    <3>2. InHand(s) = <<>> /\ OfStream(dataRx, s) = <<>>
      BY <1>1, <2>1, EmptyListed, Zenon DEF InHand
    <3> QED BY <2>3, <3>1, <3>2, Zenon DEF Pending
  <2>6. Relay!Finish
    BY <1>2, <1>3, <2>2, <2>4, <2>5, Zenon DEF Relay!Finish
  <2> QED BY <2>6, Zenon DEF RelayStep, Relay!Next
<1> QED BY <1>4, <1>5

\* A transport failure drops what was accepted.
LEMMA FailStep == ASSUME IInv, RelayInv, WriteFailed PROVE RelayStep
<1>1. /\ pc = "write" /\ pc' = "failed" /\ writing' = <<>> /\ controlRx' = <<>> /\ dataRx' = <<>>
      /\ scheduled' = EmptyQueue(Streams)
  BY DEF WriteFailed
<1>2. Phase = "up" /\ Phase' = "failed"
  BY <1>1 DEF Phase
<1>3. <<>> \o <<>> = <<>>
  OBVIOUS
<1>4. PendingControl' = <<>>
  BY <1>1, <1>3, Zenon DEF PendingControl
<1>5. \A s \in Streams : scheduled'.queues[s] = <<>>
  BY <1>1 DEF EmptyQueue
<1>6. ASSUME NEW s \in Streams
      PROVE  InHand(s)' \o scheduled'.queues[s] \o OfStream(dataRx', s) = <<>>
  BY <1>1, <1>3, <1>5, EmptyListed, Zenon DEF InHand
<1>7. Pending' = [s \in Streams |-> <<>>]
  BY <1>6, Zenon DEF Pending
<1>8. Relay!Fail
  BY <1>2, <1>4, <1>7, Zenon DEF Relay!Fail
<1> QED BY <1>8, Zenon DEF RelayStep, Relay!Next

\* Every step of the writer is one of the relay or shows nothing.
LEMMA NextRelay == ASSUME IInv, RelayInv, [Next]_vars PROVE RelayStep
<1>1. ASSUME UNCHANGED <<writing, scheduled, dataRx, controlRx>>, ~ReceiversGone, ~ReceiversGone'
      PROVE  RelayStep
  <2>1. Pending' = Pending /\ PendingControl' = PendingControl
    BY <1>1, PendingKept, Zenon DEF PendingControl
  <2>2. Phase' = Phase
    BY <1>1 DEF Phase, ReceiversGone
  <2> QED BY <2>1, <2>2, Stutter, Zenon
<1>2. ASSUME dataRx # <<>>, dataRx' = Tail(dataRx), UNCHANGED <<writing, controlRx>>,
             scheduled' = Push(scheduled, Head(dataRx).stream, Head(dataRx)),
             ~ReceiversGone, ~ReceiversGone'
      PROVE  RelayStep
  <2>1. Pending' = Pending /\ PendingControl' = PendingControl
    BY <1>2, PendingDrain, Zenon DEF PendingControl
  <2>2. Phase' = Phase
    BY <1>2 DEF Phase, ReceiversGone
  <2> QED BY <2>1, <2>2, Stutter, Zenon
<1>3. CASE DrainTake
  BY <1>2, <1>3, Zenon DEF DrainTake, ReceiversGone
<1>4. CASE SelectData
  BY <1>2, <1>4, Zenon DEF SelectData, ReceiversGone
<1>5. CASE DrainDone
  BY <1>1, <1>5, Zenon DEF DrainDone, channelVars, ReceiversGone
<1>6. CASE SelectControlClosed
  BY <1>1, <1>6, Zenon DEF SelectControlClosed, channelVars, ReceiversGone
<1>7. CASE SelectDataClosed
  BY <1>1, <1>7, Zenon DEF SelectDataClosed, channelVars, ReceiversGone
<1>8. CASE TakeControl \/ SelectControl
  BY <1>8, StartControlStep, Zenon DEF TakeControl, SelectControl
<1>9. CASE ServeData
  <2>1. /\ writing = <<>> /\ pc = "control" /\ pc' = "write" /\ controlRx' = controlRx
    BY <1>9, Zenon DEF IInv, WriterInv, ServeData, channelVars
  <2>2. PendingControl' = PendingControl
    <3> DEFINE k == Head(scheduled.active)
               f == Head(scheduled.queues[k])
    <3>1. f \in DataFrame
      BY <1>9, PopOwn, Zenon DEF ServeData
    <3>2. writing' = <<f>>
      BY <1>9 DEF ServeData, Popped
    <3> HIDE DEF f
    <3>3. writing' # <<>> /\ IsData(writing'[1])
      BY <3>1, <3>2 DEF DataFrame, IsData
    <3> QED BY <2>1, <3>3, Zenon DEF PendingControl
  <2>3. Phase' = Phase
    BY <2>1 DEF Phase
  <2> QED BY <1>9, <2>2, <2>3, PendingServe, Stutter, Zenon
<1>10. CASE UNCHANGED vars
  <2>1. UNCHANGED <<writing, scheduled, dataRx, controlRx, pc>>
    BY <1>10 DEF vars, channelVars, writerVars
  <2>2. Pending' = Pending /\ PendingControl' = PendingControl /\ Phase' = Phase
    BY <2>1, PendingKept, Zenon DEF PendingControl, Phase
  <2> QED BY <2>2, Stutter, Zenon
<1> QED BY <1>3, <1>4, <1>5, <1>6, <1>7, <1>8, <1>9, <1>10, ProducerRelay, DeliverStep,
       FinishStep, FailStep, Zenon DEF Next, Writer

\* The initial state has nothing on its way.
LEMMA InitRelay == ASSUME Init PROVE RelayInv /\ Relay!Init
<1>1. dataRx = <<>> /\ controlRx = <<>> /\ writing = <<>> /\ pc = "drain" /\ dataOpen /\ controlOpen
      /\ scheduled = EmptyQueue(Streams)
  BY DEF Init
<1>2. \A s \in Streams : scheduled.queues[s] = <<>>
  BY <1>1 DEF EmptyQueue
<1>3. <<>> \o <<>> = <<>> /\ DOMAIN <<>> = {}
  OBVIOUS
<1>4. ASSUME NEW s \in Streams
      PROVE  Listed(dataRx, s) /\ InHand(s) \o scheduled.queues[s] \o OfStream(dataRx, s) = <<>>
  BY <1>1, <1>2, <1>3, EmptyListed, Zenon DEF InHand
<1>5. RelayInv
  BY <1>1, <1>2, <1>3, <1>4, Zenon DEF RelayInv
<1>6. Pending = [s \in Streams |-> <<>>] /\ PendingControl = <<>>
  BY <1>1, <1>3, <1>4, Zenon DEF Pending, PendingControl
<1>7. Phase = "up"
  BY <1>1 DEF Phase
<1> QED BY <1>5, <1>6, <1>7, Zenon DEF Relay!Init

\* writer_actor implements the ordered relay, whatever the schedule: on each
\* stream and on the control path frames leave in the order in which they were
\* accepted, none is invented, skipped or repeated, only a failed transport
\* drops any, and the writer returns normally only with nothing accepted left.
THEOREM RelayImplemented == Spec => Relay!Safety
<1>1. Init => RelayInv /\ Relay!Init
  BY InitRelay
<1>2. IInv /\ RelayInv /\ [Next]_vars => RelayInv' /\ RelayStep
  <2> SUFFICES ASSUME IInv, RelayInv, [Next]_vars PROVE RelayInv' /\ RelayStep
    OBVIOUS
  <2>1. CASE UNCHANGED vars
    <3>1. UNCHANGED <<dataOpen, controlOpen, dataRx, controlRx, scheduled, session, task>>
      BY <2>1 DEF vars, producerVars, channelVars, writerVars
    <3>2. RelayInv'
      BY <3>1, Zenon DEF RelayInv, SendersGone
    <3> QED BY <3>2, NextRelay, Zenon
  <2> QED BY <2>1, NextRelay, ProducerRelayInv, WriterRelayInv, Zenon DEF Next
<1> QED BY <1>1, <1>2, Inductive, PTL DEF Spec, Relay!Safety, RelayStep
=============================================================================
