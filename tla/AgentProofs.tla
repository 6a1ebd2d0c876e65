----------------------------- MODULE AgentProofs -----------------------------
(***************************************************************************)
(* Proofs about the Agent process, for every set of tunnels, every process *)
(* configuration, every retry limit and every failure threshold, and about *)
(* the frame codec of its connections, for every frame and every split.    *)
(***************************************************************************)
EXTENDS Integers, AgentProcess, FrameCodec, TLAPS

-----------------------------------------------------------------------------
(* Facts about sequences.                                                  *)

LEMMA LenProperties ==
  ASSUME NEW S, NEW q \in Seq(S)
  PROVE  Len(q) \in Nat /\ DOMAIN q = 1 .. Len(q) /\ q \in [1 .. Len(q) -> S]
  OBVIOUS

LEMMA EmptySeq ==
  ASSUME NEW S
  PROVE  <<>> \in Seq(S) /\ Len(<<>>) = 0 /\ \A q \in Seq(S) : q # <<>> => Len(q) \in Nat \ {0}
  OBVIOUS

LEMMA HeadTailProperties ==
  ASSUME NEW S, NEW q \in Seq(S), q # <<>>
  PROVE  /\ Head(q) \in S /\ Tail(q) \in Seq(S) /\ Len(Tail(q)) = Len(q) - 1
         /\ \A i \in 1 .. Len(Tail(q)) : Tail(q)[i] = q[i + 1]
  OBVIOUS

\* A sequence and its tail, position by position.
Follows(t, q) ==
  /\ Head(q) = q[1]
  /\ \A i \in 1 .. Len(q) : i = 1 \/ (i - 1 \in 1 .. Len(t) /\ t[i - 1] = q[i])
  /\ \A i \in 1 .. Len(t) :
       i + 1 \in 1 .. Len(q) /\ t[i] = q[i + 1] /\ (i + 1 = Len(q) => i = Len(t))

LEMMA TailFollows ==
  ASSUME NEW S, NEW q \in Seq(S), q # <<>>
  PROVE  Tail(q) \in Seq(S) /\ Follows(Tail(q), q)
<1> DEFINE t == Tail(q)
<1>1. /\ Len(q) \in Nat /\ Head(q) = q[1] /\ t \in Seq(S) /\ Len(t) = Len(q) - 1
      /\ \A i \in 1 .. Len(t) : t[i] = q[i + 1]
  BY HeadTailProperties
<1> HIDE DEF t
<1>2. ASSUME NEW n \in Nat, NEW m, m = n - 1
      PROVE  /\ \A i \in 1 .. m : i + 1 \in 1 .. n /\ (i + 1 = n => i = m)
             /\ \A i \in 1 .. n : i = 1 \/ (i - 1 \in 1 .. m /\ (i - 1) + 1 = i)
  BY <1>2
<1>3. /\ \A i \in 1 .. Len(t) : i + 1 \in 1 .. Len(q) /\ (i + 1 = Len(q) => i = Len(t))
      /\ \A i \in 1 .. Len(q) : i = 1 \/ (i - 1 \in 1 .. Len(t) /\ (i - 1) + 1 = i)
  BY <1>1, <1>2, Zenon
<1>4. \A i \in 1 .. Len(q) : i = 1 \/ (i - 1 \in 1 .. Len(t) /\ t[i - 1] = q[i])
  <2> SUFFICES ASSUME NEW i \in 1 .. Len(q), i # 1
               PROVE  i - 1 \in 1 .. Len(t) /\ t[i - 1] = q[i]
    BY Zenon
  <2>1. i - 1 \in 1 .. Len(t) /\ (i - 1) + 1 = i
    BY <1>3, Zenon
  <2>2. t[i - 1] = q[(i - 1) + 1]
    BY <1>1, <2>1, Zenon
  <2> QED BY <2>1, <2>2, Zenon
<1>5. Follows(t, q)
  BY <1>1, <1>3, <1>4, Zenon DEF Follows
<1> QED BY <1>1, <1>5, Zenon DEF t

LEMMA ElementOfSeq ==
    ASSUME NEW S, NEW q \in Seq(S), NEW i \in 1 .. Len(q) PROVE q[i] \in S
  OBVIOUS

LEMMA SeqEqual ==
    ASSUME NEW S, NEW q \in Seq(S), NEW r \in Seq(S),
           Len(q) = Len(r), \A i \in 1 .. Len(q) : q[i] = r[i]
    PROVE  q = r
  OBVIOUS

LEMMA AppendProperties ==
    ASSUME NEW S, NEW q \in Seq(S), NEW x \in S
    PROVE  /\ Append(q, x) \in Seq(S) /\ Append(q, x) # <<>> /\ Len(Append(q, x)) = Len(q) + 1
           /\ \A i \in 1 .. Len(q) : Append(q, x)[i] = q[i]
           /\ Append(q, x)[Len(q) + 1] = x
  OBVIOUS

LEMMA SubSeqProperties ==
    ASSUME NEW S, NEW q, NEW m \in Int, NEW n \in Int, \A i \in m .. n : q[i] \in S
    PROVE  /\ SubSeq(q, m, n) \in Seq(S)
           /\ Len(SubSeq(q, m, n)) = IF m <= n THEN n - m + 1 ELSE 0
           /\ \A i \in 1 .. n - m + 1 : SubSeq(q, m, n)[i] = q[m + i - 1]
  OBVIOUS

LEMMA ConcatProperties ==
    ASSUME NEW S, NEW q \in Seq(S), NEW r \in Seq(S)
    PROVE  /\ q \o r \in Seq(S) /\ Len(q \o r) = Len(q) + Len(r)
           /\ \A i \in 1 .. Len(q) + Len(r) :
                 (q \o r)[i] = IF i <= Len(q) THEN q[i] ELSE r[i - Len(q)]
  OBVIOUS

(***************************************************************************)
(* 1. The frame codec.                                                     *)
(***************************************************************************)
Places == Nat \X Nat
Total(i) == HeaderSize + Size(sent[i])
Current == Len(out) + 1

CodecType ==
  /\ sent \in Seq([kind : Kinds, size : 0 .. MaxPayload]) /\ wire \in Seq(Places) /\ eof \in BOOLEAN
  /\ header \in Seq(Places) /\ pending \in [frame : Nat, payload : Seq(Places)]
  /\ calling \in {"no", "header", "payload"} /\ over \in Nat
  /\ out \in Seq([frame : Nat, payload : Seq(Places)])

\* The wire carries frames: from any of its bytes on, the rest of the frame
\* follows in order, and then the first byte of the next frame.
WireInv ==
  \A k \in 1 .. Len(wire) :
    LET i == wire[k][1]
        j == wire[k][2]
    IN /\ i \in 1 .. Len(sent) /\ j \in 1 .. Total(i)
       /\ \A m \in 0 .. Total(i) - j : k + m <= Len(wire) => wire[k + m] = <<i, j + m>>
       /\ k + Total(i) - j + 1 <= Len(wire) => wire[k + Total(i) - j + 1] = <<i + 1, 1>>

\* While the connection is open, every frame on the wire is there to its end,
\* and the last one is the last one sent.
OpenInv ==
  ~eof => \A k \in 1 .. Len(wire) :
            LET i == wire[k][1]
                last == k + Total(i) - wire[k][2]
            IN last <= Len(wire) /\ (last = Len(wire) => i = Len(sent))

\* The decoder holds the first `over' bytes of the current frame, and the next
\* byte on the wire is the one after them.
DecoderInv ==
  result = "none" =>
    /\ wire # <<>> => wire[1] = <<Current, over + 1>>
    /\ ~eof /\ wire = <<>> => Len(out) = Len(sent) /\ over = 0
    /\ \/ /\ pending = NoFrame /\ over = Len(header) /\ Len(header) < HeaderSize
          /\ \A j \in 1 .. Len(header) : header[j] = <<Current, j>>
          /\ calling # "payload"
       \/ /\ pending.frame = Current /\ Current <= Len(sent) /\ header = <<>>
          /\ sent[Current].kind \in {"ok", "scope"}
          /\ over = HeaderSize + Len(pending.payload)
          /\ Len(pending.payload) < Size(sent[Current])
          /\ \A j \in 1 .. Len(pending.payload) : pending.payload[j] = <<Current, HeaderSize + j>>
          /\ calling # "header"

\* What was returned is what was sent, and a failed decoder is idle.
ReturnedInv ==
  /\ Len(out) <= Len(sent)
  /\ \A i \in 1 .. Len(out) : out[i] = Written(i) /\ sent[i].kind = "ok"
  /\ result # "none" => calling = "no"
  /\ result = "invalid" => Current <= Len(sent) /\ sent[Current].kind # "ok"
  /\ result = "end" => over = 0
  /\ result = "truncated_header" => over \in 1 .. HeaderSize - 1
  /\ result = "truncated_payload" => over >= HeaderSize

CodecInv == CodecType /\ WireInv /\ OpenInv /\ DecoderInv /\ ReturnedInv

LEMMA CodecLengths ==
  ASSUME CodecType
  PROVE  /\ Len(sent) \in Nat /\ Len(wire) \in Nat /\ Len(header) \in Nat /\ Len(out) \in Nat
         /\ Len(pending.payload) \in Nat /\ Current \in Nat \ {0} /\ Current = Len(out) + 1
<1>1. Len(sent) \in Nat /\ Len(wire) \in Nat BY LenProperties DEF CodecType
<1>2. Len(header) \in Nat /\ Len(out) \in Nat BY LenProperties DEF CodecType
<1>3. Len(pending.payload) \in Nat BY LenProperties DEF CodecType
<1> QED BY <1>1, <1>2, <1>3 DEF Current

\* The sizes of a sent frame.
LEMMA SizesOfSent ==
  ASSUME CodecType, HeaderSize \in Nat \ {0}, MaxPayload \in Nat, NEW i \in 1 .. Len(sent)
  PROVE  /\ sent[i] \in [kind : Kinds, size : 0 .. MaxPayload]
         /\ Size(sent[i]) \in Nat /\ Total(i) \in Nat /\ Total(i) >= HeaderSize /\ Total(i) >= 1
<1>1. sent[i] \in [kind : Kinds, size : 0 .. MaxPayload] BY Zenon, ElementOfSeq DEF CodecType
<1>2. Size(sent[i]) \in Nat BY <1>1 DEF Size
<1> QED BY <1>1, <1>2 DEF Total

\* The bytes of a frame.
LEMMA BytesOfFrame ==
  ASSUME HeaderSize \in Nat \ {0}, NEW i \in Nat, NEW f, Size(f) \in Nat
  PROVE  /\ Bytes(i, f) \in Seq(Places) /\ Len(Bytes(i, f)) = HeaderSize + Size(f)
         /\ \A j \in 1 .. HeaderSize + Size(f) : Bytes(i, f)[j] = <<i, j>>
<1> DEFINE n == HeaderSize + Size(f)
           b == [j \in 1 .. n |-> <<i, j>>]
<1>1. n \in Nat OBVIOUS
<1>2. \A j \in 1 .. n : j \in Nat /\ <<i, j>> \in Places BY <1>1 DEF Places
<1> HIDE DEF n
<1>3. b \in Seq(Places) /\ Len(b) = n BY <1>1, <1>2
<1> QED BY <1>3 DEF Bytes, n

\* Its header and its payload.
LEMMA PartsOfFrame ==
  ASSUME HeaderSize \in Nat \ {0}, NEW i \in Nat, NEW f, Size(f) \in Nat
  PROVE  LET h == SubSeq(Bytes(i, f), 1, HeaderSize)
             p == SubSeq(Bytes(i, f), HeaderSize + 1, HeaderSize + Size(f))
         IN /\ h \in Seq(Places) /\ Len(h) = HeaderSize /\ \A j \in 1 .. HeaderSize : h[j] = <<i, j>>
            /\ p \in Seq(Places) /\ Len(p) = Size(f)
            /\ \A j \in 1 .. Size(f) : p[j] = <<i, HeaderSize + j>>
<1> DEFINE z == Size(f)
           b == Bytes(i, f)
<1>1. z \in Nat OBVIOUS
<1>2. \A j \in 1 .. HeaderSize + z : b[j] = <<i, j>> BY BytesOfFrame
<1> HIDE DEF b, z
<1>3. \A j \in 1 .. HeaderSize + z : b[j] \in Places
  <2> TAKE j \in 1 .. HeaderSize + z
  <2>1. j \in Nat /\ b[j] = <<i, j>> BY <1>1, <1>2
  <2> QED BY <2>1 DEF Places
<1>4. /\ SubSeq(b, 1, HeaderSize) \in Seq(Places) /\ Len(SubSeq(b, 1, HeaderSize)) = HeaderSize
      /\ \A j \in 1 .. HeaderSize : SubSeq(b, 1, HeaderSize)[j] = <<i, j>>
  <2>1. \A j \in 1 .. HeaderSize : j \in 1 .. HeaderSize + z BY <1>1
  <2>2. /\ SubSeq(b, 1, HeaderSize) \in Seq(Places)
        /\ Len(SubSeq(b, 1, HeaderSize)) = IF 1 <= HeaderSize THEN HeaderSize - 1 + 1 ELSE 0
        /\ \A j \in 1 .. HeaderSize - 1 + 1 : SubSeq(b, 1, HeaderSize)[j] = b[1 + j - 1]
    BY <1>3, <2>1, SubSeqProperties
  <2>3. \A j \in 1 .. HeaderSize : j \in 1 .. HeaderSize - 1 + 1 /\ 1 + j - 1 = j OBVIOUS
  <2> QED BY <1>2, <2>1, <2>2, <2>3
<1> DEFINE p == SubSeq(b, HeaderSize + 1, HeaderSize + z)
<1>5. p \in Seq(Places) /\ Len(p) = z /\ \A j \in 1 .. z : p[j] = <<i, HeaderSize + j>>
  <2>1. \A j \in HeaderSize + 1 .. HeaderSize + z : j \in 1 .. HeaderSize + z BY <1>1
  <2>2. /\ p \in Seq(Places)
        /\ Len(p) = IF HeaderSize + 1 <= HeaderSize + z
                    THEN (HeaderSize + z) - (HeaderSize + 1) + 1 ELSE 0
        /\ \A j \in 1 .. (HeaderSize + z) - (HeaderSize + 1) + 1 : p[j] = b[HeaderSize + 1 + j - 1]
    BY <1>1, <1>3, <2>1, SubSeqProperties
  <2> HIDE DEF p
  <2>3. ASSUME NEW j \in 1 .. z PROVE p[j] = <<i, HeaderSize + j>>
    <3>1. j \in 1 .. (HeaderSize + z) - (HeaderSize + 1) + 1 BY <1>1
    <3>2. HeaderSize + 1 + j - 1 = HeaderSize + j BY <1>1
    <3>3. HeaderSize + j \in 1 .. HeaderSize + z BY <1>1
    <3> QED BY Zenon, <1>2, <2>2, <3>1, <3>2, <3>3
  <2>4. Len(p) = z
    <3>1. (HeaderSize + z) - (HeaderSize + 1) + 1 = z BY <1>1
    <3>2. HeaderSize + 1 <= HeaderSize + z \/ z = 0 BY <1>1
    <3>3. HeaderSize + 1 <= HeaderSize + z => Len(p) = z BY ONLY <2>2, <3>1
    <3>4. ~(HeaderSize + 1 <= HeaderSize + z) => Len(p) = 0 BY ONLY <2>2
    <3> QED BY ONLY <3>2, <3>3, <3>4
  <2> QED BY Zenon, <2>2, <2>3, <2>4
<1> QED BY Zenon, <1>4, <1>5 DEF b, z

\* What is left on the wire when its first bytes are read.
LEMMA ReadKeepsWire ==
  ASSUME CodecType, WireInv, OpenInv, HeaderSize \in Nat \ {0}, MaxPayload \in Nat,
         NEW n \in 1 .. Len(wire), wire' = SubSeq(wire, n + 1, Len(wire)), UNCHANGED <<sent, eof>>
  PROVE  /\ wire' \in Seq(Places) /\ Len(wire') = Len(wire) - n
         /\ \A k \in 1 .. Len(wire) - n : wire'[k] = wire[k + n]
         /\ WireInv' /\ OpenInv'
<1>1. wire \in Seq(Places) /\ Len(wire) \in Nat BY LenProperties DEF CodecType
<1>2. \A k \in n + 1 .. Len(wire) : wire[k] \in Places
  <2>1. \A k \in 1 .. Len(wire) : wire[k] \in Places BY <1>1, ElementOfSeq
  <2> QED BY <1>1, <2>1
<1>3. /\ wire' \in Seq(Places)
      /\ Len(wire') = IF n + 1 <= Len(wire) THEN Len(wire) - (n + 1) + 1 ELSE 0
      /\ \A k \in 1 .. Len(wire) - (n + 1) + 1 : wire'[k] = wire[n + 1 + k - 1]
  BY <1>1, <1>2, SubSeqProperties
<1>4. Len(wire') = Len(wire) - n BY <1>1, <1>3
<1>5. \A k \in 1 .. Len(wire) - n : wire'[k] = wire[k + n] /\ k + n \in 1 .. Len(wire)
  <2> TAKE k \in 1 .. Len(wire) - n
  <2>1. wire'[k] = wire[n + 1 + k - 1] BY <1>1, <1>3
  <2>2. n + 1 + k - 1 = k + n BY <1>1
  <2> QED BY <1>1, <2>1, <2>2
<1>6. WireInv'
  <2> SUFFICES ASSUME NEW k \in 1 .. Len(wire')
               PROVE  LET i == wire'[k][1]
                          j == wire'[k][2]
                      IN /\ i \in 1 .. Len(sent) /\ j \in 1 .. Total(i)
                         /\ \A m \in 0 .. Total(i) - j : k + m <= Len(wire') => wire'[k + m] = <<i, j + m>>
                         /\ k + Total(i) - j + 1 <= Len(wire')
                              => wire'[k + Total(i) - j + 1] = <<i + 1, 1>>
    BY Zenon DEF WireInv, Total
  <2> DEFINE i == wire[k + n][1]
             j == wire[k + n][2]
  <2>1. k \in 1 .. Len(wire) - n /\ wire'[k] = wire[k + n] /\ k + n \in 1 .. Len(wire) BY <1>4, <1>5
  <2>2. /\ i \in 1 .. Len(sent) /\ j \in 1 .. Total(i)
        /\ \A m \in 0 .. Total(i) - j : (k + n) + m <= Len(wire) => wire[(k + n) + m] = <<i, j + m>>
        /\ (k + n) + Total(i) - j + 1 <= Len(wire) => wire[(k + n) + Total(i) - j + 1] = <<i + 1, 1>>
    BY Zenon, <2>1 DEF WireInv
  <2>3. Total(i) \in Nat BY Zenon, <2>2, SizesOfSent
  <2> HIDE DEF i, j
  <2>4. ASSUME NEW m \in 0 .. Total(i) - j, k + m <= Len(wire') PROVE wire'[k + m] = <<i, j + m>>
    <3>1. m \in Nat BY <2>2, <2>3
    <3>2. k + m \in 1 .. Len(wire) - n /\ (k + n) + m <= Len(wire) /\ (k + m) + n = (k + n) + m
      BY <1>1, <1>4, <2>1, <2>4, <3>1
    <3>3. wire'[k + m] = wire[(k + m) + n] BY Zenon, <1>5, <3>2
    <3> QED BY Zenon, <2>2, <3>2, <3>3
  <2>5. ASSUME k + Total(i) - j + 1 <= Len(wire') PROVE wire'[k + Total(i) - j + 1] = <<i + 1, 1>>
    <3> DEFINE t == Total(i)
    <3>0. /\ t \in Nat /\ j \in Nat /\ j <= t /\ k \in Nat \ {0} /\ n \in Nat
          /\ k + t - j + 1 <= Len(wire) - n
      BY <1>1, <1>4, <2>1, <2>2, <2>3, <2>5
    <3>1. /\ k + Total(i) - j + 1 \in 1 .. Len(wire) - n /\ (k + n) + Total(i) - j + 1 <= Len(wire)
          /\ (k + Total(i) - j + 1) + n = (k + n) + Total(i) - j + 1
      <4> HIDE DEF t
      <4>1. /\ k + t - j + 1 \in 1 .. Len(wire) - n /\ (k + n) + t - j + 1 <= Len(wire)
            /\ (k + t - j + 1) + n = (k + n) + t - j + 1
        BY <1>1, <3>0
      <4> QED BY <4>1 DEF t
    <3>2. wire'[k + Total(i) - j + 1] = wire[(k + Total(i) - j + 1) + n] BY Zenon, <1>5, <3>1
    <3> QED BY Zenon, <2>2, <3>1, <3>2
  <2>6. wire'[k][1] = i /\ wire'[k][2] = j BY <2>1 DEF i, j
  <2> QED BY Zenon, <2>2, <2>4, <2>5, <2>6
<1>7. OpenInv'
  <2> SUFFICES ASSUME ~eof, NEW k \in 1 .. Len(wire')
               PROVE  LET i == wire'[k][1]
                          last == k + Total(i) - wire'[k][2]
                      IN last <= Len(wire') /\ (last = Len(wire') => i = Len(sent))
    BY Zenon DEF OpenInv, Total
  <2> DEFINE i == wire[k + n][1]
             j == wire[k + n][2]
  <2>1. k \in 1 .. Len(wire) - n /\ wire'[k] = wire[k + n] /\ k + n \in 1 .. Len(wire) BY <1>4, <1>5
  <2>2. i \in 1 .. Len(sent) /\ j \in 1 .. Total(i) BY Zenon, <2>1 DEF WireInv
  <2>3. Total(i) \in Nat BY Zenon, <2>2, SizesOfSent
  <2>4. (k + n) + Total(i) - j <= Len(wire) /\ ((k + n) + Total(i) - j = Len(wire) => i = Len(sent))
    BY Zenon, <2>1 DEF OpenInv
  <2>5. wire'[k][1] = i /\ wire'[k][2] = j BY <2>1
  <2> HIDE DEF i, j
  <2> DEFINE t == Total(i)
  <2>6. /\ t \in Nat /\ j \in Nat /\ k \in Nat /\ n \in Nat
        /\ (k + n) + t - j <= Len(wire) /\ ((k + n) + t - j = Len(wire) => i = Len(sent))
    BY <1>1, <2>1, <2>2, <2>3, <2>4
  <2> HIDE DEF t
  <2>7. k + t - j <= Len(wire') /\ (k + t - j = Len(wire') => i = Len(sent))
    <3>1. k + t - j <= Len(wire) - n BY <1>1, <2>6
    <3>2. k + t - j = Len(wire) - n => (k + n) + t - j = Len(wire) BY <1>1, <2>6
    <3> QED BY Zenon, <1>4, <2>6, <3>1, <3>2
  <2> QED BY Zenon, <2>5, <2>7 DEF t
<1> QED BY <1>3, <1>4, <1>5, <1>6, <1>7

\* A read that stays within the frame on the wire takes the next bytes of this
\* frame; the byte after them follows, or the next frame does.
LEMMA ReadWithinFrame ==
  ASSUME CodecType, WireInv, OpenInv, HeaderSize \in Nat \ {0}, MaxPayload \in Nat,
         NEW n \in 1 .. Len(wire), wire' = SubSeq(wire, n + 1, Len(wire)), UNCHANGED <<sent, eof>>,
         wire[1] = <<Current, over + 1>>, over + n <= Total(Current)
  PROVE  /\ SubSeq(wire, 1, n) \in Seq(Places) /\ Len(SubSeq(wire, 1, n)) = n
         /\ \A m \in 1 .. n : SubSeq(wire, 1, n)[m] = <<Current, over + m>>
         /\ over + n < Total(Current) => /\ wire' # <<>> => wire'[1] = <<Current, over + n + 1>>
                                         /\ ~eof => wire' # <<>>
         /\ over + n = Total(Current) => /\ wire' # <<>> => wire'[1] = <<Current + 1, 1>>
                                         /\ ~eof /\ wire' = <<>> => Current = Len(sent)
<1> DEFINE i == Current
           j == over + 1
<1>0. /\ i \in Nat /\ j \in Nat /\ over \in Nat /\ over = j - 1
      /\ wire[1] = <<i, j>> /\ over + n <= Total(i)
  <2>1. over \in Nat BY DEF CodecType
  <2>2. i \in Nat BY CodecLengths
  <2>3. j \in Nat /\ over = j - 1 BY <2>1
  <2> QED BY <2>1, <2>2, <2>3
<1> HIDE DEF i, j
<1>1. wire \in Seq(Places) /\ Len(wire) \in Nat BY LenProperties DEF CodecType
<1>2. 1 \in 1 .. Len(wire) /\ wire[1][1] = i /\ wire[1][2] = j BY <1>0, <1>1
<1>3. /\ i \in 1 .. Len(sent) /\ j \in 1 .. Total(i)
      /\ \A m \in 0 .. Total(i) - j : 1 + m <= Len(wire) => wire[1 + m] = <<i, j + m>>
      /\ 1 + Total(i) - j + 1 <= Len(wire) => wire[1 + Total(i) - j + 1] = <<i + 1, 1>>
  BY Zenon, <1>2 DEF WireInv
<1>4. Total(i) \in Nat BY <1>3, SizesOfSent
<1>5. ~eof => 1 + Total(i) - j <= Len(wire) /\ (1 + Total(i) - j = Len(wire) => i = Len(sent))
  BY <1>2 DEF OpenInv
<1>6. /\ SubSeq(wire, 1, n) \in Seq(Places) /\ Len(SubSeq(wire, 1, n)) = n
      /\ \A m \in 1 .. n : SubSeq(wire, 1, n)[m] = wire[m]
  <2>1. \A k \in 1 .. n : wire[k] \in Places
    <3>1. \A k \in 1 .. Len(wire) : wire[k] \in Places BY <1>1, ElementOfSeq
    <3> QED BY <1>1, <3>1
  <2>2. /\ SubSeq(wire, 1, n) \in Seq(Places)
        /\ Len(SubSeq(wire, 1, n)) = IF 1 <= n THEN n - 1 + 1 ELSE 0
        /\ \A m \in 1 .. n - 1 + 1 : SubSeq(wire, 1, n)[m] = wire[1 + m - 1]
    BY <2>1, SubSeqProperties
  <2> QED BY <2>2
<1>7. ASSUME NEW m \in 1 .. n PROVE SubSeq(wire, 1, n)[m] = <<i, over + m>>
  <2>1. m - 1 \in 0 .. Total(i) - j /\ 1 + (m - 1) <= Len(wire) /\ 1 + (m - 1) = m
        /\ j + (m - 1) = over + m
    BY SMTT(30), <1>0, <1>1, <1>3, <1>4
  <2>2. wire[m] = <<i, over + m>> BY Zenon, <1>3, <2>1
  <2> QED BY <1>6, <2>2
<1>8. /\ wire' \in Seq(Places) /\ Len(wire') = Len(wire) - n
      /\ \A k \in 1 .. Len(wire) - n : wire'[k] = wire[k + n]
  BY Zenon, ReadKeepsWire
<1>9. /\ wire' # <<>> => wire'[1] = wire[1 + n] /\ 1 + n <= Len(wire)
      /\ wire' = <<>> => Len(wire) = n
  <2>1. wire' # <<>> => Len(wire') \in Nat \ {0} BY <1>8, EmptySeq
  <2>2. wire' = <<>> => Len(wire') = 0 BY Zenon
  <2>3. wire' # <<>> => 1 + n <= Len(wire) /\ 1 \in 1 .. Len(wire) - n BY <1>1, <1>8, <2>1
  <2>4. wire' = <<>> => Len(wire) = n BY <1>1, <1>8, <2>2
  <2> QED BY <1>8, <2>3, <2>4
<1>10. ASSUME over + n < Total(i)
       PROVE  (wire' # <<>> => wire'[1] = <<i, over + n + 1>>) /\ (~eof => wire' # <<>>)
  <2>1. n \in 0 .. Total(i) - j /\ j + n = over + n + 1 /\ n <= Total(i) - j
    BY <1>0, <1>3, <1>4, <1>10
  <2>2. wire' # <<>> => wire'[1] = <<i, over + n + 1>> BY Zenon, <1>3, <1>9, <2>1
  <2> DEFINE t == Total(i)
  <2>3. t \in Nat /\ j \in Nat /\ n <= t - j /\ (~eof => 1 + t - j <= Len(wire))
    BY <1>0, <1>3, <1>4, <1>5, <2>1
  <2> HIDE DEF t
  <2>4. ~eof => Len(wire) # n BY <1>1, <2>3
  <2> QED BY <1>9, <2>2, <2>4
<1>11. ASSUME over + n = Total(i)
       PROVE  (wire' # <<>> => wire'[1] = <<i + 1, 1>>) /\ (~eof /\ wire' = <<>> => i = Len(sent))
  <2>1. 1 + n = 1 + Total(i) - j + 1 /\ n = 1 + Total(i) - j BY SMTT(30), <1>0, <1>3, <1>4, <1>11
  <2> QED BY Zenon, <1>3, <1>5, <1>9, <2>1
<1> QED BY Zenon, <1>6, <1>7, <1>10, <1>11 DEF i

\* A call that ends the session, for a reason that holds.
LEMMA FailsKeeps ==
  ASSUME CodecInv, NEW why \in {"invalid", "end", "truncated_header", "truncated_payload", "io"},
         Fails(why), wire' \in Seq(Places), WireInv', OpenInv',
         why = "invalid" => Current <= Len(sent) /\ sent[Current].kind # "ok",
         why = "end" => over = 0,
         why = "truncated_header" => over \in 1 .. HeaderSize - 1,
         why = "truncated_payload" => over >= HeaderSize
  PROVE  CodecInv'
<1> USE DEF CodecInv
<1>1. /\ result' = why /\ calling' = "no" /\ header' = <<>> /\ pending' = NoFrame
      /\ UNCHANGED <<sent, eof, over, out>>
  BY DEF Fails, Reset
<1>2. NoFrame \in [frame : Nat, payload : Seq(Places)] /\ <<>> \in Seq(Places) BY EmptySeq DEF NoFrame
<1>3. CodecType' BY Zenon, <1>1, <1>2 DEF CodecType
<1>4. DecoderInv' BY Zenon, <1>1 DEF DecoderInv
<1>5. ReturnedInv' BY Zenon, <1>1 DEF ReturnedInv, Current, Written
<1> QED BY <1>3, <1>4, <1>5

\* A frame that is complete: it is returned, or refused for its scope.
LEMMA CompleteKeeps ==
  ASSUME CodecInv, HeaderSize \in Nat \ {0}, MaxPayload \in Nat, result = "none",
         NEW load \in Seq(Places), Complete([frame |-> Current, payload |-> load]),
         Current <= Len(sent), sent[Current].kind \in {"ok", "scope"},
         Len(load) = Size(sent[Current]),
         \A j \in 1 .. Len(load) : load[j] = <<Current, HeaderSize + j>>,
         wire' \in Seq(Places), WireInv', OpenInv',
         wire' # <<>> => wire'[1] = <<Current + 1, 1>>,
         ~eof /\ wire' = <<>> => Current = Len(sent)
  PROVE  CodecInv'
<1> USE DEF CodecInv
<1> DEFINE p == [frame |-> Current, payload |-> load]
<1>0. out \in Seq([frame : Nat, payload : Seq(Places)]) /\ Len(out) \in Nat /\ Len(sent) \in Nat
  BY LenProperties DEF CodecType
<1>1. Current \in 1 .. Len(sent) /\ Current \in Nat /\ Current = Len(out) + 1 BY <1>0 DEF Current
<1>2. CASE sent[Current].kind = "scope"
  <2>1. Fails("invalid") BY <1>2 DEF Complete
  <2> QED BY Zenon, <1>2, <2>1, FailsKeeps
<1>3. CASE sent[Current].kind = "ok"
  <2>1. /\ out' = Append(out, p) /\ over' = 0 /\ header' = <<>> /\ pending' = NoFrame /\ calling' = "no"
        /\ UNCHANGED <<sent, eof, result>>
    BY <1>3 DEF Complete, Reset
  <2>2. p \in [frame : Nat, payload : Seq(Places)] BY Zenon, <1>1
  <2>3. /\ out' \in Seq([frame : Nat, payload : Seq(Places)]) /\ Len(out') = Len(out) + 1
        /\ \A i \in 1 .. Len(out) : out'[i] = out[i]
        /\ out'[Current] = p
    <3> HIDE DEF p
    <3> QED BY SMTT(30), <1>0, <1>1, <2>1, <2>2, AppendProperties
  <2>4. NoFrame \in [frame : Nat, payload : Seq(Places)] /\ <<>> \in Seq(Places)
    BY EmptySeq DEF NoFrame
  <2>5. CodecType' BY Zenon, <2>1, <2>3, <2>4 DEF CodecType
  <2>6. Current' = Current + 1 BY Zenon, <1>1, <2>3 DEF Current
  <2>7. p = Written(Current)
    <3> DEFINE z == Size(sent[Current])
               part == SubSeq(Bytes(Current, sent[Current]), HeaderSize + 1, HeaderSize + z)
    <3>1. z \in Nat BY <1>1, SizesOfSent
    <3>2. /\ part \in Seq(Places) /\ Len(part) = z
          /\ \A j \in 1 .. z : part[j] = <<Current, HeaderSize + j>>
      BY ZenonT(40), <1>1, <3>1, PartsOfFrame
    <3>3. load = part
      <4> HIDE DEF part
      <4>1. Len(load) = Len(part) BY <3>2
      <4>2. \A j \in 1 .. Len(load) : load[j] = part[j] BY Zenon, <3>2, <4>1
      <4> QED BY Zenon, <3>2, <4>1, <4>2, SeqEqual
    <3> QED BY Zenon, <3>3 DEF Written
  <2>8. DecoderInv'
    <3>1. Len(header') = 0 /\ header' = <<>> BY Zenon, <2>1
    <3>2. Len(out') = Current /\ over' + 1 = 1 BY <1>1, <2>1, <2>3
    <3>3. wire' # <<>> => wire'[1] = <<Current', over' + 1>> BY Zenon, <2>6, <3>2
    <3>4. ~eof' /\ wire' = <<>> => Len(out') = Len(sent') /\ over' = 0 BY Zenon, <2>1, <3>2
    <3>5. /\ pending' = NoFrame /\ over' = Len(header') /\ Len(header') < HeaderSize
          /\ \A j \in 1 .. Len(header') : header'[j] = <<Current', j>>
          /\ calling' # "payload"
      BY <2>1, <3>1
    <3> QED BY Zenon, <3>3, <3>4, <3>5 DEF DecoderInv, NoFrame
  <2>9. ReturnedInv'
    <3>1. \A i \in 1 .. Len(out') : i \in 1 .. Len(out) \/ i = Current BY ONLY SMTT(30), <1>0, <1>1, <2>3
    <3>2. \A i \in 1 .. Len(out') : out'[i] = Written(i)' /\ sent'[i].kind = "ok"
      <4> HIDE DEF p
      <4> TAKE i \in 1 .. Len(out')
      <4>1. Written(i)' = Written(i) BY <2>1 DEF Written
      <4>2. CASE i = Current BY Zenon, <1>3, <2>1, <2>3, <2>7, <4>1, <4>2
      <4>3. CASE i \in 1 .. Len(out) BY Zenon, <2>1, <2>3, <4>1, <4>3 DEF ReturnedInv
      <4> QED BY <3>1, <4>2, <4>3
    <3>3. Len(out') <= Len(sent') BY Zenon, <1>0, <1>1, <2>1, <2>3
    <3> QED BY Zenon, <2>1, <3>2, <3>3 DEF ReturnedInv
  <2> QED BY Zenon, <2>5, <2>8, <2>9
<1> QED BY Zenon, <1>2, <1>3

LEMMA EncodeKeeps ==
  ASSUME CodecInv, HeaderSize \in Nat \ {0}, MaxPayload \in Nat,
         NEW f \in [kind : Kinds, size : 0 .. MaxPayload], Encode(f)
  PROVE  CodecInv'
<1> USE DEF CodecInv
<1> DEFINE N == Len(sent) + 1
           L == Len(wire)
           T == HeaderSize + Size(f)
           After(i) == HeaderSize + Size(sent'[i])
<1>0. /\ sent \in Seq([kind : Kinds, size : 0 .. MaxPayload]) /\ wire \in Seq(Places)
      /\ Len(sent) \in Nat /\ L \in Nat /\ N \in Nat
  BY LenProperties DEF CodecType
<1>1. /\ ~eof /\ sent' = Append(sent, f) /\ wire' = wire \o Bytes(N, f)
      /\ UNCHANGED <<eof, header, pending, calling, over, out, result>>
  BY DEF Encode
<1>2. Size(f) \in Nat /\ T \in Nat /\ T >= 1 BY DEF Size
<1>3. /\ sent' \in Seq([kind : Kinds, size : 0 .. MaxPayload]) /\ Len(sent') = N /\ sent'[N] = f
      /\ \A i \in 1 .. Len(sent) : sent'[i] = sent[i]
  BY <1>0, <1>1, AppendProperties
<1>4. /\ Bytes(N, f) \in Seq(Places) /\ Len(Bytes(N, f)) = T
      /\ \A j \in 1 .. T : Bytes(N, f)[j] = <<N, j>>
  BY Zenon, <1>0, <1>2, BytesOfFrame
<1>5. /\ wire' \in Seq(Places) /\ Len(wire') = L + T
      /\ \A k \in 1 .. L + T : wire'[k] = IF k <= L THEN wire[k] ELSE Bytes(N, f)[k - L]
  BY ZenonT(40), <1>0, <1>1, <1>4, ConcatProperties
<1>6. \A k \in 1 .. L : wire'[k] = wire[k]
  <2> TAKE k \in 1 .. L
  <2>1. k \in 1 .. L + T /\ k <= L BY SMTT(30), <1>0, <1>2
  <2> QED BY <1>5, <2>1
<1>7. \A k \in L + 1 .. L + T : wire'[k] = <<N, k - L>>
  <2> TAKE k \in L + 1 .. L + T
  <2>1. k \in 1 .. L + T /\ ~(k <= L) /\ k - L \in 1 .. T BY SMTT(30), <1>0, <1>2
  <2> QED BY Zenon, <1>4, <1>5, <2>1
<1>8. (\A i \in 1 .. Len(sent) : After(i) = Total(i)) /\ After(N) = T
  BY Zenon, <1>3 DEF Total
<1>9. CodecType' BY Zenon, <1>1, <1>3, <1>5 DEF CodecType
<1> HIDE DEF N, L, T, After
<1>10. ASSUME NEW k \in 1 .. L
       PROVE  LET i == wire[k][1]
                  j == wire[k][2]
              IN /\ i \in 1 .. Len(sent) /\ j \in 1 .. Total(i) /\ Total(i) \in Nat
                 /\ \A m \in 0 .. Total(i) - j : k + m <= L => wire[k + m] = <<i, j + m>>
                 /\ k + Total(i) - j + 1 <= L => wire[k + Total(i) - j + 1] = <<i + 1, 1>>
                 /\ k + Total(i) - j <= L /\ (k + Total(i) - j = L => i = Len(sent))
  <2> DEFINE i == wire[k][1]
             j == wire[k][2]
  <2>1. /\ i \in 1 .. Len(sent) /\ j \in 1 .. Total(i)
        /\ \A m \in 0 .. Total(i) - j : k + m <= L => wire[k + m] = <<i, j + m>>
        /\ k + Total(i) - j + 1 <= L => wire[k + Total(i) - j + 1] = <<i + 1, 1>>
    BY Zenon DEF WireInv, L
  <2>2. k + Total(i) - j <= L /\ (k + Total(i) - j = L => i = Len(sent))
    BY Zenon, <1>1 DEF OpenInv, L
  <2>3. Total(i) \in Nat BY ZenonT(40), <2>1, SizesOfSent
  <2> HIDE DEF i, j
  <2> QED BY Zenon, <2>1, <2>2, <2>3 DEF i, j
<1>11. ASSUME NEW k \in 1 .. Len(wire')
       PROVE  LET i == wire'[k][1]
                  j == wire'[k][2]
              IN /\ i \in 1 .. N /\ j \in 1 .. After(i)
                 /\ \A m \in 0 .. After(i) - j : k + m <= L + T => wire'[k + m] = <<i, j + m>>
                 /\ k + After(i) - j + 1 <= L + T => wire'[k + After(i) - j + 1] = <<i + 1, 1>>
                 /\ k + After(i) - j <= L + T /\ (k + After(i) - j = L + T => i = N)
  <2>1. CASE k \in 1 .. L
    <3> DEFINE i == wire[k][1]
               j == wire[k][2]
               t == Total(i)
    <3>1. /\ i \in 1 .. Len(sent) /\ j \in 1 .. t /\ t \in Nat
          /\ \A m \in 0 .. t - j : k + m <= L => wire[k + m] = <<i, j + m>>
          /\ k + t - j + 1 <= L => wire[k + t - j + 1] = <<i + 1, 1>>
          /\ k + t - j <= L /\ (k + t - j = L => i = Len(sent))
      BY ZenonT(40), <1>10, <2>1
    <3>2. wire'[k][1] = i /\ wire'[k][2] = j /\ After(i) = t BY Zenon, <1>6, <1>8, <2>1, <3>1
    <3> HIDE DEF i, j, t
    <3>3. k \in Nat /\ j \in Nat /\ i \in Nat /\ k >= 1 /\ j <= t BY SMTT(30), <1>0, <2>1, <3>1
    <3>4. ASSUME NEW m \in 0 .. t - j PROVE wire'[k + m] = <<i, j + m>>
      <4>1. k + m \in 1 .. L BY <1>0, <3>1, <3>3
      <4>2. k + m <= L BY <4>1
      <4>3. wire[k + m] = <<i, j + m>> BY Zenon, <3>1, <4>2
      <4> QED BY Zenon, <1>6, <4>1, <4>3
    <3>5. wire'[k + t - j + 1] = <<i + 1, 1>>
      <4>1. CASE k + t - j + 1 <= L
        <5>1. k + t - j + 1 \in 1 .. L BY <1>0, <3>1, <3>3, <4>1
        <5> QED BY Zenon, <1>6, <3>1, <4>1, <5>1
      <4>2. CASE ~(k + t - j + 1 <= L)
        <5>1. k + t - j = L BY <1>0, <3>1, <3>3, <4>2
        <5>2. L + 1 \in L + 1 .. L + T /\ (L + 1) - L = 1 BY <1>0, <1>2
        <5>3. wire'[L + 1] = <<N, 1>> BY Zenon, <1>7, <5>2
        <5>4. i + 1 = N BY Zenon, <3>1, <5>1 DEF N
        <5> QED BY Zenon, <5>1, <5>3, <5>4
      <4> QED BY Zenon, <4>1, <4>2
    <3>6. k + t - j < L + T BY <1>0, <1>2, <3>1, <3>3
    <3>7. i \in 1 .. N BY <1>0, <3>1 DEF N
    <3>8. k + t - j <= L + T /\ k + t - j # L + T
      <4> DEFINE u == k + t - j
      <4>1. u \in Int /\ u < L + T BY <3>1, <3>3, <3>6
      <4> HIDE DEF u
      <4>2. u <= L + T /\ u # L + T BY <1>0, <1>2, <4>1
      <4> QED BY <4>2 DEF u
    <3> QED BY Zenon, <3>1, <3>2, <3>4, <3>5, <3>7, <3>8
  <2>2. CASE k \in L + 1 .. L + T
    <3> DEFINE j == k - L
    <3>1. wire'[k] = <<N, j>> /\ wire'[k][1] = N /\ wire'[k][2] = j BY <1>7, <2>2
    <3>2. j \in 1 .. T /\ k = L + j /\ j \in Nat BY <1>0, <1>2, <2>2
    <3> HIDE DEF j
    <3>3. ASSUME NEW m \in 0 .. T - j PROVE wire'[k + m] = <<N, j + m>>
      <4>1. k + m \in L + 1 .. L + T /\ (k + m) - L = j + m BY <1>0, <1>2, <3>2
      <4> QED BY <1>7, <4>1
    <3>4. k + T - j = L + T BY <1>0, <1>2, <3>2
    <3>5. ~(k + T - j + 1 <= L + T) BY <1>0, <1>2, <3>4
    <3>6. N \in 1 .. N BY <1>0 DEF N
    <3>7. k + T - j <= L + T BY <1>0, <1>2, <3>4
    <3> QED BY Zenon, <1>8, <3>1, <3>2, <3>3, <3>5, <3>6, <3>7
  <2>3. k \in 1 .. L \/ k \in L + 1 .. L + T BY <1>0, <1>2, <1>5
  <2> QED BY Zenon, <2>1, <2>2, <2>3
<1>12. WireInv' BY ZenonT(40), <1>3, <1>5, <1>11 DEF WireInv, Total, After
<1>13. OpenInv' BY Zenon, <1>3, <1>5, <1>11 DEF OpenInv, Total, After
<1>14. /\ wire' # <<>> /\ (wire = <<>> => L = 0 /\ wire'[1] = <<N, 1>>)
       /\ wire # <<>> => wire'[1] = wire[1]
  <2>1. Len(wire') \in Nat \ {0} BY <1>0, <1>2, <1>5
  <2>2. wire' # <<>> BY <2>1
  <2>3. ASSUME wire = <<>> PROVE L = 0 /\ wire'[1] = <<N, 1>>
    <3>1. L = 0 BY <2>3 DEF L
    <3>2. 1 \in L + 1 .. L + T /\ 1 - L = 1 BY <1>2, <3>1
    <3> QED BY <1>7, <3>1, <3>2
  <2>4. ASSUME wire # <<>> PROVE wire'[1] = wire[1]
    <3>1. L \in Nat \ {0} BY <1>0, <2>4, EmptySeq DEF L
    <3>2. 1 \in 1 .. L BY <3>1
    <3> QED BY <1>6, <3>2
  <2> QED BY <2>2, <2>3, <2>4
<1>15. Len(out) \in Nat /\ Current \in Nat /\ Current = Len(out) + 1 /\ Current' = Current
  BY <1>1, LenProperties DEF CodecType, Current
<1>16. Current <= Len(sent) => sent'[Current] = sent[Current] /\ Current <= Len(sent')
  <2> HAVE Current <= Len(sent)
  <2>1. Current \in 1 .. Len(sent) BY <1>0, <1>15
  <2> QED BY <1>0, <1>3, <1>15, <2>1 DEF N
<1>17. DecoderInv'
  <2> SUFFICES ASSUME result = "none" PROVE DecoderInv' BY Zenon, <1>1 DEF DecoderInv
  <2>1. wire'[1] = <<Current', over' + 1>>
    <3>1. CASE wire = <<>>
      <4>1. over = 0 /\ Current = N BY Zenon, <1>1, <1>15, <3>1 DEF DecoderInv, N
      <4> QED BY <1>1, <1>14, <1>15, <3>1, <4>1
    <3>2. CASE wire # <<>> BY Zenon, <1>1, <1>14, <1>15, <3>2 DEF DecoderInv
    <3> QED BY <3>1, <3>2
  <2>2. CASE /\ pending = NoFrame /\ over = Len(header) /\ Len(header) < HeaderSize
             /\ \A j \in 1 .. Len(header) : header[j] = <<Current, j>>
             /\ calling # "payload"
    BY Zenon, <1>1, <1>14, <1>15, <2>1, <2>2 DEF DecoderInv
  <2>3. CASE /\ pending.frame = Current /\ Current <= Len(sent) /\ header = <<>>
             /\ sent[Current].kind \in {"ok", "scope"}
             /\ over = HeaderSize + Len(pending.payload)
             /\ Len(pending.payload) < Size(sent[Current])
             /\ \A j \in 1 .. Len(pending.payload) : pending.payload[j] = <<Current, HeaderSize + j>>
             /\ calling # "header"
    BY Zenon, <1>1, <1>14, <1>15, <1>16, <2>1, <2>3 DEF DecoderInv, Size
  <2> QED BY Zenon, <2>2, <2>3 DEF DecoderInv
<1>18. ReturnedInv'
  <2>1. Len(out') <= Len(sent') BY <1>0, <1>1, <1>3, <1>15 DEF ReturnedInv, N
  <2>2. \A i \in 1 .. Len(out) : sent'[i] = sent[i]
    <3>1. \A i \in 1 .. Len(out) : i \in 1 .. Len(sent) BY <1>0, <1>15 DEF ReturnedInv
    <3> QED BY Zenon, <1>3, <3>1
  <2>3. \A i \in 1 .. Len(out') : out'[i] = Written(i)' /\ sent'[i].kind = "ok"
    BY ZenonT(40), <1>1, <2>2 DEF ReturnedInv, Written
  <2> QED BY Zenon, <1>1, <1>15, <1>16, <2>1, <2>3 DEF ReturnedInv
<1> QED BY <1>9, <1>12, <1>13, <1>17, <1>18

LEMMA CloseKeeps ==
  ASSUME CodecInv, HeaderSize \in Nat \ {0}, MaxPayload \in Nat, Close
  PROVE  CodecInv'
<1> USE DEF CodecInv
<1>1. PICK n \in 0 .. Len(wire) : wire' = SubSeq(wire, 1, n) BY DEF Close
<1>2. eof' = TRUE /\ UNCHANGED <<sent, header, pending, calling, over, out, result>> BY DEF Close
<1>3. wire \in Seq(Places) /\ Len(wire) \in Nat /\ n \in Nat BY SMTT(30), LenProperties DEF CodecType
<1>4. wire' \in Seq(Places) /\ Len(wire') = n /\ \A k \in 1 .. n : wire'[k] = wire[k]
  <2>1. \A k \in 1 .. n : wire[k] \in Places
    <3>1. \A k \in 1 .. Len(wire) : wire[k] \in Places BY <1>3, ElementOfSeq
    <3> QED BY <1>3, <3>1
  <2>2. /\ wire' \in Seq(Places) /\ Len(wire') = IF 1 <= n THEN n - 1 + 1 ELSE 0
        /\ \A m \in 1 .. n - 1 + 1 : wire'[m] = wire[1 + m - 1]
    BY <1>1, <1>3, <2>1, SubSeqProperties
  <2> QED BY <1>3, <2>2
<1>5. CodecType' BY ZenonT(40), <1>2, <1>4 DEF CodecType
<1>6. WireInv'
  <2> SUFFICES ASSUME NEW k \in 1 .. Len(wire')
               PROVE  LET i == wire'[k][1]
                          j == wire'[k][2]
                      IN /\ i \in 1 .. Len(sent) /\ j \in 1 .. Total(i)
                         /\ \A m \in 0 .. Total(i) - j : k + m <= Len(wire') => wire'[k + m] = <<i, j + m>>
                         /\ k + Total(i) - j + 1 <= Len(wire')
                              => wire'[k + Total(i) - j + 1] = <<i + 1, 1>>
    BY Zenon, <1>2 DEF WireInv, Total
  <2> DEFINE i == wire[k][1]
             j == wire[k][2]
             t == Total(i)
  <2>1. k \in 1 .. Len(wire) /\ wire'[k][1] = i /\ wire'[k][2] = j BY <1>3, <1>4
  <2>2. /\ i \in 1 .. Len(sent) /\ j \in 1 .. t
        /\ \A m \in 0 .. t - j : k + m <= Len(wire) => wire[k + m] = <<i, j + m>>
        /\ k + t - j + 1 <= Len(wire) => wire[k + t - j + 1] = <<i + 1, 1>>
    BY Zenon, <2>1 DEF WireInv
  <2>3. t \in Nat BY <2>2, SizesOfSent
  <2> HIDE DEF i, j, t
  <2>4. j \in Nat /\ k \in Nat /\ k >= 1 /\ j <= t BY <1>3, <2>1, <2>2, <2>3
  <2>5. ASSUME NEW m \in 0 .. t - j, k + m <= n PROVE wire'[k + m] = <<i, j + m>>
    <3>1. k + m \in 1 .. n /\ k + m <= Len(wire) BY <1>3, <2>3, <2>4, <2>5
    <3> QED BY Zenon, <1>4, <2>2, <3>1
  <2>6. ASSUME k + t - j + 1 <= n PROVE wire'[k + t - j + 1] = <<i + 1, 1>>
    <3>1. k + t - j + 1 \in 1 .. n /\ k + t - j + 1 <= Len(wire) BY <1>3, <2>3, <2>4, <2>6
    <3> QED BY <1>4, <2>2, <3>1
  <2>7. Len(wire') = n BY ZenonT(40), <1>4
  <2> QED BY <2>1, <2>2, <2>5, <2>6, <2>7 DEF t
<1>7. OpenInv' BY <1>2 DEF OpenInv
<1>8. wire' # <<>> => wire # <<>> /\ wire'[1] = wire[1]
  <2> HAVE wire' # <<>>
  <2>1. n \in Nat \ {0} BY <1>4, EmptySeq
  <2>2. 1 \in 1 .. n BY <2>1
  <2>3. Len(wire) # 0 BY SMTT(30), <1>3, <2>1
  <2> QED BY <1>4, <2>2, <2>3
<1>9. DecoderInv' BY ZenonT(40), <1>2, <1>8 DEF DecoderInv, Current
<1>10. ReturnedInv' BY Zenon, <1>2 DEF ReturnedInv, Current, Written
<1> QED BY <1>5, <1>6, <1>7, <1>9, <1>10

LEMMA ReadHeaderKeeps ==
  ASSUME CodecInv, HeaderSize \in Nat \ {0}, MaxPayload \in Nat,
         NEW n \in 1 .. Len(wire), ReadHeader(n)
  PROVE  CodecInv'
<1> USE DEF CodecInv
<1> DEFINE i == Current
           h == header \o SubSeq(wire, 1, n)
<1>1. calling = "header" /\ n <= HeaderSize - Len(header) /\ wire' = SubSeq(wire, n + 1, Len(wire))
  BY DEF ReadHeader
<1>2. /\ wire \in Seq(Places) /\ Len(wire) \in Nat /\ header \in Seq(Places) /\ Len(header) \in Nat
      /\ Len(out) \in Nat /\ i \in Nat /\ i = Len(out) + 1 /\ over \in Nat /\ n \in Nat
  BY CodecLengths DEF CodecType
<1>3. result = "none" BY <1>1 DEF ReturnedInv
<1>4. wire # <<>> BY <1>2
<1>5. /\ wire[1] = <<i, over + 1>>
      /\ pending = NoFrame /\ over = Len(header) /\ Len(header) < HeaderSize
      /\ \A j \in 1 .. Len(header) : header[j] = <<i, j>>
  BY Zenon, <1>1, <1>3, <1>4 DEF DecoderInv
<1>6. UNCHANGED <<sent, eof>> BY Zenon DEF ReadHeader, Fails, Complete
<1>7. i \in 1 .. Len(sent)
  <2>1. 1 \in 1 .. Len(wire) /\ wire[1][1] = i BY <1>2, <1>5
  <2> QED BY Zenon, <2>1 DEF WireInv
<1>8. Size(sent[i]) \in Nat /\ Total(i) = HeaderSize + Size(sent[i]) /\ sent[i].kind \in Kinds
  BY <1>7, SizesOfSent DEF Total
<1>9. over + n <= Total(i) BY SMTT(30), <1>1, <1>2, <1>5, <1>8
<1>10. /\ SubSeq(wire, 1, n) \in Seq(Places) /\ Len(SubSeq(wire, 1, n)) = n
       /\ \A m \in 1 .. n : SubSeq(wire, 1, n)[m] = <<i, over + m>>
       /\ over + n < Total(i) => /\ wire' # <<>> => wire'[1] = <<i, over + n + 1>>
                                 /\ ~eof => wire' # <<>>
       /\ over + n = Total(i) => /\ wire' # <<>> => wire'[1] = <<i + 1, 1>>
                                 /\ ~eof /\ wire' = <<>> => i = Len(sent)
  <2>1. CodecType /\ WireInv /\ OpenInv OBVIOUS
  <2> QED BY Zenon, <1>1, <1>5, <1>6, <1>9, <2>1, ReadWithinFrame
<1>11. wire' \in Seq(Places) /\ WireInv' /\ OpenInv' BY Zenon, <1>1, <1>6, ReadKeepsWire
<1>12. h \in Seq(Places) /\ Len(h) = over + n /\ \A m \in 1 .. over + n : h[m] = <<i, m>>
  <2>1. /\ h \in Seq(Places) /\ Len(h) = over + n
        /\ \A m \in 1 .. over + n :
             h[m] = IF m <= over THEN header[m] ELSE SubSeq(wire, 1, n)[m - over]
    <3> DEFINE part == SubSeq(wire, 1, n)
    <3>1. header \in Seq(Places) /\ part \in Seq(Places) /\ Len(part) = n BY <1>2, <1>10
    <3> HIDE DEF part
    <3>2. /\ header \o part \in Seq(Places) /\ Len(header \o part) = Len(header) + Len(part)
          /\ \A m \in 1 .. Len(header) + Len(part) :
               (header \o part)[m] = IF m <= Len(header) THEN header[m] ELSE part[m - Len(header)]
      BY Zenon, <3>1, ConcatProperties
    <3> QED BY Zenon, <1>5, <3>1, <3>2 DEF part
  <2> HIDE DEF h, i
  <2>2. ASSUME NEW m \in 1 .. over + n PROVE h[m] = <<i, m>>
    <3>1. CASE m <= over BY SMTT(30), <1>2, <1>5, <2>1, <3>1
    <3>2. CASE ~(m <= over)
      <4>1. m - over \in 1 .. n /\ over + (m - over) = m BY <1>2, <3>2
      <4>2. h[m] = SubSeq(wire, 1, n)[m - over] BY Zenon, <2>1, <3>2
      <4> QED BY <1>10, <4>1, <4>2
    <3> QED BY <3>1, <3>2
  <2> QED BY <2>1, <2>2
<1>13. CASE Len(h) < HeaderSize
  <2>1. /\ header' = h /\ over' = over + n /\ UNCHANGED <<pending, calling, out, result>>
    BY Zenon, <1>13 DEF ReadHeader
  <2> HIDE DEF h
  <2>2. CodecType' BY SMTT(30), <1>2, <1>6, <1>11, <1>12, <2>1 DEF CodecType
  <2>3. over + n < Total(i) BY <1>2, <1>8, <1>12, <1>13
  <2>4. over + n + 1 = over' + 1 /\ Current' = i BY <1>2, <2>1 DEF Current
  <2>5. DecoderInv' BY Zenon, <1>1, <1>5, <1>6, <1>10, <1>12, <1>13, <2>1, <2>3, <2>4 DEF DecoderInv
  <2>6. ReturnedInv' BY Zenon, <1>3, <1>6, <2>1 DEF ReturnedInv, Written
  <2> QED BY Zenon, <1>11, <2>2, <2>5, <2>6
<1>14. CASE ~(Len(h) < HeaderSize)
  <2>1. Len(h) = HeaderSize /\ over + n = HeaderSize
    <3> HIDE DEF h
    <3>1. over + n <= HeaderSize BY SMTT(30), <1>1, <1>2, <1>5
    <3> QED BY <1>2, <1>12, <1>14, <3>1
  <2>2. h[1][1] = i
    <3>1. 1 \in 1 .. over + n BY <1>2
    <3> HIDE DEF h, i
    <3>2. h[1] = <<i, 1>> BY <1>12, <3>1
    <3> QED BY <3>2
  <2>3. h = SubSeq(Bytes(i, sent[i]), 1, HeaderSize)
    <3> DEFINE b == SubSeq(Bytes(i, sent[i]), 1, HeaderSize)
    <3>1. b \in Seq(Places) /\ Len(b) = HeaderSize /\ \A j \in 1 .. HeaderSize : b[j] = <<i, j>>
      <4> HIDE DEF i
      <4> QED BY Zenon, <1>2, <1>8, PartsOfFrame
    <3> HIDE DEF h, b, i
    <3>2. Len(h) = Len(b) /\ \A j \in 1 .. Len(h) : h[j] = b[j] BY Zenon, <1>12, <2>1, <3>1
    <3>3. h = b BY <1>12, <3>1, <3>2, SeqEqual
    <3> QED BY <3>3 DEF b
  <2>4. Announced(h) = i
    <3> HIDE DEF h, i
    <3> QED BY <2>2, <2>3 DEF Announced
  <2>5. CASE sent[i].kind \in {"header", "huge"}
    <3>1. Fails("invalid") BY <1>14, <2>4, <2>5 DEF ReadHeader
    <3> QED BY SMTT(30), <1>7, <1>11, <2>5, <3>1, FailsKeeps
  <2>6. CASE sent[i].kind \notin {"header", "huge"} /\ Size(sent[i]) = 0
    <3> DEFINE load == <<>>
    <3>1. Complete([frame |-> i, payload |-> load]) BY <1>2, <1>14, <2>4, <2>6 DEF ReadHeader
    <3>2. load \in Seq(Places) /\ Len(load) = 0 /\ Len(load) = Size(sent[i]) BY <2>6, EmptySeq
    <3>3. over + n = Total(i) BY SMTT(30), <1>2, <1>8, <2>1, <2>6
    <3>4. sent[i].kind \in {"ok", "scope"} BY Zenon, <1>8, <2>6 DEF Kinds
    <3>5. (wire' # <<>> => wire'[1] = <<i + 1, 1>>) /\ (~eof /\ wire' = <<>> => i = Len(sent))
      BY <1>10, <3>3
    <3>6. i <= Len(sent) BY <1>7
    <3> HIDE DEF load
    <3>7. \A j \in 1 .. Len(load) : load[j] = <<i, HeaderSize + j>> BY SMTT(30), <3>2
    <3> QED BY ZenonT(40), <1>3, <1>11, <2>6, <3>1, <3>2, <3>4, <3>5, <3>6, <3>7, CompleteKeeps
  <2>7. CASE sent[i].kind \notin {"header", "huge"} /\ Size(sent[i]) # 0
    <3> DEFINE p == [frame |-> i, payload |-> <<>>]
    <3>1. /\ header' = <<>> /\ pending' = p /\ calling' = "payload" /\ over' = over + n
          /\ UNCHANGED <<out, result>>
      <4>1. i # 0 BY <1>2
      <4> HIDE DEF i
      <4> QED BY Zenon, <1>14, <2>4, <2>7, <4>1 DEF ReadHeader
    <3>2. <<>> \in Seq(Places) /\ Len(<<>>) = 0 BY Zenon, EmptySeq
    <3>3. p \in [frame : Nat, payload : Seq(Places)] BY Zenon, <1>2, <3>2
    <3>4. CodecType'
      <4>1. over' \in Nat BY ONLY <1>2, <3>1
      <4> QED BY Zenon, <1>6, <1>11, <3>1, <3>2, <3>3, <4>1 DEF CodecType
    <3>5. over + n < Total(i) BY SMTT(30), <1>2, <1>8, <2>1, <2>7
    <3>6. over + n + 1 = over' + 1 /\ Current' = i BY Zenon, <1>2, <3>1 DEF Current
    <3>7. sent[i].kind \in {"ok", "scope"} BY Zenon, <1>8, <2>7 DEF Kinds
    <3>8. /\ pending'.frame = i /\ pending'.payload = <<>> /\ i <= Len(sent) /\ over' = HeaderSize + 0
          /\ 0 < Size(sent[i])
      BY SMTT(30), <1>2, <1>7, <1>8, <2>1, <2>7, <3>1
    <3> HIDE DEF i, p
    <3>9. DecoderInv'
      <4>1. wire' # <<>> => wire'[1] = <<Current', over' + 1>> BY Zenon, <1>10, <3>5, <3>6
      <4>2. ~(~eof' /\ wire' = <<>>) BY Zenon, <1>6, <1>10, <3>5
      <4>3. /\ Len(pending'.payload) = 0 /\ over' = HeaderSize + Len(pending'.payload)
            /\ \A j \in 1 .. Len(pending'.payload) :
                 pending'.payload[j] = <<Current', HeaderSize + j>>
        BY <3>2, <3>8
      <4>4. /\ pending'.frame = Current' /\ Current' <= Len(sent') /\ header' = <<>>
            /\ sent'[Current'].kind \in {"ok", "scope"}
            /\ Len(pending'.payload) < Size(sent'[Current']) /\ calling' # "header"
        BY Zenon, <1>6, <3>1, <3>6, <3>7, <3>8, <4>3
      <4> QED BY Zenon, <4>1, <4>2, <4>3, <4>4 DEF DecoderInv
    <3>10. ReturnedInv' BY <1>3, <1>6, <3>1 DEF ReturnedInv, Written
    <3> QED BY <1>11, <3>4, <3>9, <3>10
  <2> QED BY <2>5, <2>6, <2>7
<1> QED BY Zenon, <1>13, <1>14

LEMMA ReadPayloadKeeps ==
  ASSUME CodecInv, HeaderSize \in Nat \ {0}, MaxPayload \in Nat,
         NEW n \in 1 .. Len(wire), ReadPayload(n)
  PROVE  CodecInv'
<1> USE DEF CodecInv
<1> DEFINE i == Current
           part == SubSeq(wire, 1, n)
           load == pending.payload \o part
           p == [frame |-> i, payload |-> load]
<1>1. /\ calling = "payload" /\ n <= Size(sent[pending.frame]) - Len(pending.payload)
      /\ wire' = SubSeq(wire, n + 1, Len(wire))
  BY DEF ReadPayload
<1>2. /\ wire \in Seq(Places) /\ Len(wire) \in Nat /\ pending.payload \in Seq(Places)
      /\ Len(pending.payload) \in Nat /\ pending \in [frame : Nat, payload : Seq(Places)]
      /\ Len(out) \in Nat /\ i \in Nat /\ i = Len(out) + 1 /\ over \in Nat /\ n \in Nat
  BY SMTT(30), CodecLengths DEF CodecType
<1>3. result = "none" BY <1>1 DEF ReturnedInv
<1>4. wire # <<>> BY SMTT(30), <1>2
<1>5. /\ wire[1] = <<i, over + 1>>
      /\ pending.frame = i /\ i <= Len(sent) /\ header = <<>>
      /\ sent[i].kind \in {"ok", "scope"} /\ over = HeaderSize + Len(pending.payload)
      /\ Len(pending.payload) < Size(sent[i])
      /\ \A j \in 1 .. Len(pending.payload) : pending.payload[j] = <<i, HeaderSize + j>>
  BY Zenon, <1>1, <1>3, <1>4 DEF DecoderInv
<1>6. UNCHANGED <<sent, eof>> BY Zenon DEF ReadPayload, Fails, Complete
<1>7. i \in 1 .. Len(sent)
  <2>1. 1 \in 1 .. Len(wire) /\ wire[1][1] = i BY <1>2, <1>5
  <2> QED BY Zenon, <2>1 DEF WireInv
<1>8. Size(sent[i]) \in Nat /\ Total(i) = HeaderSize + Size(sent[i]) BY Zenon, <1>7, SizesOfSent DEF Total
<1>9. n <= Size(sent[i]) - Len(pending.payload) /\ over + n <= Total(i)
  <2>1. n <= Size(sent[i]) - Len(pending.payload) BY Zenon, <1>1, <1>5
  <2> DEFINE z == Size(sent[i])
             m == Len(pending.payload)
  <2>2. z \in Nat /\ m \in Nat /\ n <= z - m /\ over = HeaderSize + m BY <1>2, <1>5, <1>8, <2>1
  <2> HIDE DEF z, m
  <2>3. over + n <= HeaderSize + z BY <1>2, <2>2
  <2> QED BY Zenon, <1>8, <2>1, <2>3 DEF z
<1>10. /\ part \in Seq(Places) /\ Len(part) = n
       /\ \A m \in 1 .. n : part[m] = <<i, over + m>>
       /\ over + n < Total(i) => /\ wire' # <<>> => wire'[1] = <<i, over + n + 1>>
                                 /\ ~eof => wire' # <<>>
       /\ over + n = Total(i) => /\ wire' # <<>> => wire'[1] = <<i + 1, 1>>
                                 /\ ~eof /\ wire' = <<>> => i = Len(sent)
  <2>1. CodecType /\ WireInv /\ OpenInv OBVIOUS
  <2> QED BY Zenon, <1>1, <1>5, <1>6, <1>9, <2>1, ReadWithinFrame
<1>11. wire' \in Seq(Places) /\ WireInv' /\ OpenInv' BY <1>1, <1>6, ReadKeepsWire
<1>12. [pending EXCEPT !.payload = load] = p
  <2> HIDE DEF load, i
  <2>1. pending = [frame |-> i, payload |-> pending.payload] BY Zenon, <1>2, <1>5
  <2> QED BY <2>1
<1> DEFINE l == Len(pending.payload)
<1>13. /\ load \in Seq(Places) /\ Len(load) = l + n
       /\ \A m \in 1 .. Len(load) : load[m] = <<i, HeaderSize + m>>
  <2>1. /\ load \in Seq(Places) /\ Len(load) = l + n
        /\ \A m \in 1 .. l + n : load[m] = IF m <= l THEN pending.payload[m] ELSE part[m - l]
    <3>1. pending.payload \in Seq(Places) /\ part \in Seq(Places) /\ Len(part) = n BY <1>2, <1>10
    <3> DEFINE s == pending.payload
    <3> HIDE DEF part, s
    <3>2. /\ s \o part \in Seq(Places) /\ Len(s \o part) = Len(s) + Len(part)
          /\ \A m \in 1 .. Len(s) + Len(part) :
               (s \o part)[m] = IF m <= Len(s) THEN s[m] ELSE part[m - Len(s)]
      BY Zenon, <3>1, ConcatProperties DEF s
    <3> QED BY Zenon, <3>1, <3>2 DEF s
  <2>2. l \in Nat /\ over = HeaderSize + l BY <1>2, <1>5
  <2>3. \A j \in 1 .. l : pending.payload[j] = <<i, HeaderSize + j>> BY Zenon, <1>5
  <2> HIDE DEF load, part, i, l
  <2>4. ASSUME NEW m \in 1 .. l + n PROVE load[m] = <<i, HeaderSize + m>>
    <3>1. CASE m <= l BY SMTT(30), <2>1, <2>2, <2>3, <3>1
    <3>2. CASE ~(m <= l)
      <4>1. m - l \in 1 .. n /\ over + (m - l) = HeaderSize + m BY <1>2, <2>2, <3>2
      <4>2. load[m] = part[m - l] BY <2>1, <3>2
      <4> QED BY <1>10, <4>1, <4>2
    <3> QED BY Zenon, <3>1, <3>2
  <2> QED BY Zenon, <2>1, <2>4
<1>14. /\ Len(load) < Size(sent[i]) =>
            /\ pending' = p /\ over' = over + n
            /\ UNCHANGED <<sent, eof, header, calling, out, result>>
       /\ ~(Len(load) < Size(sent[i])) => Complete(p)
  <2>1. p.payload = load /\ p.frame = i BY Zenon
  <2> HIDE DEF load, i, p
  <2> QED BY Zenon, <1>12, <2>1 DEF ReadPayload, load, part
<1> HIDE DEF load, part
<1>15. CASE Len(load) < Size(sent[i])
  <2>1. p \in [frame : Nat, payload : Seq(Places)] BY Zenon, <1>2, <1>13
  <2>2. /\ pending' = p /\ over' = over + n /\ UNCHANGED <<header, calling, out, result>>
    BY ZenonT(40), <1>14, <1>15
  <2>3. CodecType' BY <1>2, <1>6, <1>11, <2>1, <2>2 DEF CodecType
  <2>4. over + n < Total(i)
    <3> DEFINE z == Size(sent[i])
    <3>1. z \in Nat /\ l \in Nat /\ over = HeaderSize + l /\ l + n < z /\ Total(i) = HeaderSize + z
      BY Zenon, <1>2, <1>5, <1>8, <1>13, <1>15
    <3> HIDE DEF z, l
    <3> QED BY SMTT(30), <1>2, <3>1
  <2>5. over + n + 1 = over' + 1 /\ Current' = i BY Zenon, <1>2, <2>2 DEF Current
  <2>6. pending'.frame = i /\ pending'.payload = load /\ over' = HeaderSize + Len(load)
    BY <1>2, <1>5, <1>13, <2>2
  <2> HIDE DEF i, p
  <2>7. DecoderInv' BY Zenon, <1>1, <1>5, <1>6, <1>10, <1>13, <1>15, <2>2, <2>4, <2>5, <2>6 DEF DecoderInv
  <2>8. ReturnedInv' BY Zenon, <1>3, <1>6, <2>2 DEF ReturnedInv, Written
  <2> QED BY <1>11, <2>3, <2>7, <2>8
<1>16. CASE ~(Len(load) < Size(sent[i]))
  <2> DEFINE z == Size(sent[i])
  <2>0. /\ z \in Nat /\ l \in Nat /\ over = HeaderSize + l /\ n <= z - l /\ Len(load) = l + n
        /\ ~(Len(load) < z) /\ Total(i) = HeaderSize + z
    BY <1>2, <1>5, <1>8, <1>9, <1>13, <1>16
  <2>1. Len(load) = Size(sent[i]) /\ over + n = Total(i)
    <3> HIDE DEF z, l
    <3>1. Len(load) = z /\ over + n = Total(i) BY SMTT(30), <1>2, <2>0
    <3> QED BY <3>1 DEF z
  <2> QED BY ZenonT(40), <1>3, <1>5, <1>10, <1>11, <1>13, <1>14, <1>16, <2>1, CompleteKeeps
<1> QED BY <1>15, <1>16

LEMMA CodecNext_CodecInv ==
  ASSUME CodecInv, HeaderSize \in Nat \ {0}, MaxPayload \in Nat, [CodecNext]_codecVars
  PROVE  CodecInv'
<1>1. CASE UNCHANGED codecVars
  <2> USE <1>1 DEF codecVars, CodecInv
  <2>1. CodecType' BY Zenon DEF CodecType
  <2>2. WireInv' BY Zenon DEF WireInv, Total
  <2>3. OpenInv' BY Zenon DEF OpenInv, Total
  <2>4. DecoderInv' BY Zenon DEF DecoderInv, Current
  <2>5. ReturnedInv' BY Zenon DEF ReturnedInv, Written, Current
  <2> QED BY <2>1, <2>2, <2>3, <2>4, <2>5
<1>2. ASSUME NEW k \in Kinds, NEW n \in 0 .. MaxPayload, Encode([kind |-> k, size |-> n])
      PROVE  CodecInv'
  BY <1>2, EncodeKeeps
<1>3. CASE Close BY <1>3, CloseKeeps
<1>4. CASE Call \/ Cancel
  <2>1. /\ UNCHANGED <<sent, wire, eof, header, pending, over, out, result>>
        /\ \/ result = "none" /\ calling' = IF pending = NoFrame THEN "header" ELSE "payload"
           \/ calling' = "no"
    BY <1>4 DEF Call, Cancel
  <2>2. CodecType' /\ WireInv' /\ OpenInv'
    BY Zenon, <2>1 DEF CodecInv, CodecType, WireInv, OpenInv, Total
  <2>3. Current \in Nat \ {0}
    <3>1. Len(out) \in Nat BY LenProperties DEF CodecInv, CodecType
    <3> QED BY <3>1 DEF Current
  <2>4. pending.frame = Current => pending # NoFrame BY SMTT(30), <2>3 DEF NoFrame
  <2>5. DecoderInv' BY SMTT(30), <2>1, <2>4 DEF CodecInv, DecoderInv, Current
  <2>6. ReturnedInv' BY Zenon, <2>1 DEF CodecInv, ReturnedInv, Current, Written
  <2> QED BY <2>2, <2>5, <2>6 DEF CodecInv
<1>5. CASE ReadEof \/ ReadFails
  <2>1. /\ calling # "no" /\ UNCHANGED wire
        /\ \/ Fails("io") \/ (calling = "payload" /\ Fails("truncated_payload"))
           \/ calling # "payload" /\ header = <<>> /\ Fails("end")
           \/ calling # "payload" /\ header # <<>> /\ Fails("truncated_header")
    <3>1. CASE ReadFails BY <3>1 DEF ReadFails
    <3>2. CASE ReadEof /\ calling = "payload" BY <3>2 DEF ReadEof
    <3>3. CASE ReadEof /\ calling # "payload" /\ header = <<>>
      <4>1. calling = "header" BY <3>3 DEF ReadEof, CodecInv, CodecType
      <4> QED BY <3>3, <4>1 DEF ReadEof
    <3>4. CASE ReadEof /\ calling # "payload" /\ header # <<>> BY <3>4 DEF ReadEof
    <3> QED BY <1>5, <3>1, <3>2, <3>3, <3>4
  <2>2. wire' \in Seq(Places) /\ WireInv' /\ OpenInv'
    <3>1. UNCHANGED <<wire, sent, eof>> BY SMTT(30), <2>1 DEF Fails
    <3> QED BY Zenon, <3>1 DEF CodecInv, CodecType, WireInv, OpenInv, Total
  <2>3. /\ result = "none" /\ calling \in {"header", "payload"}
        /\ header \in Seq(Places) /\ Len(header) \in Nat /\ (header # <<>> => Len(header) \in Nat \ {0})
        /\ pending.payload \in Seq(Places) /\ Len(pending.payload) \in Nat
    BY Zenon, <2>1, LenProperties, EmptySeq DEF CodecInv, ReturnedInv, CodecType
  <2>4. CASE calling = "header"
    <3>1. over = Len(header) /\ Len(header) < HeaderSize BY <2>3, <2>4 DEF CodecInv, DecoderInv
    <3>2. header = <<>> => over = 0 BY <3>1
    <3>3. header # <<>> => over \in 1 .. HeaderSize - 1 BY <2>3, <3>1
    <3> QED BY Zenon, <2>1, <2>2, <2>4, <3>2, <3>3, FailsKeeps
  <2>5. CASE calling = "payload"
    <3>1. over = HeaderSize + Len(pending.payload) BY <2>3, <2>5 DEF CodecInv, DecoderInv
    <3>2. over >= HeaderSize BY <2>3, <3>1
    <3> QED BY Zenon, <2>1, <2>2, <2>5, <3>2, FailsKeeps
  <2> QED BY <2>3, <2>4, <2>5
<1>6. ASSUME NEW n \in 1 .. Len(wire), ReadHeader(n) PROVE CodecInv' BY <1>6, ReadHeaderKeeps
<1>7. ASSUME NEW n \in 1 .. Len(wire), ReadPayload(n) PROVE CodecInv' BY <1>7, ReadPayloadKeeps
<1> QED BY Zenon, <1>1, <1>2, <1>3, <1>4, <1>5, <1>6, <1>7 DEF CodecNext

\* Whatever the pieces in which bytes arrive, wherever calls are dropped and
\* wherever the connection ends, decode returns the frames that were sent, in
\* order and with their own payloads, fails only at a frame that is not sound,
\* and tells an end between frames from one inside a header or a payload
\* (FrameDecoder::decode), for any header size, any payload limit and any
\* number of frames.
THEOREM DecodeExactProved ==
  ASSUME HeaderSize \in Nat \ {0}, MaxPayload \in Nat
  PROVE  CodecSpec => []DecodeExact
<1>1. CodecInit => CodecInv
  <2> HAVE CodecInit
  <2>1. /\ sent = <<>> /\ wire = <<>> /\ eof = FALSE /\ out = <<>> /\ header = <<>>
        /\ pending = NoFrame /\ calling = "no" /\ over = 0 /\ result = "none"
    BY DEF CodecInit
  <2>2. \A S : <<>> \in Seq(S) /\ Len(<<>>) = 0 BY EmptySeq
  <2>3. CodecType BY Zenon, <2>1, <2>2 DEF CodecType, NoFrame
  <2>4. WireInv /\ OpenInv BY <2>1, <2>2 DEF WireInv, OpenInv
  <2>5. DecoderInv BY <2>1, <2>2 DEF DecoderInv
  <2>6. ReturnedInv BY <2>1, <2>2 DEF ReturnedInv
  <2> QED BY <2>3, <2>4, <2>5, <2>6 DEF CodecInv
<1>2. CodecInv /\ [CodecNext]_codecVars => CodecInv' BY Zenon, CodecNext_CodecInv
<1>3. CodecInv => DecodeExact
  <2>1. CodecInv => DOMAIN out = 1 .. Len(out) BY LenProperties DEF CodecInv, CodecType
  <2> QED BY <2>1 DEF CodecInv, ReturnedInv, DecodeExact, Current
<1> QED BY <1>1, <1>2, <1>3, PTL DEF CodecSpec

(***************************************************************************)
(* 2. The process.                                                         *)
(*                                                                         *)
(* The properties speak of the end of the process; the invariant carries   *)
(* what the steps before it establish: which futures may have ended well   *)
(* before the shutdown is signalled, that a tunnel whose runtime has ended *)
(* can never look connected again, and that what main has still to await   *)
(* is every future that has not ended, with operations last.               *)
(***************************************************************************)
CompStates == {"run", "joining", "joiningErr"} \cup Ended
ConnectionStates == {"offline", "connecting", "connected", "backoff"} \cup Sticky
RunStates == {"top", "connecting", "session", "backoff"} \cup Ended
ReadinessStates == {"wait", "poll", "verify", "sleep", "probe"} \cup Ended
ReachStates == {"disabled", "pending", "healthy", "degraded", "unhealthy"}

\* Types of the process.
ProcType ==
  /\ cfg \in Configs
  /\ main \in {"startup", "select", "await", "exited"} /\ step \in Nat /\ code \in Nat
  /\ branch \in SelectBranches \cup {"none"} /\ awaiting \in Seq(Components)
  /\ osOk \in BOOLEAN /\ signal \in BOOLEAN /\ opsSignal \in BOOLEAN
  /\ comp \in [Components -> CompStates]
  /\ rd \in [Tunnels -> ReadinessStates]

\* Types of the tunnels.
TunType ==
  /\ state \in [Tunnels -> ConnectionStates]
  /\ store \in [Tunnels -> ConnectionStates \cup {"none"}]
  /\ reach \in [Tunnels -> ReachStates]
  /\ streak \in [Tunnels -> 0 .. FailureThreshold]
  /\ run \in [Tunnels -> RunStates]

\* A runtime that has ended left its tunnel stopped or draining; the future of
\* the runtime ends with its loops, and in a single-tunnel process it is one.
RuntimeInv ==
  /\ \A t \in cfg.tunnels : run[t] \in Ended => state[t] \in Sticky
  /\ comp["runtime"] \in Ended => \A t \in cfg.tunnels : run[t] \in Ended
  /\ ~cfg.multi => \A t \in cfg.tunnels :
        comp["runtime"] = IF run[t] \in Ended THEN run[t] ELSE "run"

\* Before the shutdown is signalled no future but the OS signal ends well.
SignalInv ==
  /\ main \in {"startup", "select"} => ~signal
  /\ opsSignal => signal
  /\ ~signal => /\ \A c \in Components \ {"os"} : comp[c] \notin {"ok", "joining"}
                /\ \A t \in Tunnels : rd[t] # "ok"

\* During startup nothing runs, and a hostname is allocated by the last step.
StartInv ==
  main = "startup" => /\ step \in 1 .. Len(Startup)
                      /\ alloc # {} => Startup[step] = "allocate"
                      /\ \A t \in Tunnels : run[t] = "top"

In(q, c) == \E i \in 1 .. Len(q) : q[i] = c

\* After the select! the branch that fired has ended, badly unless it is the OS
\* signal; every tunnel is stopped or draining; and what has not ended is still
\* to be awaited, operations last.
AwaitInv ==
  main = "await" =>
    /\ signal /\ branch \in SelectBranches /\ comp[branch] \in Ended
    /\ branch # "os" => comp[branch] # "ok"
    /\ \A t \in cfg.tunnels : state[t] \in Sticky
    /\ \A c \in Futures \cup {"operations"} : comp[c] \in Ended \/ In(awaiting, c)
    /\ \A i \in 1 .. Len(awaiting) : awaiting[i] = "operations" => i = Len(awaiting)

ProcInv == /\ ProcType /\ TunType /\ RuntimeInv /\ SignalInv /\ StartInv /\ AwaitInv
           /\ ReachabilityMatchesStreak /\ OperationsStopLast
           /\ SuccessOnlyOnRequest /\ ConfigErrorMutatesNothing

-----------------------------------------------------------------------------
(* Configurations, and what main awaits. *)

\* A process has a tunnel, and a single-tunnel process has one.
LEMMA ConfigFacts ==
  ASSUME cfg \in Configs
  PROVE  /\ cfg.multi \in BOOLEAN /\ cfg.tunnels \subseteq Tunnels /\ cfg.tunnels # {}
         /\ cfg.probe \in Probes /\ cfg.multi => cfg.probe # "raw"
         /\ ~cfg.multi => \A t, u \in cfg.tunnels : t = u
<1>1. cfg \in [multi: BOOLEAN, probe: Probes, tunnels: SUBSET Tunnels]
  BY ConfigsAssumption
<1>2. /\ cfg.multi => cfg.probe # "raw" /\ cfg.tunnels # {}
      /\ ~cfg.multi => \E t \in Tunnels : cfg.tunnels = {t}
  BY ConfigsAssumption, Zenon
<1>3. CASE ~cfg.multi
  BY <1>1, <1>2, <1>3
<1>4. CASE cfg.multi
  BY <1>1, <1>2, <1>4
<1> QED BY <1>1, <1>3, <1>4

\* What one of two sequences holds their concatenation holds.
LEMMA InJoined ==
  ASSUME NEW S, NEW p \in Seq(S), NEW q \in Seq(S), NEW c, In(p, c) \/ In(q, c)
  PROVE  In(p \o q, c)
<1>1. /\ Len(p) \in Nat /\ Len(q) \in Nat /\ Len(p \o q) = Len(p) + Len(q)
      /\ \A i \in 1 .. Len(p) + Len(q) :
            (p \o q)[i] = IF i <= Len(p) THEN p[i] ELSE q[i - Len(p)]
  BY ConcatProperties, LenProperties
<1>2. CASE In(p, c)
  <2>1. PICK i \in 1 .. Len(p) : p[i] = c
    BY <1>2 DEF In
  <2>2. i \in 1 .. Len(p) + Len(q) /\ i <= Len(p)
    BY <1>1
  <2>3. (p \o q)[i] = c
    BY <1>1, <2>1, <2>2
  <2> QED BY <1>1, <2>2, <2>3 DEF In
<1>3. CASE In(q, c)
  <2>1. PICK i \in 1 .. Len(q) : q[i] = c
    BY <1>3 DEF In
  <2> DEFINE j == Len(p) + i
  <2>2. j \in 1 .. Len(p) + Len(q) /\ ~(j <= Len(p)) /\ j - Len(p) = i
    BY <1>1
  <2> HIDE DEF j
  <2>3. (p \o q)[j] = c
    BY <1>1, <2>1, <2>2
  <2> QED BY <1>1, <2>2, <2>3 DEF In
<1> QED BY <1>2, <1>3

\* A piece of the awaits is empty or one future.
LEMMA PieceFacts ==
  ASSUME NEW S, NEW b, NEW c \in S
  PROVE  Unless(b, c) \in Seq(S) /\ (b # c => In(Unless(b, c), c))
<1>1. <<>> \in Seq(S) /\ <<c>> \in Seq(S) /\ Len(<<c>>) = 1 /\ <<c>>[1] = c
  OBVIOUS
<1>2. 1 \in 1 .. Len(<<c>>)
  BY <1>1
<1>3. In(<<c>>, c)
  BY <1>1, <1>2, Zenon DEF In
<1> QED BY <1>1, <1>3, Zenon DEF Unless

\* Every future but the branch is awaited, and operations last.
LEMMA AwaitsFacts ==
  ASSUME NEW b
  PROVE  /\ Awaits(b) \in Seq(Components)
         /\ \A c \in Futures \cup {"operations"} : b # c => In(Awaits(b), c)
         /\ \A i \in 1 .. Len(Awaits(b)) : Awaits(b)[i] = "operations" => i = Len(Awaits(b))
<1> DEFINE F == {"readiness", "runtime", "reload", "tunnelReload", "enrollment"}
           p1 == Unless(b, "readiness")
           p2 == Unless(b, "runtime")
           p3 == Unless(b, "reload")
           p4 == IF cfg.multi THEN <<"tunnelReload">> ELSE <<>>
           p5 == Unless(b, "enrollment")
           p6 == Unless(b, "operations")
<1>1. /\ p1 \in Seq(F) /\ p2 \in Seq(F) /\ p3 \in Seq(F) /\ p5 \in Seq(F)
      /\ b # "readiness" => In(p1, "readiness")
      /\ b # "runtime" => In(p2, "runtime")
      /\ b # "reload" => In(p3, "reload")
      /\ b # "enrollment" => In(p5, "enrollment")
  <2>1. "readiness" \in F /\ "runtime" \in F /\ "reload" \in F /\ "enrollment" \in F
    OBVIOUS
  <2> HIDE DEF F
  <2>2. p1 \in Seq(F) /\ (b # "readiness" => In(p1, "readiness"))
    BY <2>1, PieceFacts, Zenon
  <2>3. p2 \in Seq(F) /\ (b # "runtime" => In(p2, "runtime"))
    BY <2>1, PieceFacts, Zenon
  <2>4. p3 \in Seq(F) /\ (b # "reload" => In(p3, "reload"))
    BY <2>1, PieceFacts, Zenon
  <2>5. p5 \in Seq(F) /\ (b # "enrollment" => In(p5, "enrollment"))
    BY <2>1, PieceFacts, Zenon
  <2> QED BY <2>2, <2>3, <2>4, <2>5, Zenon
<1>2. p4 \in Seq(F) /\ (cfg.multi => In(p4, "tunnelReload"))
  <2>1. "tunnelReload" \in F /\ "none" # "tunnelReload"
    OBVIOUS
  <2> HIDE DEF F
  <2>2. /\ Unless("none", "tunnelReload") \in Seq(F)
        /\ In(Unless("none", "tunnelReload"), "tunnelReload")
    BY <2>1, PieceFacts, Zenon
  <2>3. Unless("none", "tunnelReload") = <<"tunnelReload">>
    BY <2>1, Zenon DEF Unless
  <2>4. <<>> \in Seq(F)
    OBVIOUS
  <2> QED BY <2>2, <2>3, <2>4, Zenon
<1> HIDE DEF F, p1, p2, p3, p4, p5
<1> DEFINE q2 == p1 \o p2
           q3 == q2 \o p3
           q4 == q3 \o p4
           q5 == q4 \o p5
<1>3. q2 \in Seq(F) /\ (\A c : In(p1, c) \/ In(p2, c) => In(q2, c))
  BY <1>1, InJoined, ConcatProperties
<1> HIDE DEF q2
<1>4. q3 \in Seq(F) /\ (\A c : In(q2, c) \/ In(p3, c) => In(q3, c))
  BY <1>1, <1>3, InJoined, ConcatProperties
<1> HIDE DEF q3
<1>5. q4 \in Seq(F) /\ (\A c : In(q3, c) \/ In(p4, c) => In(q4, c))
  BY <1>2, <1>4, InJoined, ConcatProperties
<1> HIDE DEF q4
<1>6. q5 \in Seq(F) /\ (\A c : In(q4, c) \/ In(p5, c) => In(q5, c))
  BY <1>1, <1>5, InJoined, ConcatProperties
<1> HIDE DEF q5
<1>7. Awaits(b) = q5 \o p6
  BY Zenon DEF Awaits, p1, p2, p3, p4, p5, q2, q3, q4, q5
<1>8. \A c \in Futures : b # c => In(q5, c)
  <2>1. /\ b # "readiness" => In(q5, "readiness")
        /\ b # "runtime" => In(q5, "runtime")
        /\ b # "reload" => In(q5, "reload")
        /\ b # "enrollment" => In(q5, "enrollment")
        /\ cfg.multi => In(q5, "tunnelReload")
    BY <1>1, <1>2, <1>3, <1>4, <1>5, <1>6, Zenon
  <2> QED BY <2>1 DEF Futures
<1>9. q5 \in Seq(Components)
  <2>1. F \subseteq Components
    BY DEF F, Components
  <2> HIDE DEF F
  <2> QED BY <1>6, <2>1
<1>10. p6 \in Seq(Components) /\ (b # "operations" => In(p6, "operations"))
  <2>1. "operations" \in Components
    BY DEF Components
  <2> QED BY <2>1, PieceFacts, Zenon
<1>11. p6 = <<>> \/ p6 = <<"operations">>
  BY Zenon DEF Unless
<1>12. Len(p6) = 0 \/ Len(p6) = 1
  BY <1>11
<1> HIDE DEF p6
<1>13. /\ q5 \o p6 \in Seq(Components) /\ Len(q5 \o p6) = Len(q5) + Len(p6)
       /\ \A i \in 1 .. Len(q5) + Len(p6) :
             (q5 \o p6)[i] = IF i <= Len(q5) THEN q5[i] ELSE p6[i - Len(q5)]
       /\ Len(q5) \in Nat
  BY <1>9, <1>10, ConcatProperties, LenProperties
<1>14. \A i \in 1 .. Len(q5) : q5[i] # "operations"
  <2>1. "operations" \notin F
    BY DEF F
  <2> QED BY <1>6, <2>1
<1>15. ASSUME NEW i \in 1 .. Len(q5 \o p6), (q5 \o p6)[i] = "operations"
       PROVE  i = Len(q5 \o p6)
  <2>1. ~(i <= Len(q5))
    BY <1>13, <1>14, <1>15
  <2> QED BY SMTT(30), <1>12, <1>13, <2>1
<1>16. \A c : In(q5, c) \/ In(p6, c) => In(q5 \o p6, c)
  BY <1>9, <1>10, InJoined
<1> QED BY <1>7, <1>8, <1>10, <1>13, <1>15, <1>16, Zenon

-----------------------------------------------------------------------------
(* What a step of a tunnel's runtime changes. *)

TunnelEffect(t) ==
  /\ Alive /\ t \in cfg.tunnels
  /\ UNCHANGED <<cfg, procVars, streak, rd>>
  /\ \A u \in Tunnels \ {t} : state'[u] = state[u] /\ run'[u] = run[u] /\ reach'[u] = reach[u]
  /\ reach'[t] = reach[t] \/ reach'[t] = "pending"
  /\ state[t] \in Sticky => state'[t] \in Sticky
  /\ \/ run'[t] = run[t] /\ comp' = comp
     \/ run[t] \notin Ended /\ run'[t] \notin Ended /\ comp' = comp
     \/ /\ run[t] \notin Ended /\ run'[t] \in Ended /\ state'[t] = "stopped"
        /\ comp' = IF cfg.multi THEN comp ELSE [comp EXCEPT !["runtime"] = run'[t]]
        /\ run'[t] = "ok" => (~cfg.multi => signal)

\* A store that loses against Draining or Stopped changes nothing.
LEMMA CommitFacts ==
  ASSUME NEW old, NEW new \in ConnectionStates
  PROVE  /\ old \in Sticky => Commit(old, new) \in Sticky
         /\ old \in ConnectionStates => Commit(old, new) \in ConnectionStates
  BY Zenon DEF Commit

\* A store of a tunnel's state touches that tunnel alone and never revives it.
LEMMA SetRuntimeFacts ==
  ASSUME TunType, NEW t \in Tunnels, NEW s \in ConnectionStates, SetRuntimeState(t, s)
  PROVE  /\ state' \in [Tunnels -> ConnectionStates]
         /\ store' \in [Tunnels -> ConnectionStates \cup {"none"}]
         /\ reach' \in [Tunnels -> ReachStates]
         /\ streak' = streak
         /\ \A u \in Tunnels \ {t} : state'[u] = state[u] /\ reach'[u] = reach[u]
         /\ reach'[t] = reach[t] \/ reach'[t] = "pending"
         /\ state[t] \in Sticky => state'[t] \in Sticky
<1>0. /\ state \in [Tunnels -> ConnectionStates] /\ reach \in [Tunnels -> ReachStates]
      /\ store \in [Tunnels -> ConnectionStates \cup {"none"}]
  BY DEF TunType
<1>1. reach' = [reach EXCEPT ![t] = IF cfg.probe = "monitored" THEN "pending" ELSE @]
      /\ streak' = streak
  BY DEF SetRuntimeState
<1>2. /\ reach' \in [Tunnels -> ReachStates] /\ \A u \in Tunnels \ {t} : reach'[u] = reach[u]
      /\ reach'[t] = reach[t] \/ reach'[t] = "pending"
  BY <1>0, <1>1 DEF ReachStates
<1>3. CASE cfg.multi
  <2>1. store' = [store EXCEPT ![t] = s] /\ state' = state
    BY Zenon, <1>3 DEF SetRuntimeState
  <2> QED BY <1>0, <1>1, <1>2, <2>1
<1>4. CASE ~cfg.multi
  <2>1. state' = [state EXCEPT ![t] = Commit(state[t], s)] /\ store' = store
    BY <1>4 DEF SetRuntimeState
  <2>2. Commit(state[t], s) \in ConnectionStates /\ (state[t] \in Sticky => Commit(state[t], s) \in Sticky)
    BY <1>0, CommitFacts
  <2> QED BY <1>0, <1>1, <1>2, <2>1, <2>2
<1> QED BY <1>3, <1>4

\* The runtime of a tunnel returns.
LEMMA FinishFacts ==
  ASSUME TunType, NEW t \in Tunnels, NEW r \in Ended, Finish(t, r), run[t] \notin Ended,
         Alive, t \in cfg.tunnels, UNCHANGED <<cfg, procVars, rd>>,
         r = "ok" => (~cfg.multi => signal)
  PROVE  TunType' /\ TunnelEffect(t)
<1>0. /\ state \in [Tunnels -> ConnectionStates] /\ run \in [Tunnels -> RunStates]
      /\ UNCHANGED <<store, reach, streak>>
  BY DEF TunType, Finish
<1>1. /\ state' = [state EXCEPT ![t] = "stopped"] /\ run' = [run EXCEPT ![t] = r]
      /\ comp' = IF cfg.multi THEN comp ELSE [comp EXCEPT !["runtime"] = r]
  BY DEF Finish
<1>2. "stopped" \in Sticky /\ "stopped" \in ConnectionStates /\ r \in RunStates
  BY DEF Sticky, ConnectionStates, RunStates
<1>3. /\ state' \in [Tunnels -> ConnectionStates] /\ run' \in [Tunnels -> RunStates]
      /\ state'[t] = "stopped" /\ run'[t] = r
      /\ \A u \in Tunnels \ {t} : state'[u] = state[u] /\ run'[u] = run[u]
  BY <1>0, <1>1, <1>2
<1>4. TunType'
  BY <1>0, <1>3, Zenon DEF TunType
<1>5. TunnelEffect(t)
  BY <1>0, <1>1, <1>2, <1>3, Zenon DEF TunnelEffect
<1> QED BY <1>4, <1>5

\* Every step of a tunnel's runtime has such an effect.
LEMMA TunnelEffects ==
  ASSUME TunType, NEW t \in Tunnels, TunnelStep(t), cfg.multi \in BOOLEAN
  PROVE  TunType' /\ TunnelEffect(t)
<1>0. /\ state \in [Tunnels -> ConnectionStates] /\ run \in [Tunnels -> RunStates]
      /\ store \in [Tunnels -> ConnectionStates \cup {"none"}]
  BY DEF TunType
<1>a. TunnelPolled(t) => Alive /\ t \in cfg.tunnels
  BY Zenon DEF TunnelPolled, Polled, Alive
<1>b. /\ "ok" \in Ended /\ "err" \in Ended
      /\ {"top", "connecting", "session", "backoff"} \subseteq RunStates \ Ended
      /\ {"connecting", "connected", "backoff"} \subseteq ConnectionStates
  BY DEF Ended, RunStates, ConnectionStates
<1>1. CASE CommitState(t)
  <2>1. /\ state' = [state EXCEPT ![t] = Commit(state[t], store[t])]
        /\ store' = [store EXCEPT ![t] = "none"] /\ store[t] # "none"
        /\ UNCHANGED <<cfg, procVars, comp, reach, streak, run, rd>> /\ TunnelPolled(t)
    BY <1>1 DEF CommitState
  <2>2. store[t] \in ConnectionStates
    BY <1>0, <2>1
  <2>3. /\ Commit(state[t], store[t]) \in ConnectionStates
        /\ state[t] \in Sticky => Commit(state[t], store[t]) \in Sticky
    BY <1>0, <2>2, CommitFacts
  <2>4. /\ state' \in [Tunnels -> ConnectionStates]
        /\ store' \in [Tunnels -> ConnectionStates \cup {"none"}]
        /\ \A u \in Tunnels \ {t} : state'[u] = state[u]
        /\ state[t] \in Sticky => state'[t] \in Sticky
    BY <1>0, <2>1, <2>3
  <2>5. TunType'
    BY <2>1, <2>4, Zenon DEF TunType
  <2>6. TunnelEffect(t)
    BY <1>a, <2>1, <2>4, Zenon DEF TunnelEffect
  <2> QED BY <2>5, <2>6
<1>2. ASSUME NEW s \in {"connecting", "backoff"}, SetRuntimeState(t, s), TunnelPolled(t),
             run[t] \notin Ended, run' = [run EXCEPT ![t] = s],
             UNCHANGED <<cfg, procVars, comp, rd>>
      PROVE  TunType' /\ TunnelEffect(t)
  <2>1. s \in ConnectionStates /\ s \in RunStates \ Ended
    BY <1>b
  <2>2. /\ run' \in [Tunnels -> RunStates] /\ run'[t] = s
        /\ \A u \in Tunnels \ {t} : run'[u] = run[u]
    BY <1>0, <1>2, <2>1
  <2>3. /\ state' \in [Tunnels -> ConnectionStates]
        /\ store' \in [Tunnels -> ConnectionStates \cup {"none"}]
        /\ reach' \in [Tunnels -> ReachStates]
        /\ streak' = streak
        /\ \A u \in Tunnels \ {t} : state'[u] = state[u] /\ reach'[u] = reach[u]
        /\ reach'[t] = reach[t] \/ reach'[t] = "pending"
        /\ state[t] \in Sticky => state'[t] \in Sticky
    BY <1>2, <2>1, SetRuntimeFacts, Zenon
  <2>4. TunType'
    BY <2>2, <2>3, Zenon DEF TunType
  <2>5. TunnelEffect(t)
    BY <1>2, <1>a, <2>1, <2>2, <2>3, Zenon DEF TunnelEffect
  <2> QED BY <2>4, <2>5
<1>3. CASE Attempt(t)
  <2>1. run[t] \notin Ended
    BY <1>3 DEF Attempt, Ended
  <2> QED BY <1>2, <1>3, <2>1, Zenon DEF Attempt
<1>4. CASE Established(t)
  <2>1. /\ state' = [state EXCEPT ![t] = Commit(state[t], "connected")]
        /\ run' = [run EXCEPT ![t] = "session"] /\ run[t] = "connecting"
        /\ UNCHANGED <<cfg, procVars, comp, store, reach, streak, rd>> /\ TunnelPolled(t)
    BY <1>4 DEF Established
  <2>2. /\ Commit(state[t], "connected") \in ConnectionStates
        /\ state[t] \in Sticky => Commit(state[t], "connected") \in Sticky
    BY <1>0, <1>b, CommitFacts
  <2>3. /\ state' \in [Tunnels -> ConnectionStates] /\ run' \in [Tunnels -> RunStates]
        /\ \A u \in Tunnels \ {t} : state'[u] = state[u] /\ run'[u] = run[u]
        /\ state[t] \in Sticky => state'[t] \in Sticky
        /\ run'[t] = "session" /\ run[t] \notin Ended /\ run'[t] \notin Ended
    BY <1>0, <1>b, <2>1, <2>2
  <2>4. TunType'
    BY <2>1, <2>3, Zenon DEF TunType
  <2>5. TunnelEffect(t)
    BY <1>a, <2>1, <2>3, Zenon DEF TunnelEffect
  <2> QED BY <2>4, <2>5
<1>5. CanLose(t) => run[t] \notin Ended /\ TunnelPolled(t)
  BY DEF CanLose, Ended
<1>6. CASE Terminal(t)
  <2>1. "err" # "ok" OBVIOUS
  <2> QED BY <1>5, <1>6, <1>a, <1>b, <2>1, FinishFacts, Zenon DEF Terminal
<1>7. ASSUME NEW stable \in BOOLEAN, Lost(t, stable) PROVE TunType' /\ TunnelEffect(t)
  <2>1. CASE retry_exhausted(fails'[t])
    <3>1. "err" # "ok" OBVIOUS
    <3> QED BY <1>5, <1>7, <1>a, <1>b, <2>1, <3>1, FinishFacts, Zenon DEF Lost
  <2>2. CASE ~retry_exhausted(fails'[t])
    BY <1>2, <1>5, <1>7, <2>2, Zenon DEF Lost
  <2> QED BY <2>1, <2>2
<1>8. CASE wait_for_retry(t)
  <2>1. /\ run' = [run EXCEPT ![t] = "top"] /\ run[t] = "backoff"
        /\ UNCHANGED <<cfg, procVars, comp, state, store, reach, streak, rd>> /\ TunnelPolled(t)
    BY <1>8 DEF wait_for_retry
  <2>2. /\ run' \in [Tunnels -> RunStates] /\ run'[t] \notin Ended /\ run[t] \notin Ended
        /\ \A u \in Tunnels \ {t} : run'[u] = run[u]
    BY <1>0, <1>b, <2>1
  <2>3. TunType'
    BY <2>1, <2>2, Zenon DEF TunType
  <2>4. TunnelEffect(t)
    BY <1>a, <2>1, <2>2, Zenon DEF TunnelEffect
  <2> QED BY <2>3, <2>4
<1>9. CASE ObserveStop(t)
  BY <1>9, <1>a, <1>b, FinishFacts, Zenon DEF ObserveStop, Stop
<1> QED BY <1>1, <1>3, <1>4, <1>6, <1>7, <1>8, <1>9, Zenon DEF TunnelStep

-----------------------------------------------------------------------------
(* What a step of a readiness task changes. *)

ReadinessEffect(t) ==
  /\ Alive /\ comp["readiness"] = "run"
  /\ UNCHANGED <<cfg, procVars, state, run>>
  /\ rd' \in [Tunnels -> ReadinessStates]
  /\ \A u \in Tunnels \ {t} : rd'[u] = rd[u]
  /\ rd'[t] = "ok" => signal
  /\ comp' = comp \/ (rd'[t] \in Ended /\ comp' = [comp EXCEPT !["readiness"] = rd'[t]])

\* A move of a readiness task has such an effect.
LEMMA MovesFacts ==
  ASSUME rd \in [Tunnels -> ReadinessStates], NEW t \in Tunnels, NEW at \in ReadinessStates,
         ReadinessPolled(t), ReadinessMoves(t, at), UNCHANGED <<cfg, procVars, state, run>>,
         at = "ok" => signal
  PROVE  ReadinessEffect(t)
<1>1. rd' = [rd EXCEPT ![t] = at]
      /\ comp' = IF ~cfg.multi /\ at \in Ended THEN [comp EXCEPT !["readiness"] = at] ELSE comp
  BY DEF ReadinessMoves
<1>2. rd' \in [Tunnels -> ReadinessStates] /\ rd'[t] = at /\ \A u \in Tunnels \ {t} : rd'[u] = rd[u]
  BY <1>1
<1>3. Alive /\ comp["readiness"] = "run"
  BY Zenon DEF ReadinessPolled, Polled, Alive
<1> QED BY <1>1, <1>2, <1>3, Zenon DEF ReadinessEffect

\* A probe's result moves the reachability word and the streak together.
LEMMA RecordFacts ==
  ASSUME TunType, ReachabilityMatchesStreak, NEW t \in Tunnels,
         NEW w \in ReachStates, NEW n \in 0 .. FailureThreshold,
         reach' = [reach EXCEPT ![t] = w], streak' = [streak EXCEPT ![t] = n],
         UNCHANGED <<state, store, run>>,
         w = "healthy" => n = 0,
         w = "degraded" => n > 0 /\ n < FailureThreshold,
         w = "unhealthy" => n = FailureThreshold
  PROVE  TunType' /\ ReachabilityMatchesStreak'
<1>1. reach \in [Tunnels -> ReachStates] /\ streak \in [Tunnels -> 0 .. FailureThreshold]
  BY DEF TunType
<1>2. /\ reach' \in [Tunnels -> ReachStates] /\ streak' \in [Tunnels -> 0 .. FailureThreshold]
      /\ reach'[t] = w /\ streak'[t] = n
      /\ \A u \in Tunnels \ {t} : reach'[u] = reach[u] /\ streak'[u] = streak[u]
  BY <1>1
<1>3. TunType'
  BY <1>2, Zenon DEF TunType
<1>4. ASSUME NEW u \in Tunnels
      PROVE  /\ reach'[u] = "healthy" => streak'[u] = 0
             /\ reach'[u] = "degraded" => streak'[u] > 0 /\ streak'[u] < FailureThreshold
             /\ reach'[u] = "unhealthy" => streak'[u] = FailureThreshold
  <2>1. CASE u = t
    BY <1>2, <2>1
  <2>2. CASE u # t
    BY <1>2, <2>2, Zenon DEF ReachabilityMatchesStreak
  <2> QED BY <2>1, <2>2
<1> QED BY <1>3, <1>4, Zenon DEF ReachabilityMatchesStreak

\* Every step of a readiness task has such an effect.
LEMMA ReadinessEffects ==
  ASSUME TunType, ReachabilityMatchesStreak, rd \in [Tunnels -> ReadinessStates],
         NEW t \in Tunnels, ReadinessStep(t)
  PROVE  TunType' /\ ReachabilityMatchesStreak' /\ ReadinessEffect(t)
<1>0. /\ {"wait", "verify", "sleep", "probe", "err", "ok"} \subseteq ReadinessStates
      /\ {"healthy", "degraded", "unhealthy"} \subseteq ReachStates
  BY DEF ReadinessStates, ReachStates, Ended
<1>a. FailureThreshold \in Nat \ {0} /\ streak[t] \in 0 .. FailureThreshold
  BY LimitsAssumption DEF TunType
<1>1. ASSUME UNCHANGED tunVars, NEW at \in ReadinessStates, ReadinessPolled(t),
             ReadinessMoves(t, at), UNCHANGED <<cfg, procVars>>, at = "ok" => signal
      PROVE  TunType' /\ ReachabilityMatchesStreak' /\ ReadinessEffect(t)
  <2>1. UNCHANGED <<state, store, reach, streak, run>>
    BY <1>1 DEF tunVars
  <2>2. ReadinessEffect(t)
    BY <1>1, <2>1, MovesFacts, Zenon
  <2>3. TunType' /\ ReachabilityMatchesStreak'
    BY <2>1, Zenon DEF TunType, ReachabilityMatchesStreak
  <2> QED BY <2>2, <2>3
<1>2. ASSUME RecordSuccess(t), NEW at \in {"wait", "sleep"}, ReadinessPolled(t),
             ReadinessMoves(t, at), UNCHANGED <<cfg, procVars, state, store, run>>
      PROVE  TunType' /\ ReachabilityMatchesStreak' /\ ReadinessEffect(t)
  <2>1. at \in ReadinessStates /\ at # "ok"
    BY <1>0
  <2>2. ReadinessEffect(t)
    BY <1>2, <2>1, MovesFacts, Zenon
  <2>3. 0 \in 0 .. FailureThreshold /\ "healthy" \in ReachStates
    BY <1>0, <1>a
  <2>4. TunType' /\ ReachabilityMatchesStreak'
    <3>1. reach' = [reach EXCEPT ![t] = "healthy"] /\ streak' = [streak EXCEPT ![t] = 0]
      BY <1>2 DEF RecordSuccess
    <3> QED BY <1>2, <2>3, <3>1, RecordFacts, Zenon
  <2> QED BY <2>2, <2>4
<1>3. CASE TransportSeen(t)
  <2> DEFINE at == IF cfg.probe = "off" THEN "wait" ELSE "verify"
  <2>1. at \in ReadinessStates /\ at # "ok"
    BY <1>0
  <2>2. ReadinessPolled(t) /\ ReadinessMoves(t, at) /\ UNCHANGED <<cfg, procVars, tunVars>>
    BY <1>3 DEF TransportSeen
  <2> HIDE DEF at
  <2> QED BY <1>1, <2>1, <2>2, Zenon
<1>4. CASE Verified(t)
  <2> DEFINE at == IF cfg.probe = "monitored" THEN "sleep" ELSE "wait"
  <2>1. at \in {"wait", "sleep"}
    OBVIOUS
  <2>2. /\ ReadinessPolled(t) /\ ReadinessMoves(t, at) /\ RecordSuccess(t)
        /\ UNCHANGED <<cfg, procVars, state, store, run>>
    BY <1>4 DEF Verified
  <2> HIDE DEF at
  <2> QED BY <1>2, <2>1, <2>2, Zenon
<1>5. CASE VerifyTimeout(t)
  BY <1>0, <1>1, <1>5 DEF VerifyTimeout
<1>6. CASE ProbeStart(t)
  BY <1>0, <1>1, <1>6 DEF ProbeStart
<1>7. CASE ProbeSucceeds(t)
  BY <1>2, <1>7 DEF ProbeSucceeds
<1>8. CASE ProbeFails(t)
  <2> DEFINE n == streak[t] + 1
             m == IF n > FailureThreshold THEN streak[t] ELSE n
             w == MonitorState(n)
  <2>1. /\ ReadinessPolled(t) /\ ReadinessMoves(t, "sleep") /\ UNCHANGED <<cfg, procVars, state, store, run>>
        /\ streak' = [streak EXCEPT ![t] = m] /\ reach' = [reach EXCEPT ![t] = w]
    BY <1>8 DEF ProbeFails
  <2>2. "sleep" \in ReadinessStates /\ "sleep" # "ok"
    BY <1>0
  <2>3. ReadinessEffect(t)
    BY <2>1, <2>2, MovesFacts, Zenon
  <2>4. /\ m \in 0 .. FailureThreshold /\ w \in ReachStates
        /\ w = "healthy" => m = 0
        /\ w = "degraded" => m > 0 /\ m < FailureThreshold
        /\ w = "unhealthy" => m = FailureThreshold
    BY <1>0, <1>a DEF MonitorState
  <2> HIDE DEF m, w
  <2>5. TunType' /\ ReachabilityMatchesStreak'
    BY <2>1, <2>4, RecordFacts, Zenon
  <2> QED BY <2>3, <2>5
<1>9. CASE ReadinessStop(t)
  <2> DEFINE at == IF rd[t] \in {"poll", "verify"} THEN "err" ELSE "ok"
  <2>1. at \in ReadinessStates
    BY <1>0
  <2>2. ReadinessPolled(t) /\ ReadinessMoves(t, at) /\ signal /\ UNCHANGED <<cfg, procVars, tunVars>>
    BY <1>9 DEF ReadinessStop
  <2> HIDE DEF at
  <2> QED BY <1>1, <2>1, <2>2, Zenon
<1> QED BY <1>3, <1>4, <1>5, <1>6, <1>7, <1>8, <1>9, Zenon DEF ReadinessStep

-----------------------------------------------------------------------------
(* What a step of another future changes. *)

\* The steps of the other futures of main and of those that join the tasks.
CompEffect ==
  /\ Alive
  /\ UNCHANGED <<cfg, main, step, alloc, code, branch, awaiting, signal, opsSignal, tunVars, rd>>
  /\ osOk' \in BOOLEAN
  /\ comp' \in [Components -> CompStates]
  /\ \A c \in Components : comp[c] \in Ended => comp'[c] = comp[c]
  /\ \A c \in Components \ {"os"} : comp'[c] \in {"ok", "joining"} => comp'[c] = comp[c] \/ signal
  /\ \/ comp'["runtime"] = comp["runtime"]
     \/ cfg.multi /\ (comp'["runtime"] \in Ended => \A t \in cfg.tunnels : run[t] \in Ended)

\* One future moves from where it had not ended.
LEMMA CompMoves ==
  ASSUME ProcType, NEW c \in Components, NEW v \in CompStates, comp[c] \notin Ended,
         comp' = [comp EXCEPT ![c] = v], Polled(c) \/ main = "select", osOk' \in BOOLEAN,
         UNCHANGED <<cfg, main, step, alloc, code, branch, awaiting, signal, opsSignal, tunVars, rd>>,
         v \in {"ok", "joining"} => c = "os" \/ signal,
         c = "runtime" => /\ cfg.multi
                          /\ v \in Ended => \A t \in cfg.tunnels : run[t] \in Ended
  PROVE  CompEffect
<1>1. comp \in [Components -> CompStates] /\ "runtime" \in Components
  BY Zenon DEF ProcType, Components
<1>2. /\ comp' \in [Components -> CompStates] /\ comp'[c] = v
      /\ \A d \in Components \ {c} : comp'[d] = comp[d]
  BY <1>1
<1>3. Alive
  BY Zenon DEF Alive, Polled
<1> QED BY <1>1, <1>2, <1>3, Zenon DEF CompEffect

\* Every step of the other futures has such an effect.
LEMMA CompEffects ==
  ASSUME ProcType, RuntimeInv, SignalInv,
         \/ ReadinessJoined \/ SupervisorStops \/ SupervisorJoined
         \/ \E c \in Components : ComponentFails(c) \/ ComponentStops(c)
         \/ \E r \in {"ok", "err"} : OsSignal(r)
  PROVE  CompEffect
<1>0. /\ comp \in [Components -> CompStates] /\ {"readiness", "runtime", "os", "operations"} \subseteq Components
      /\ Ended \subseteq CompStates /\ "run" \notin Ended /\ osOk \in BOOLEAN
      /\ {"ok", "err", "forced"} = Ended /\ rd \in [Tunnels -> ReadinessStates]
      /\ cfg \in Configs /\ signal \in BOOLEAN
  BY DEF ProcType, Components, CompStates, Ended
<1>a. cfg.tunnels \subseteq Tunnels /\ cfg.tunnels # {}
  BY <1>0, ConfigFacts
<1>b. UNCHANGED procVars => UNCHANGED <<main, step, alloc, code, branch, awaiting, osOk, signal, opsSignal>>
  BY DEF procVars
<1>1. CASE ReadinessJoined
  <2>1. /\ Polled("readiness") /\ comp["readiness"] = "run" /\ UNCHANGED <<cfg, procVars, tunVars, rd>>
    BY ZenonT(40), <1>1 DEF ReadinessJoined
  <2>2. CASE signal
    BY Zenon, <1>0, <1>1, <1>b, <2>1, <2>2, CompMoves DEF ReadinessJoined
  <2>3. CASE ~signal
    <3>1. PICK t \in cfg.tunnels : rd[t] \in Ended /\ comp' = [comp EXCEPT !["readiness"] = rd[t]]
      BY <1>1, <2>3, Zenon DEF ReadinessJoined
    <3>2. rd[t] # "ok" /\ rd[t] # "joining"
      BY <1>0, <1>a, <2>3, <3>1 DEF SignalInv
    <3> QED BY <1>0, <1>b, <2>1, <3>1, <3>2, CompMoves, Zenon
  <2> QED BY Zenon, <2>2, <2>3
<1>2. CASE SupervisorStops
  <2>1. /\ cfg.multi /\ Polled("runtime") /\ comp["runtime"] = "run" /\ UNCHANGED <<cfg, procVars, tunVars, rd>>
    BY <1>2 DEF SupervisorStops
  <2>2. {"joining", "joiningErr"} \subseteq CompStates \ Ended
    BY DEF CompStates, Ended
  <2>3. CASE signal /\ comp' = [comp EXCEPT !["runtime"] = "joining"]
    BY <1>0, <1>b, <2>1, <2>2, <2>3, CompMoves, Zenon
  <2>4. CASE comp' = [comp EXCEPT !["runtime"] = "joiningErr"]
    BY <1>0, <1>b, <2>1, <2>2, <2>4, CompMoves, Zenon
  <2> QED BY <1>2, <2>3, <2>4, Zenon DEF SupervisorStops
<1>3. CASE SupervisorJoined
  <2>1. /\ Polled("runtime") /\ comp["runtime"] \in {"joining", "joiningErr"}
        /\ \A t \in cfg.tunnels : run[t] \in Ended
        /\ UNCHANGED <<cfg, procVars, tunVars, rd>>
        /\ comp' = [comp EXCEPT !["runtime"] = IF comp["runtime"] = "joining" THEN "ok" ELSE "err"]
    BY <1>3 DEF SupervisorJoined
  <2>2. comp["runtime"] \notin Ended
    BY <2>1 DEF Ended
  <2>3. cfg.multi
    <3> SUFFICES ASSUME ~cfg.multi PROVE FALSE
      OBVIOUS
    <3>1. PICK t \in cfg.tunnels : TRUE
      BY <1>a
    <3>2. comp["runtime"] \in Ended
      BY <2>1, <3>1, Zenon DEF RuntimeInv
    <3> QED BY <2>2, <3>2
  <2>4. comp["runtime"] = "joining" => signal
    BY <1>0, Zenon DEF SignalInv
  <2> DEFINE v == IF comp["runtime"] = "joining" THEN "ok" ELSE "err"
  <2>5. v \in CompStates /\ (v \in {"ok", "joining"} => signal)
    BY <1>0, <2>4
  <2>6. comp' = [comp EXCEPT !["runtime"] = v]
    BY <2>1
  <2> HIDE DEF v
  <2> QED BY <1>0, <1>b, <2>1, <2>2, <2>3, <2>5, <2>6, CompMoves, Zenon
<1>4. ASSUME NEW c \in Components, ComponentFails(c) PROVE CompEffect
  <2>1. /\ c # "runtime" /\ Polled(c) /\ comp[c] = "run" /\ comp' = [comp EXCEPT ![c] = "err"]
        /\ UNCHANGED <<cfg, procVars, tunVars, rd>>
    BY <1>4 DEF ComponentFails
  <2>2. "err" \in CompStates /\ "err" \notin {"ok", "joining"}
    BY <1>0
  <2> QED BY <1>0, <1>b, <2>1, <2>2, CompMoves, Zenon
<1>5. ASSUME NEW c \in Components, ComponentStops(c) PROVE CompEffect
  <2>1. Polled(c) /\ comp[c] = "run" /\ UNCHANGED <<cfg, procVars, tunVars, rd>>
    BY <1>5 DEF ComponentStops
  <2>2. PICK v \in Ended : signal /\ c # "runtime" /\ comp' = [comp EXCEPT ![c] = v]
    <3>1. CASE c \in {"reload", "enrollment", "tunnelReload"} /\ signal /\ comp' = [comp EXCEPT ![c] = "ok"]
      BY <1>0, <3>1, Zenon
    <3>2. CASE c = "operations" /\ opsSignal /\ \E r \in {"ok", "forced"} : comp' = [comp EXCEPT ![c] = r]
      <4>1. signal
        BY <3>2 DEF SignalInv
      <4> QED BY <1>0, <3>2, <4>1, Zenon
    <3> QED BY <1>5, <3>1, <3>2, Zenon DEF ComponentStops
  <2>3. v \in CompStates
    BY <1>0
  <2> QED BY <1>0, <1>b, <2>1, <2>2, <2>3, CompMoves, Zenon
<1>6. ASSUME NEW r \in {"ok", "err"}, OsSignal(r) PROVE CompEffect
  <2>1. /\ main = "select" /\ comp["os"] = "run" /\ comp' = [comp EXCEPT !["os"] = r]
        /\ osOk' = (r = "ok")
        /\ UNCHANGED <<cfg, main, step, alloc, code, branch, awaiting, signal, opsSignal, tunVars, rd>>
    BY <1>6 DEF OsSignal
  <2>2. osOk' \in BOOLEAN /\ r \in CompStates /\ "os" # "runtime"
    BY <1>0, <2>1
  <2> QED BY <1>0, <2>1, <2>2, CompMoves, Zenon
<1> QED BY <1>1, <1>2, <1>3, <1>4, <1>5, <1>6, Zenon

-----------------------------------------------------------------------------
(* The steps of the futures keep the invariant. *)

EndedKept == \A c \in Components : comp[c] \in Ended => comp'[c] = comp[c]
StickyKept == \A t \in Tunnels : state[t] \in Sticky => state'[t] \in Sticky

\* While the process runs, what has ended and what is draining stays so.
LEMMA AliveKeeps ==
  ASSUME ProcInv, Alive, EndedKept, StickyKept,
         UNCHANGED <<cfg, main, step, alloc, code, branch, awaiting, signal, opsSignal>>
  PROVE  /\ StartInv' /\ AwaitInv' /\ OperationsStopLast' /\ SuccessOnlyOnRequest'
         /\ ConfigErrorMutatesNothing'
<1>1. main # "startup" /\ main # "exited" /\ main' = main
  BY DEF Alive
<1>2. StartInv' /\ SuccessOnlyOnRequest' /\ ConfigErrorMutatesNothing'
  BY <1>1, Zenon DEF StartInv, SuccessOnlyOnRequest, ConfigErrorMutatesNothing
<1>3. /\ Futures' = Futures /\ Futures \subseteq Components /\ SelectBranches \subseteq Components
      /\ "operations" \in Components
  BY DEF Futures, Components, SelectBranches
<1>4. OperationsStopLast'
  BY <1>3, Zenon DEF ProcInv, OperationsStopLast, EndedKept
<1>5. cfg.tunnels \subseteq Tunnels
  BY Zenon, ConfigFacts DEF ProcInv, ProcType
<1>6. ASSUME main = "await"
      PROVE  /\ signal /\ branch \in SelectBranches /\ comp'[branch] \in Ended
             /\ branch # "os" => comp'[branch] # "ok"
             /\ \A t \in cfg.tunnels : state'[t] \in Sticky
             /\ \A c \in Futures \cup {"operations"} : comp'[c] \in Ended \/ In(awaiting, c)
             /\ \A i \in 1 .. Len(awaiting) : awaiting[i] = "operations" => i = Len(awaiting)
  <2>1. AwaitInv
    BY DEF ProcInv
  <2>2. branch \in Components
    BY <1>3, <1>6, <2>1, Zenon DEF AwaitInv
  <2>3. ASSUME NEW c \in Futures \cup {"operations"} PROVE comp'[c] \in Ended \/ In(awaiting, c)
    BY <1>3, <1>6, <2>1, <2>3, Zenon DEF AwaitInv, EndedKept
  <2>4. ASSUME NEW t \in cfg.tunnels PROVE state'[t] \in Sticky
    BY <1>5, <1>6, <2>1, Zenon DEF AwaitInv, StickyKept
  <2> QED BY <1>6, <2>1, <2>2, <2>3, <2>4, Zenon DEF AwaitInv, EndedKept
<1>7. AwaitInv'
  BY <1>1, <1>3, <1>6, Zenon DEF AwaitInv
<1> QED BY <1>2, <1>4, <1>7

\* A step of a tunnel's runtime.
LEMMA TunnelKeeps ==
  ASSUME ProcInv, NEW t \in Tunnels, TunnelStep(t)
  PROVE  ProcInv' /\ StickyKept
<1>0. ProcType /\ TunType /\ RuntimeInv /\ SignalInv /\ ReachabilityMatchesStreak
  BY DEF ProcInv
<1>a. /\ cfg.multi \in BOOLEAN /\ cfg.tunnels \subseteq Tunnels
      /\ ~cfg.multi => \A u, v \in cfg.tunnels : u = v
  BY <1>0, ConfigFacts DEF ProcType
<1>1. TunType' /\ TunnelEffect(t)
  BY <1>0, <1>a, TunnelEffects, Zenon
<1>2. /\ Alive /\ t \in cfg.tunnels
      /\ UNCHANGED <<cfg, main, step, alloc, code, branch, awaiting, osOk, signal, opsSignal, streak, rd>>
      /\ \A u \in Tunnels \ {t} : state'[u] = state[u] /\ run'[u] = run[u] /\ reach'[u] = reach[u]
      /\ reach'[t] = reach[t] \/ reach'[t] = "pending"
      /\ state[t] \in Sticky => state'[t] \in Sticky
  BY <1>1, Zenon DEF TunnelEffect, procVars
<1>3. \/ run'[t] = run[t] /\ comp' = comp
      \/ run[t] \notin Ended /\ run'[t] \notin Ended /\ comp' = comp
      \/ /\ run[t] \notin Ended /\ run'[t] \in Ended /\ state'[t] = "stopped"
         /\ comp' = IF cfg.multi THEN comp ELSE [comp EXCEPT !["runtime"] = run'[t]]
         /\ run'[t] = "ok" => (~cfg.multi => signal)
  BY Zenon, <1>1 DEF TunnelEffect
<1>b. /\ comp \in [Components -> CompStates] /\ "runtime" \in Components /\ Ended \subseteq CompStates
      /\ "run" \notin Ended /\ "joining" \notin Ended /\ "stopped" \in Sticky
  BY <1>0 DEF ProcType, Components, CompStates, Ended, Sticky
<1>4. comp' = comp
      \/ /\ ~cfg.multi /\ comp["runtime"] = "run" /\ comp' = [comp EXCEPT !["runtime"] = run'[t]]
         /\ run'[t] \in Ended /\ (run'[t] = "ok" => signal)
  BY <1>0, <1>2, <1>3, <1>a, Zenon DEF RuntimeInv
<1>5. /\ comp' \in [Components -> CompStates]
      /\ \A c \in Components \ {"runtime"} : comp'[c] = comp[c]
      /\ comp'["runtime"] = comp["runtime"] \/ (comp["runtime"] = "run" /\ comp'["runtime"] = run'[t])
  BY <1>4, <1>b
<1>6. EndedKept
  BY <1>5, <1>b, Zenon DEF EndedKept
<1>7. StickyKept
  BY <1>2, Zenon DEF StickyKept
<1>8. ProcType'
  BY <1>0, <1>2, <1>5, Zenon DEF ProcType
<1>9. RuntimeInv'
  <2>1. ASSUME NEW u \in cfg.tunnels, run'[u] \in Ended PROVE state'[u] \in Sticky
    <3>1. CASE u = t
      BY <1>0, <1>2, <1>3, <1>b, <2>1, <3>1, Zenon DEF RuntimeInv
    <3>2. CASE u # t
      BY <1>0, <1>2, <1>a, <2>1, <3>2, Zenon DEF RuntimeInv
    <3> QED BY <3>1, <3>2
  <2>2. ASSUME ~cfg.multi, NEW u \in cfg.tunnels
        PROVE  comp'["runtime"] = IF run'[u] \in Ended THEN run'[u] ELSE "run"
    <3>1. u = t
      BY <1>2, <1>a, <2>2
    <3>2. comp["runtime"] = IF run[t] \in Ended THEN run[t] ELSE "run"
      BY <1>0, <1>2, <2>2, Zenon DEF RuntimeInv
    <3>3. comp' = [comp EXCEPT !["runtime"] = run'[t]] => comp'["runtime"] = run'[t]
      BY <1>b
    <3> QED BY <1>3, <2>2, <3>1, <3>2, <3>3, Zenon
  <2>3. ASSUME comp'["runtime"] \in Ended, NEW u \in cfg.tunnels PROVE run'[u] \in Ended
    <3>1. CASE ~cfg.multi
      BY <1>b, <2>2, <2>3, <3>1, Zenon
    <3>2. CASE cfg.multi
      <4>1. comp' = comp
        BY <1>4, <3>2
      <4>2. run[u] \in Ended /\ run[t] \in Ended
        BY <1>0, <1>2, <2>3, <4>1, Zenon DEF RuntimeInv
      <4> QED BY <1>2, <1>3, <1>a, <4>2, Zenon
    <3> QED BY <3>1, <3>2
  <2> QED BY <1>2, <2>1, <2>2, <2>3, Zenon DEF RuntimeInv
<1>10. SignalInv'
  <2>1. ASSUME ~signal, NEW c \in Components \ {"os"} PROVE comp'[c] \notin {"ok", "joining"}
    <3>1. comp[c] \notin {"ok", "joining"}
      BY <1>0, <2>1, Zenon DEF SignalInv
    <3>2. CASE comp' = comp
      BY <3>1, <3>2
    <3>3. CASE comp' # comp
      BY <1>4, <1>5, <1>b, <2>1, <3>1, <3>3, Zenon
    <3> QED BY <3>2, <3>3
  <2> QED BY <1>0, <1>2, <2>1, Zenon DEF SignalInv
<1>11. ReachabilityMatchesStreak'
  <2>1. "pending" \notin {"healthy", "degraded", "unhealthy"}
    OBVIOUS
  <2>2. ASSUME NEW u \in Tunnels
        PROVE  /\ reach'[u] = "healthy" => streak'[u] = 0
               /\ reach'[u] = "degraded" => streak'[u] > 0 /\ streak'[u] < FailureThreshold
               /\ reach'[u] = "unhealthy" => streak'[u] = FailureThreshold
    <3>1. reach'[u] = reach[u] \/ reach'[u] = "pending"
      BY <1>2, Zenon
    <3> QED BY <1>0, <1>2, <2>1, <3>1, Zenon DEF ReachabilityMatchesStreak
  <2> QED BY <2>2, Zenon DEF ReachabilityMatchesStreak
<1> QED BY <1>1, <1>2, <1>6, <1>7, <1>8, <1>9, <1>10, <1>11, AliveKeeps, Zenon DEF ProcInv

\* A step of a readiness task.
LEMMA ReadinessKeeps ==
  ASSUME ProcInv, NEW t \in Tunnels, ReadinessStep(t)
  PROVE  ProcInv' /\ StickyKept
<1>0. ProcType /\ TunType /\ RuntimeInv /\ SignalInv /\ ReachabilityMatchesStreak
  BY DEF ProcInv
<1>b. /\ comp \in [Components -> CompStates] /\ {"runtime", "readiness"} \subseteq Components
      /\ Ended \subseteq CompStates /\ rd \in [Tunnels -> ReadinessStates]
      /\ "run" \notin Ended /\ "joining" \notin Ended
  BY <1>0 DEF ProcType, Components, CompStates, Ended
<1>1. TunType' /\ ReachabilityMatchesStreak' /\ ReadinessEffect(t)
  BY <1>0, <1>b, ReadinessEffects, Zenon
<1>2. /\ Alive /\ comp["readiness"] = "run"
      /\ UNCHANGED <<cfg, main, step, alloc, code, branch, awaiting, osOk, signal, opsSignal, state, run>>
      /\ rd' \in [Tunnels -> ReadinessStates]
      /\ \A u \in Tunnels \ {t} : rd'[u] = rd[u]
      /\ rd'[t] = "ok" => signal
  BY <1>1, Zenon DEF ReadinessEffect, procVars
<1>3. comp' = comp \/ (rd'[t] \in Ended /\ comp' = [comp EXCEPT !["readiness"] = rd'[t]])
  BY <1>1 DEF ReadinessEffect
<1>4. /\ comp' \in [Components -> CompStates]
      /\ \A c \in Components \ {"readiness"} : comp'[c] = comp[c]
      /\ comp'["readiness"] = comp["readiness"]
         \/ (rd'[t] \in Ended /\ comp'["readiness"] = rd'[t])
  BY <1>3, <1>b
<1>5. EndedKept /\ StickyKept
  BY <1>2, <1>4, <1>b, Zenon DEF EndedKept, StickyKept
<1>6. ProcType'
  BY <1>0, <1>2, <1>4, Zenon DEF ProcType
<1>7. comp'["runtime"] = comp["runtime"]
  BY <1>4, <1>b
<1>8. RuntimeInv'
  BY <1>0, <1>2, <1>7, Zenon DEF RuntimeInv
<1>9. SignalInv'
  <2>1. ASSUME ~signal, NEW c \in Components \ {"os"} PROVE comp'[c] \notin {"ok", "joining"}
    <3>1. comp[c] \notin {"ok", "joining"}
      BY <1>0, <2>1, Zenon DEF SignalInv
    <3>2. CASE c = "readiness"
      BY <1>2, <1>4, <1>b, <2>1, <3>1, <3>2, Zenon
    <3>3. CASE c # "readiness"
      BY <1>4, <3>1, <3>3, Zenon
    <3> QED BY <3>2, <3>3
  <2>2. ASSUME ~signal, NEW u \in Tunnels PROVE rd'[u] # "ok"
    BY <1>0, <1>2, <2>2, Zenon DEF SignalInv
  <2> QED BY <1>0, <1>2, <2>1, <2>2, Zenon DEF SignalInv
<1> QED BY <1>1, <1>2, <1>5, <1>6, <1>8, <1>9, AliveKeeps, Zenon DEF ProcInv

\* A step of another future of main.
LEMMA CompKeeps ==
  ASSUME ProcInv, CompEffect
  PROVE  ProcInv' /\ StickyKept
<1>0. ProcType /\ TunType /\ RuntimeInv /\ SignalInv /\ ReachabilityMatchesStreak
  BY DEF ProcInv
<1>1. /\ Alive
      /\ UNCHANGED <<cfg, main, step, alloc, code, branch, awaiting, signal, opsSignal, rd,
                     state, store, reach, streak, run>>
      /\ osOk' \in BOOLEAN /\ comp' \in [Components -> CompStates]
      /\ EndedKept
  BY Zenon DEF CompEffect, tunVars, EndedKept
<1>2. TunType' /\ ReachabilityMatchesStreak' /\ ProcType' /\ StickyKept
  BY <1>0, <1>1, Zenon DEF TunType, ReachabilityMatchesStreak, ProcType, StickyKept
<1>3. RuntimeInv'
  <2>1. CASE comp'["runtime"] = comp["runtime"]
    BY <1>0, <1>1, <2>1, Zenon DEF RuntimeInv
  <2>2. CASE cfg.multi /\ (comp'["runtime"] \in Ended => \A t \in cfg.tunnels : run[t] \in Ended)
    BY <1>0, <1>1, <2>2, Zenon DEF RuntimeInv
  <2> QED BY <2>1, <2>2, Zenon DEF CompEffect
<1>4. SignalInv'
  <2>1. ASSUME ~signal, NEW c \in Components \ {"os"} PROVE comp'[c] \notin {"ok", "joining"}
    BY <1>0, <2>1, Zenon DEF SignalInv, CompEffect
  <2> QED BY <1>0, <1>1, <2>1, Zenon DEF SignalInv
<1> QED BY <1>1, <1>2, <1>3, <1>4, AliveKeeps, Zenon DEF ProcInv

\* What a step of main leaves alone.
LEMMA TunnelsAlone ==
  ASSUME ProcInv, UNCHANGED <<cfg, comp, rd, store, streak, run>>,
         state' \in [Tunnels -> ConnectionStates], StickyKept,
         reach' = reach \/ reach' = [t \in Tunnels |-> "pending"]
  PROVE  TunType' /\ RuntimeInv' /\ ReachabilityMatchesStreak'
<1>0. TunType /\ RuntimeInv /\ ReachabilityMatchesStreak /\ cfg.tunnels \subseteq Tunnels
  BY ConfigFacts DEF ProcInv, ProcType
<1>1. "pending" \in ReachStates /\ "pending" \notin {"healthy", "degraded", "unhealthy"}
  BY Zenon DEF ReachStates
<1>2. reach' \in [Tunnels -> ReachStates] /\ \A t \in Tunnels : reach'[t] = reach[t] \/ reach'[t] = "pending"
  BY <1>0, <1>1 DEF TunType
<1>3. TunType'
  BY <1>0, <1>2, Zenon DEF TunType
<1>4. RuntimeInv'
  BY <1>0, Zenon DEF RuntimeInv, StickyKept
<1>5. ASSUME NEW u \in Tunnels
      PROVE  /\ reach'[u] = "healthy" => streak[u] = 0
             /\ reach'[u] = "degraded" => streak[u] > 0 /\ streak[u] < FailureThreshold
             /\ reach'[u] = "unhealthy" => streak[u] = FailureThreshold
  BY <1>0, <1>1, <1>2, Zenon DEF ReachabilityMatchesStreak
<1>6. ReachabilityMatchesStreak'
  BY <1>5, Zenon DEF ReachabilityMatchesStreak
<1> QED BY Zenon, <1>3, <1>4, <1>6

-----------------------------------------------------------------------------
(* The steps of main keep the invariant. *)

\* The startup ends with the hostname allocation, if it has one.
LEMMA StartupFacts ==
  /\ Len(Startup) \in Nat /\ \A i \in 1 .. Len(Startup) : Startup[i] = "allocate" => i = Len(Startup)
<1>1. CASE Startup = SingleStartup
  BY <1>1 DEF SingleStartup
<1>2. CASE Startup = MultiStartup
  BY <1>2 DEF MultiStartup
<1>3. CASE Startup = RawStartup
  BY <1>3 DEF RawStartup
<1> QED BY <1>1, <1>2, <1>3, Zenon DEF Startup

\* An exit code of the startup; 2 is not one of the allocation.
LEMMA ExitFacts ==
  ASSUME NEW s, NEW c \in StepExit(s)
  PROVE  c \in {1, 2} /\ (c = 2 => s # "allocate")
  BY DEF StepExit

\* A startup step fails.
LEMMA FailKeeps == ASSUME ProcInv, StartupFails PROVE ProcInv' /\ StickyKept
<1>0. /\ ProcType /\ TunType /\ RuntimeInv /\ SignalInv /\ StartInv /\ OperationsStopLast
  BY DEF ProcInv
<1>1. /\ main = "startup" /\ main' = "exited" /\ code' \in StepExit(Startup[step])
      /\ UNCHANGED <<cfg, step, alloc, branch, awaiting, osOk, signal, opsSignal, comp, rd,
                     state, store, reach, streak, run>>
  BY Zenon DEF StartupFails, tunVars
<1>2. code' \in {1, 2} /\ (code' = 2 => Startup[step] # "allocate")
  BY <1>1, ExitFacts
<1>3. StickyKept /\ TunType' /\ RuntimeInv' /\ ReachabilityMatchesStreak'
  <2>1. StickyKept /\ state' \in [Tunnels -> ConnectionStates]
    BY <1>0, <1>1, Zenon DEF StickyKept, TunType
  <2> QED BY <1>1, <2>1, TunnelsAlone, Zenon
<1>4. ProcType'
  <2>1. code' \in Nat /\ main' \in {"startup", "select", "await", "exited"}
    BY <1>1, <1>2
  <2> QED BY <1>0, <1>1, <2>1, Zenon DEF ProcType
<1>5. SignalInv'
  <2>1. main' \notin {"startup", "select"}
    BY Zenon, <1>1
  <2> QED BY <1>0, <1>1, <2>1, Zenon DEF SignalInv
<1>6. StartInv' /\ AwaitInv'
  BY <1>1 DEF StartInv, AwaitInv
<1>7. OperationsStopLast'
  BY <1>0, <1>1, Zenon DEF OperationsStopLast, Futures
<1>8. SuccessOnlyOnRequest'
  <2>1. code' # 0 BY <1>2
  <2> QED BY <2>1, Zenon DEF SuccessOnlyOnRequest
<1>9. ConfigErrorMutatesNothing'
  BY <1>0, <1>1, <1>2, Zenon DEF ConfigErrorMutatesNothing, StartInv
<1> QED BY <1>3, <1>4, <1>5, <1>6, <1>7, <1>8, <1>9, Zenon DEF ProcInv

\* A startup step succeeds.
LEMMA StartupKeeps == ASSUME ProcInv, StartupStep \/ AllocateHostname PROVE ProcInv' /\ StickyKept
<1>0. /\ ProcType /\ TunType /\ RuntimeInv /\ SignalInv /\ StartInv /\ OperationsStopLast
  BY Zenon DEF ProcInv
<1>1. /\ main = "startup" /\ step \in 1 .. Len(Startup) /\ Len(Startup) \in Nat
      /\ alloc # {} => Startup[step] = "allocate"
      /\ \A t \in Tunnels : run[t] = "top"
      /\ Startup[step] = "allocate" => step = Len(Startup)
  BY <1>0, StartupFacts DEF StartInv, StartupStep, AllocateHostname
<1>2. /\ UNCHANGED <<cfg, code, branch, awaiting, osOk, signal, opsSignal, comp, rd,
                     state, store, streak, run>>
      /\ reach' = reach \/ reach' = [t \in Tunnels |-> "pending"]
  BY Zenon DEF StartupStep, AllocateHostname, tunVars
<1>3. StickyKept /\ TunType' /\ RuntimeInv' /\ ReachabilityMatchesStreak'
  <2>1. StickyKept /\ state' \in [Tunnels -> ConnectionStates]
    BY <1>0, <1>2, Zenon DEF StickyKept, TunType
  <2> QED BY <1>2, <2>1, TunnelsAlone, Zenon
<1>4. Startup' = Startup
  BY <1>2, Zenon DEF Startup
<1>5. \/ /\ main' = "startup" /\ step' \in 1 .. Len(Startup)
         /\ alloc' # {} => Startup[step'] = "allocate"
      \/ main' = "select" /\ step' = step + 1
  <2>1. CASE StartupStep
    <3>1. /\ Startup[step] # "allocate" /\ alloc' = alloc /\ step' = step + 1
          /\ main' = IF step = Len(Startup) THEN "select" ELSE "startup"
      BY <2>1, Zenon DEF StartupStep, Advance
    <3>2. alloc' = {}
      BY <1>1, <3>1, Zenon
    <3>3. CASE step = Len(Startup)
      BY <3>1, <3>3, Zenon
    <3>4. CASE step # Len(Startup)
      <4>1. step + 1 \in 1 .. Len(Startup)
        BY <1>1, <3>4
      <4> QED BY <3>1, <3>2, <3>4, <4>1, Zenon
    <3> QED BY <3>3, <3>4
  <2>2. CASE AllocateHostname
    <3>1. Startup[step] = "allocate" /\ step = Len(Startup)
      BY <1>1, <2>2, Zenon DEF AllocateHostname
    <3>2. CASE alloc' = cfg.tunnels
      BY <2>2, <3>1, <3>2, Zenon DEF AllocateHostname, Advance
    <3>3. CASE alloc' # cfg.tunnels
      <4>1. main' = main /\ step' = step
        BY Zenon, <2>2, <3>3 DEF AllocateHostname
      <4> QED BY <1>1, <3>1, <4>1, Zenon
    <3> QED BY <3>2, <3>3
  <2> QED BY <2>1, <2>2
<1>6. ProcType'
  <2>1. step' \in Nat /\ main' \in {"startup", "select", "await", "exited"}
    BY <1>1, <1>5
  <2> QED BY <1>0, <1>2, <2>1, Zenon DEF ProcType
<1>7. main' \notin {"await", "exited"}
  BY <1>5
<1>8. SignalInv'
  <2>1. ~signal
    BY Zenon, <1>0, <1>1 DEF SignalInv
  <2> QED BY <1>0, <1>2, <2>1, Zenon DEF SignalInv
<1>9. StartInv'
  BY Zenon, <1>1, <1>2, <1>4, <1>5 DEF StartInv
<1>10. AwaitInv' /\ SuccessOnlyOnRequest' /\ ConfigErrorMutatesNothing'
  BY <1>7 DEF AwaitInv, SuccessOnlyOnRequest, ConfigErrorMutatesNothing
<1>11. OperationsStopLast'
  BY <1>0, <1>2, Zenon DEF OperationsStopLast, Futures
<1> QED BY <1>3, <1>6, <1>8, <1>9, <1>10, <1>11, Zenon DEF ProcInv

\* When operations is next in a list that has it last, nothing else is left.
LEMMA OperationsNext ==
  ASSUME NEW q \in Seq(Components), q # <<>>, Head(q) = "operations", NEW c, In(q, c),
         \A i \in 1 .. Len(q) : q[i] = "operations" => i = Len(q)
  PROVE  c = "operations"
<1>1. Len(q) \in Nat /\ Len(q) # 0 /\ q[1] = "operations"
  BY EmptySeq, HeadTailProperties, LenProperties
<1>2. Len(q) = 1
  <2>1. 1 \in 1 .. Len(q)
    BY <1>1
  <2> QED BY <1>1, <2>1, Zenon
<1>3. PICK i \in 1 .. Len(q) : q[i] = c
  BY DEF In
<1> QED BY <1>1, <1>2, <1>3

\* A branch of the select! fires.
LEMMA SelectKeeps == ASSUME ProcInv, NEW b \in SelectBranches, Select(b) PROVE ProcInv' /\ StickyKept
<1>0. /\ ProcType /\ TunType /\ RuntimeInv /\ SignalInv /\ StartInv /\ OperationsStopLast
  BY DEF ProcInv
<1>1. /\ main = "select" /\ main' = "await" /\ comp[b] \in Ended
      /\ branch' = b /\ awaiting' = Awaits(b) /\ signal' = TRUE
      /\ opsSignal' = (awaiting' # <<>> /\ Head(awaiting') = "operations")
      /\ state' = IF Drains(b)
                  THEN [t \in Tunnels |-> IF t \in cfg.tunnels THEN "draining" ELSE state[t]]
                  ELSE state
      /\ UNCHANGED <<cfg, step, alloc, code, osOk, comp, store, reach, streak, run, rd>>
  BY Zenon DEF Select
<1>2. /\ awaiting' \in Seq(Components)
      /\ \A c \in Futures \cup {"operations"} : b # c => In(awaiting', c)
      /\ \A i \in 1 .. Len(awaiting') : awaiting'[i] = "operations" => i = Len(awaiting')
  BY <1>1, AwaitsFacts, Zenon
<1>3. Futures' = Futures /\ "operations" \notin Futures
  BY <1>1 DEF Futures
<1>4. cfg.tunnels \subseteq Tunnels
  BY <1>0, ConfigFacts, Zenon DEF ProcType
<1>5. "draining" \in Sticky /\ "draining" \in ConnectionStates
  BY DEF Sticky, ConnectionStates
<1>6. /\ StickyKept /\ state' \in [Tunnels -> ConnectionStates]
      /\ \A t \in cfg.tunnels : state'[t] \in Sticky
  <2>0. state \in [Tunnels -> ConnectionStates]
    BY <1>0 DEF TunType
  <2>1. CASE Drains(b)
    <3>1. state' = [t \in Tunnels |-> IF t \in cfg.tunnels THEN "draining" ELSE state[t]]
      BY <1>1, <2>1, Zenon
    <3> QED BY <3>1, <2>0, <1>4, <1>5, Zenon DEF StickyKept
  <2>2. CASE ~Drains(b)
    <3>1. state' = state /\ b = "runtime"
      BY <1>1, <2>2, Zenon DEF Drains
    <3>2. \A t \in cfg.tunnels : run[t] \in Ended /\ state[t] \in Sticky
      BY <1>0, <1>1, <3>1, Zenon DEF RuntimeInv
    <3> QED BY <2>0, <3>1, <3>2, Zenon DEF StickyKept
  <2> QED BY <2>1, <2>2
<1>7. TunType' /\ RuntimeInv' /\ ReachabilityMatchesStreak'
  BY <1>1, <1>6, TunnelsAlone, Zenon
<1>8. ProcType'
  <2>1. main' \in {"startup", "select", "await", "exited"} /\ opsSignal' \in BOOLEAN /\ signal' \in BOOLEAN
    BY <1>1, Zenon
  <2> QED BY <1>0, <1>1, <1>2, <2>1, Zenon DEF ProcType
<1>9. SignalInv'
  <2>1. main' \notin {"startup", "select"}
    BY ZenonT(40), <1>1
  <2> QED BY <1>1, <2>1, Zenon DEF SignalInv
<1>10. StartInv' /\ SuccessOnlyOnRequest' /\ ConfigErrorMutatesNothing'
  BY <1>1 DEF StartInv, SuccessOnlyOnRequest, ConfigErrorMutatesNothing
<1>11. AwaitInv'
  <2>1. b # "os" => comp[b] # "ok"
    BY Zenon, <1>0, <1>1 DEF SignalInv, SelectBranches
  <2>2. \A c \in Futures' \cup {"operations"} : comp'[c] \in Ended \/ In(awaiting', c)
    BY <1>1, <1>2, <1>3, Zenon
  <2> QED BY <1>1, <1>2, <1>6, <2>1, <2>2, Zenon DEF AwaitInv
<1>12. OperationsStopLast'
  <2>1. SUFFICES ASSUME awaiting' # <<>>, Head(awaiting') = "operations", NEW c \in Futures
                 PROVE  comp[c] \in Ended
    BY <1>1, <1>3, Zenon DEF OperationsStopLast
  <2>2. ~In(awaiting', c)
    BY <1>2, <1>3, <2>1, OperationsNext, Zenon
  <2> QED BY <1>1, <1>2, <2>2, Zenon
<1> QED BY <1>6, <1>7, <1>8, <1>9, <1>10, <1>11, <1>12, Zenon DEF ProcInv

\* The future main awaits has ended.
LEMMA AwaitKeeps == ASSUME ProcInv, AwaitNext PROVE ProcInv' /\ StickyKept
<1>0. /\ ProcType /\ TunType /\ RuntimeInv /\ SignalInv /\ StartInv /\ AwaitInv /\ OperationsStopLast
  BY DEF ProcInv
<1>1. /\ main = "await" /\ awaiting # <<>> /\ comp[Head(awaiting)] \in Ended
      /\ awaiting' = Tail(awaiting)
      /\ opsSignal' = (opsSignal \/ (awaiting' # <<>> /\ Head(awaiting') = "operations"))
      /\ UNCHANGED <<cfg, main, step, alloc, code, branch, osOk, signal, comp, rd,
                     state, store, reach, streak, run>>
  BY Zenon DEF AwaitNext, tunVars
<1>2. /\ awaiting \in Seq(Components) /\ opsSignal \in BOOLEAN
      /\ \A i \in 1 .. Len(awaiting) : awaiting[i] = "operations" => i = Len(awaiting)
      /\ \A c \in Futures \cup {"operations"} : comp[c] \in Ended \/ In(awaiting, c)
      /\ branch \in SelectBranches /\ comp[branch] \in Ended
      /\ branch # "os" => comp[branch] # "ok"
      /\ \A t \in cfg.tunnels : state[t] \in Sticky
  BY <1>0, <1>1, Zenon DEF ProcType, AwaitInv
<1>3. awaiting' \in Seq(Components) /\ Follows(awaiting', awaiting)
  BY <1>1, <1>2, TailFollows, Zenon
<1>4. \A c : In(awaiting, c) => c = Head(awaiting) \/ In(awaiting', c)
  <2>1. SUFFICES ASSUME NEW c, NEW i \in 1 .. Len(awaiting), awaiting[i] = c, c # Head(awaiting)
                 PROVE  \E j \in 1 .. Len(awaiting') : awaiting'[j] = c
    BY Zenon DEF In
  <2> QED BY <1>3, <2>1, Zenon DEF Follows
<1>5. \A i \in 1 .. Len(awaiting') : awaiting'[i] = "operations" => i = Len(awaiting')
  <2>1. SUFFICES ASSUME NEW i \in 1 .. Len(awaiting'), awaiting'[i] = "operations"
                 PROVE  i = Len(awaiting')
    BY Zenon
  <2>2. i + 1 \in 1 .. Len(awaiting) /\ awaiting[i + 1] = "operations"
    BY <1>3, <2>1, Zenon DEF Follows
  <2>3. i + 1 = Len(awaiting)
    BY <1>2, <2>2, Zenon
  <2> QED BY <1>3, <2>1, <2>3, Zenon DEF Follows
<1>6. Futures' = Futures /\ "operations" \notin Futures
  BY <1>1 DEF Futures
<1>7. \A c \in Futures \cup {"operations"} : comp[c] \in Ended \/ In(awaiting', c)
  BY <1>1, <1>2, <1>4, Zenon
<1>8. StickyKept /\ state' \in [Tunnels -> ConnectionStates]
  BY <1>0, <1>1, Zenon DEF StickyKept, TunType
<1>9. TunType' /\ RuntimeInv' /\ ReachabilityMatchesStreak'
  BY <1>1, <1>8, TunnelsAlone, Zenon
<1>10. ProcType'
  <2>1. opsSignal' \in BOOLEAN
    BY <1>1, Zenon
  <2> QED BY <1>0, <1>1, <1>3, <2>1, Zenon DEF ProcType
<1>11. OperationsStopLast'
  <2>1. SUFFICES ASSUME opsSignal', NEW c \in Futures
                 PROVE  comp[c] \in Ended
    BY <1>1, <1>6, Zenon DEF OperationsStopLast
  <2>2. CASE opsSignal
    BY <1>0, <2>2, Zenon DEF OperationsStopLast
  <2>3. CASE ~opsSignal
    <3>1. awaiting' # <<>> /\ Head(awaiting') = "operations"
      BY <1>1, <2>1, <2>3, Zenon
    <3>2. ~In(awaiting', c)
      BY <1>3, <1>5, <1>6, <3>1, OperationsNext, Zenon
    <3> QED BY <1>7, <3>2, Zenon
  <2> QED BY <2>2, <2>3
<1>12. SignalInv'
  <2>1. signal
    BY <1>0, <1>1, Zenon DEF AwaitInv
  <2>2. main' \notin {"startup", "select"}
    BY Zenon, <1>1
  <2> QED BY <1>1, <2>1, <2>2, Zenon DEF SignalInv
<1>13. StartInv' /\ SuccessOnlyOnRequest' /\ ConfigErrorMutatesNothing'
  BY <1>1 DEF StartInv, SuccessOnlyOnRequest, ConfigErrorMutatesNothing
<1>14. AwaitInv'
  <2>1. signal
    BY <1>0, <1>1, Zenon DEF AwaitInv
  <2> QED BY <1>1, <1>2, <1>5, <1>6, <1>7, <2>1, Zenon DEF AwaitInv
<1> QED BY <1>8, <1>9, <1>10, <1>11, <1>12, <1>13, <1>14, Zenon DEF ProcInv

\* main returns: the exit code is 0 only when the OS asked for the shutdown.
LEMMA ExitKeeps == ASSUME ProcInv, Exit PROVE ProcInv' /\ StickyKept
<1>0. /\ ProcType /\ TunType /\ RuntimeInv /\ SignalInv /\ StartInv /\ AwaitInv /\ OperationsStopLast
  BY DEF ProcInv
<1>1. /\ main = "await" /\ main' = "exited"
      /\ code' = IF comp["operations"] = "ok" THEN BaseExit ELSE 1
      /\ UNCHANGED <<cfg, step, alloc, branch, awaiting, osOk, signal, opsSignal, comp, rd,
                     state, store, reach, streak, run>>
  BY Zenon DEF Exit, tunVars
<1>2. branch # "os" => comp[branch] # "ok"
  BY <1>0, <1>1, Zenon DEF AwaitInv
<1>3. BaseExit \in {0, 1} /\ (BaseExit = 0 => osOk /\ comp["runtime"] = "ok")
  BY <1>2 DEF BaseExit
<1>4. code' \in {0, 1} /\ (code' = 0 => osOk /\ comp["runtime"] = "ok" /\ comp["operations"] = "ok")
  <2>1. CASE comp["operations"] = "ok"
    BY <1>1, <1>3, <2>1, Zenon
  <2>2. CASE comp["operations"] # "ok"
    BY <1>1, <2>2
  <2> QED BY <2>1, <2>2
<1>5. SuccessOnlyOnRequest'
  <2>1. ASSUME ~cfg.multi, comp["runtime"] = "ok", NEW t \in cfg.tunnels
        PROVE  run[t] = "ok"
    <3>1. comp["runtime"] = IF run[t] \in Ended THEN run[t] ELSE "run"
      BY <1>0, <2>1, Zenon DEF RuntimeInv
    <3> QED BY <2>1, <3>1
  <2> QED BY <1>1, <1>4, <2>1, Zenon DEF SuccessOnlyOnRequest
<1>6. StickyKept /\ state' \in [Tunnels -> ConnectionStates]
  BY <1>0, <1>1, Zenon DEF StickyKept, TunType
<1>7. TunType' /\ RuntimeInv' /\ ReachabilityMatchesStreak'
  BY <1>1, <1>6, TunnelsAlone, Zenon
<1>8. ProcType'
  <2>1. main' \in {"startup", "select", "await", "exited"} /\ code' \in Nat
    BY <1>1, <1>4
  <2> QED BY <1>0, <1>1, <2>1, Zenon DEF ProcType
<1>9. SignalInv'
  <2>1. main' \notin {"startup", "select"}
    BY Zenon, <1>1
  <2> QED BY <1>0, <1>1, <2>1, Zenon DEF SignalInv
<1>10. StartInv' /\ AwaitInv' /\ ConfigErrorMutatesNothing'
  BY <1>1, <1>4 DEF StartInv, AwaitInv, ConfigErrorMutatesNothing
<1>11. OperationsStopLast'
  BY <1>0, <1>1, Zenon DEF OperationsStopLast, Futures
<1> QED BY <1>5, <1>6, <1>7, <1>8, <1>9, <1>10, <1>11, Zenon DEF ProcInv

-----------------------------------------------------------------------------
(* The theorems. *)

\* The process starts in the invariant.
LEMMA InitProcInv == ASSUME Init PROVE ProcInv
<1>1. ProcType
  <2>1. comp \in [Components -> CompStates] /\ rd \in [Tunnels -> ReadinessStates]
    BY DEF Init, CompStates, ReadinessStates
  <2>2. awaiting \in Seq(Components)
    BY EmptySeq DEF Init
  <2> QED BY <2>1, <2>2, Zenon DEF Init, ProcType
<1>2. TunType
  <2>1. 0 \in 0 .. FailureThreshold
    BY LimitsAssumption
  <2>2. /\ "offline" \in ConnectionStates /\ "disabled" \in ReachStates /\ "top" \in RunStates
    BY DEF ConnectionStates, ReachStates, RunStates
  <2> QED BY <2>1, <2>2, Zenon DEF Init, TunType
<1>3. "run" \notin Ended /\ "top" \notin Ended
  BY DEF Ended
<1>4. cfg.tunnels \subseteq Tunnels
  BY <1>1, ConfigFacts, Zenon DEF ProcType
<1>5. comp["runtime"] = "run"
  BY DEF Init, Components
<1>6. RuntimeInv
  BY <1>3, <1>4, <1>5, Zenon DEF Init, RuntimeInv
<1>7. SignalInv
  BY DEF Init, SignalInv
<1>8. StartInv
  <2>1. 1 \in 1 .. Len(Startup)
    BY DEF Startup, SingleStartup, MultiStartup, RawStartup
  <2> QED BY <2>1, Zenon DEF Init, StartInv
<1>9. AwaitInv /\ SuccessOnlyOnRequest /\ ConfigErrorMutatesNothing
  BY DEF Init, AwaitInv, SuccessOnlyOnRequest, ConfigErrorMutatesNothing
<1>10. ReachabilityMatchesStreak
  BY Zenon DEF Init, ReachabilityMatchesStreak
<1>11. OperationsStopLast
  BY Zenon DEF Init, OperationsStopLast
<1> QED BY <1>1, <1>2, <1>6, <1>7, <1>8, <1>9, <1>10, <1>11, Zenon DEF ProcInv

\* A step that changes nothing.
LEMMA StutterKeeps == ASSUME ProcInv, UNCHANGED vars PROVE ProcInv' /\ StickyKept
<1>0. /\ ProcType /\ TunType /\ RuntimeInv /\ SignalInv /\ StartInv /\ AwaitInv /\ OperationsStopLast
      /\ ReachabilityMatchesStreak /\ SuccessOnlyOnRequest /\ ConfigErrorMutatesNothing
  BY DEF ProcInv
<1>1. UNCHANGED <<cfg, main, step, alloc, code, branch, awaiting, osOk, signal, opsSignal, comp, rd,
                  state, store, reach, streak, run>>
  BY Zenon DEF vars, procVars, tunVars
<1>2. Futures' = Futures /\ Startup' = Startup
  BY <1>1, Zenon DEF Futures, Startup
<1>3. ProcType' /\ TunType' /\ RuntimeInv'
  BY <1>0, <1>1, Zenon DEF ProcType, TunType, RuntimeInv
<1>4. SignalInv' /\ StartInv' /\ AwaitInv'
  BY <1>0, <1>1, <1>2, Zenon DEF SignalInv, StartInv, AwaitInv
<1>5. ReachabilityMatchesStreak' /\ OperationsStopLast' /\ SuccessOnlyOnRequest'
      /\ ConfigErrorMutatesNothing' /\ StickyKept
  BY <1>0, <1>1, <1>2, Zenon DEF ReachabilityMatchesStreak, OperationsStopLast, SuccessOnlyOnRequest,
     ConfigErrorMutatesNothing, StickyKept
<1> QED BY <1>3, <1>4, <1>5, Zenon DEF ProcInv

\* Every step of the process keeps the invariant and every drained tunnel.
LEMMA StepKeeps == ASSUME ProcInv, [Next]_vars PROVE ProcInv' /\ StickyKept
<1>1. ASSUME NEW t \in Tunnels, TunnelStep(t) PROVE ProcInv' /\ StickyKept
  BY <1>1, TunnelKeeps
<1>2. ASSUME NEW t \in Tunnels, ReadinessStep(t) PROVE ProcInv' /\ StickyKept
  BY <1>2, ReadinessKeeps
<1>3. ASSUME \/ ReadinessJoined \/ SupervisorStops \/ SupervisorJoined
             \/ \E c \in Components : ComponentFails(c) \/ ComponentStops(c)
             \/ \E r \in {"ok", "err"} : OsSignal(r)
      PROVE  ProcInv' /\ StickyKept
  <2>1. CompEffect
    BY <1>3, CompEffects, Zenon DEF ProcInv
  <2> QED BY <2>1, CompKeeps
<1>4. ASSUME NEW b \in SelectBranches, Select(b) PROVE ProcInv' /\ StickyKept
  BY <1>4, SelectKeeps
<1>5. ASSUME MainStep PROVE ProcInv' /\ StickyKept
  BY <1>4, <1>5, FailKeeps, StartupKeeps, AwaitKeeps, ExitKeeps, Zenon DEF MainStep
<1>6. ASSUME Exited \/ UNCHANGED vars PROVE ProcInv' /\ StickyKept
  BY <1>6, StutterKeeps, Zenon DEF Exited
<1> QED BY <1>1, <1>2, <1>3, <1>5, <1>6, Zenon DEF Next

\* The invariant of the Agent process: see its parts above.
THEOREM ProcessInvariant == Spec => []ProcInv
<1>1. Init => ProcInv
  BY InitProcInv
<1>2. ProcInv /\ [Next]_vars => ProcInv'
  BY StepKeeps
<1> QED BY <1>1, <1>2, PTL DEF Spec

\* For every set of tunnels and every configuration: once main awaits, no
\* /readyz says ready, and operations is told to stop only when every other
\* future has ended.
THEOREM ShutdownOrderly == Spec => []OrderlyShutdown
<1>1. ProcInv => OrderlyShutdown
  <2>1. SUFFICES ASSUME ProcInv, main = "await" PROVE ~\A t \in cfg.tunnels : Ready(t)
    BY Zenon DEF ProcInv, OrderlyShutdown, NotReadyInShutdown
  <2>2. cfg.tunnels # {}
    BY Zenon, <2>1, ConfigFacts DEF ProcInv, ProcType
  <2>3. PICK t \in cfg.tunnels : TRUE
    BY <2>2
  <2>4. state[t] \in Sticky
    BY <2>1, Zenon DEF ProcInv, AwaitInv
  <2> QED BY <2>4 DEF Sticky, Ready
<1> QED BY <1>1, ProcessInvariant, PTL

\* For every set of tunnels and every configuration: the exit code is 0 only
\* after an OS signal and a shutdown that ended well, and 2 only when no
\* hostname was allocated and no Edge contacted.
THEOREM ExitCodeHonest == Spec => []ExitHonest
<1>1. ProcInv => ExitHonest
  BY Zenon DEF ProcInv, ExitHonest
<1> QED BY <1>1, ProcessInvariant, PTL

\* For every failure threshold: the reachability a tunnel reports is the one
\* its failures in a row call for.
THEOREM ReachabilityFollowsStreak == Spec => []ReachabilityMatchesStreak
<1>1. ProcInv => ReachabilityMatchesStreak
  BY Zenon DEF ProcInv
<1> QED BY <1>1, ProcessInvariant, PTL

\* A tunnel that drains or has stopped never looks alive again, whatever store
\* of a reconnect is still under way.
THEOREM DrainingSticks == Spec => DrainSticks
<1>1. ProcInv /\ [Next]_vars => [\A t \in Tunnels : state[t] \in Sticky => state'[t] \in Sticky]_vars
  BY StepKeeps, Zenon DEF StickyKept
<1> QED BY <1>1, ProcessInvariant, PTL DEF Spec, DrainSticks
=============================================================================
