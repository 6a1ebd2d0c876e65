-------------------------- MODULE EnrollmentProofs --------------------------
(***************************************************************************)
(* Proofs about the rotation of an Agent's credential (Enrollment), for    *)
(* any number of requests and any number of crashes and lost answers.      *)
(***************************************************************************)
EXTENDS Enrollment, TLAPS

Statuses == {"none", "pending", "active", "retired", "revoked", "expired"}
Over == {"active", "retired", "revoked", "expired"}
Replies == {NoAnswer, "issued", "activated", "expired", "rejected", "internal"}

\* The steps of rotate after an Issued answer.
Later == {"publish", "commit", "reload", "activate", "swap", "clear"}

EnrollType ==
  /\ proc \in {"down", "run", "once"} /\ pc \in {"idle", "begin", "issue"} \cup Later
  /\ created \in 0 .. MaxRequests /\ journal \in {Nothing, created}
  /\ token \in 0 .. created \cup {Missing} /\ manifest \in 0 .. created
  /\ msgs \subseteq Message /\ reply \in Replies
  /\ srv \in {Idle} \cup [at : {"preflighted", "durable"}, msg : Message]
  /\ row \in [Reqs -> Statuses] /\ auth \in [Reqs -> 0 .. MaxRequests]
  /\ prev \in [Reqs -> 0 .. MaxRequests] /\ boot \in {"open", "consumed", "expired", "revoked"}
  /\ late \subseteq Reqs /\ grants \subseteq Reqs /\ served \subseteq Reqs

\* Only the request of the journal may be undecided, and the credential it is
\* to replace is the one Active credential.
RowsInv ==
  /\ \A r \in Reqs : r > created => row[r] = "none"
  /\ \A r \in Reqs : r <= created /\ r # journal => row[r] \in Over
  /\ \A r \in Reqs : auth[r] = prev[r] /\ prev[r] < r
  /\ \A r \in Reqs : row[r] = "pending" =>
       IF prev[r] = Nothing THEN \A q \in Reqs : row[q] # "active" ELSE row[prev[r]] = "active"
  /\ \A q, r \in Reqs : row[q] = "active" /\ row[r] = "active" => q = r
  /\ boot \in {"open", "expired"} => \A r \in Reqs : row[r] = "none"
  /\ boot # "revoked" => /\ \A r \in Reqs : row[r] # "revoked"
                         /\ (\E r \in Reqs : row[r] = "retired") => \E q \in Reqs : row[q] = "active"
  /\ boot = "revoked" => \A r \in Reqs : row[r] \notin HoldsGrant
  /\ journal # Nothing => row[journal] # "retired"
  /\ GrantsMatchRows

\* Where rotate stands tells what became of the journal's request.
AgentInv ==
  /\ (proc = "down" => pc = "idle") /\ (pc # "idle" => journal # Nothing)
  /\ token # Nothing /\ token = journal => row[journal] \in {"active", "revoked"}
  /\ token = Missing => pc \in {"idle", "swap"} /\ journal # Nothing /\ row[journal] \in {"active", "revoked"}
  /\ pc \in Later => row[journal] # "none"
  /\ pc \in {"swap", "clear"} => row[journal] \in {"active", "revoked"}
  /\ pc = "clear" => token = journal
  /\ manifest # Nothing => row[manifest] # "none"

\* So does an answer, of which there is one for the live request.
AnswerInv ==
  reply # NoAnswer =>
    /\ pc \in {"issue", "activate"} /\ \A m \in InService : ~m.live
    /\ reply = "issued" => row[journal] # "none"
    /\ reply = "activated" => row[journal] \in {"active", "revoked"}
    /\ reply = "expired" => row[journal] = "expired"

\* A request that may still insert a row presents the Agent's token; the live
\* one is the one rotate waits for.
MessageInv ==
  /\ \A m \in InService : m.req <= created /\ (m.kind = "enroll" /\ row[m.req] = "none" => m.token = token)
  /\ \A m \in InService : m.live =>
       /\ pc \in {"issue", "activate"} /\ m.req = journal
       /\ m.kind = IF pc = "issue" THEN "enroll" ELSE "activate"
       /\ m.token = IF pc = "issue" THEN token ELSE journal
  /\ srv # Idle /\ srv.msg.live => \A m \in msgs : ~m.live
  /\ srv # Idle /\ srv.at = "preflighted" => srv.msg.kind = "enroll" /\ row[srv.msg.req] = "none"
  /\ srv # Idle /\ srv.at = "durable" =>
       /\ row[srv.msg.req] # "none"
       /\ srv.msg.kind = "activate" => row[srv.msg.req] \in {"active", "revoked"}

\* What the Agent may load, or was told is issued, is served.
ServedInv ==
  \A r \in Reqs :
    /\ r = manifest \/ (r = journal /\ (reply = "issued" \/ pc \in {"publish", "commit"}))
    /\ row[r] \in HoldsGrant
    => r \in served

\* How the Agent's token stands to its journal.
RecoverInv ==
  token # Missing /\ boot # "revoked" /\ ~BootstrapLost =>
    /\ journal = Nothing => Authentic(token)
    /\ journal # Nothing => /\ row[journal] \in {"none", "expired"} => Authentic(token)
                            /\ row[journal] = "pending" => token = auth[journal]
                            /\ row[journal] = "active" => token \in {auth[journal], journal}

EnrollInv ==
  EnrollType /\ RowsInv /\ AgentInv /\ AnswerInv /\ MessageInv /\ ServedInv /\ RecoverInv

-----------------------------------------------------------------------------
(* Facts every step needs.                                                 *)

LEMMA Numbers ==
  ASSUME MaxRequests \in Nat
  PROVE  /\ \A r \in Reqs : r \in Nat /\ r # 0 /\ r # Missing /\ r <= MaxRequests
         /\ Missing \in Nat /\ Missing # 0
BY DEF Reqs, Missing

LEMMA ServiceType ==
  ASSUME EnrollType
  PROVE  /\ InService \subseteq Message
         /\ srv # Idle => srv.at \in {"preflighted", "durable"} /\ srv.msg \in Message /\ srv.msg \in InService
         /\ msgs \subseteq InService
BY DEF EnrollType, InService

LEMMA MessageFields ==
  ASSUME NEW m \in Message
  PROVE  /\ m.kind \in {"enroll", "activate"} /\ m.req \in Reqs /\ m.token \in 0 .. MaxRequests
         /\ m.live \in BOOLEAN
         /\ [m EXCEPT !.live = FALSE] \in Message
         /\ [m EXCEPT !.live = FALSE].kind = m.kind /\ [m EXCEPT !.live = FALSE].req = m.req
         /\ [m EXCEPT !.live = FALSE].token = m.token /\ [m EXCEPT !.live = FALSE].live = FALSE
BY Zenon DEF Message

\* A hangup leaves every request in service without a reader.
LEMMA HangupLeaves ==
  ASSUME EnrollType, Hangup
  PROVE  /\ msgs' \subseteq Message /\ srv' \in {Idle} \cup [at : {"preflighted", "durable"}, msg : Message]
         /\ srv' = Idle <=> srv = Idle
         /\ srv # Idle => /\ srv'.at = srv.at /\ srv'.msg.kind = srv.msg.kind /\ srv'.msg.req = srv.msg.req
                          /\ ~srv'.msg.live
         /\ \A n \in InService' : /\ ~n.live
                                  /\ \E m \in InService : n.kind = m.kind /\ n.req = m.req /\ n.token = m.token
<1>1. msgs' = {[m EXCEPT !.live = FALSE] : m \in msgs} BY DEF Hangup
<1>2. msgs \subseteq Message BY DEF EnrollType
<1>3. msgs' \subseteq Message BY <1>1, <1>2, MessageFields
<1>4. \A n \in msgs' : ~n.live /\ \E m \in msgs : n.kind = m.kind /\ n.req = m.req /\ n.token = m.token
  <2> TAKE n \in msgs'
  <2>1. PICK m \in msgs : n = [m EXCEPT !.live = FALSE] BY <1>1
  <2>2. m \in Message BY <1>2
  <2> QED BY <2>1, <2>2, MessageFields
<1>5. CASE srv = Idle
  <2>1. srv' = Idle /\ InService' = msgs' /\ InService = msgs BY <1>5 DEF Hangup, InService
  <2> QED BY <1>3, <1>4, <1>5, <2>1
<1>6. CASE srv # Idle
  <2>1. PICK a \in {"preflighted", "durable"}, s \in Message : srv = [at |-> a, msg |-> s]
    BY <1>6 DEF EnrollType
  <2> DEFINE n == [s EXCEPT !.live = FALSE]
  <2>2. srv' = [srv EXCEPT !.msg.live = FALSE] BY <1>6 DEF Hangup
  <2>3. srv' = [at |-> a, msg |-> n] BY Zenon, <2>1, <2>2
  <2>4. n \in Message /\ n.kind = s.kind /\ n.req = s.req /\ n.token = s.token /\ ~n.live
    BY MessageFields
  <2> HIDE DEF n
  <2>5. srv' # Idle /\ srv'.at = a /\ srv'.msg = n /\ srv.at = a /\ srv.msg = s
    <3>1. srv'.at = a /\ srv'.msg = n /\ srv.at = a /\ srv.msg = s BY <2>1, <2>3
    <3>2. Idle.at = "idle" BY DEF Idle
    <3> QED BY <3>1, <3>2
  <2>6. InService' = msgs' \cup {n} /\ InService = msgs \cup {s} BY <1>6, <2>5 DEF InService
  <2>7. srv' \in [at : {"preflighted", "durable"}, msg : Message] BY <2>3, <2>4
  <2> QED BY <1>3, <1>4, <1>6, <2>4, <2>5, <2>6, <2>7
<1> QED BY <1>5, <1>6

-----------------------------------------------------------------------------
(* The transactions of the repository.                                     *)

\* What no transaction undoes: a row stays, an expiry is final, and so is the
\* activation of the latest request but for a revocation.
RowsKept ==
  /\ \A r \in Reqs : row[r] # "none" => row'[r] # "none" /\ auth'[r] = auth[r]
  /\ \A r \in Reqs : row[r] = "expired" => row'[r] = "expired"
  /\ journal # Nothing /\ row[journal] \in {"active", "revoked"} => row'[journal] \in {"active", "revoked"}

\* commit_issuance: the row it inserts is the journal's, and its token is the
\* Active credential's or the unspent bootstrap token.
LEMMA InsertRow ==
  ASSUME MaxRequests \in Nat, EnrollInv, NEW r \in Reqs, NEW t \in 0 .. MaxRequests,
         r <= created, row[r] = "none", Authentic(t), Insert(r, t),
         UNCHANGED <<created, journal>>
  PROVE  /\ RowsInv' /\ RowsKept /\ r = journal /\ boot # "revoked" /\ boot' # "revoked"
         /\ row' \in [Reqs -> Statuses] /\ auth' \in [Reqs -> 0 .. MaxRequests]
         /\ prev' \in [Reqs -> 0 .. MaxRequests] /\ boot' \in {"open", "consumed", "expired", "revoked"}
         /\ grants' \subseteq Reqs
<1>1. EnrollType /\ RowsInv BY DEF EnrollInv
<1>2. /\ row \in [Reqs -> Statuses] /\ auth \in [Reqs -> 0 .. MaxRequests]
      /\ prev \in [Reqs -> 0 .. MaxRequests] /\ created \in Nat /\ journal \in {Nothing, created}
  BY <1>1 DEF EnrollType
<1>3. /\ row' = [row EXCEPT ![r] = "pending"] /\ auth' = [auth EXCEPT ![r] = t]
      /\ prev' = [prev EXCEPT ![r] = t] /\ grants' = grants \cup {r}
      /\ boot' = IF t = Boot THEN "consumed" ELSE boot
  BY DEF Insert
<1>4. /\ row'[r] = "pending" /\ auth'[r] = t /\ prev'[r] = t
      /\ \A q \in Reqs \ {r} : row'[q] = row[q] /\ auth'[q] = auth[q] /\ prev'[q] = prev[q]
  BY <1>2, <1>3
<1>5. r = journal /\ r = created
  <2>1. r = journal BY <1>1 DEF RowsInv, Over
  <2> QED BY <1>2, <2>1, Numbers DEF Nothing
<1>6. t # Boot => t \in Reqs /\ row[t] = "active" /\ t # r /\ t < r
  <2> HAVE t # Boot
  <2>1. t \in Reqs /\ row[t] = "active" BY DEF Authentic
  <2>2. t # r BY <2>1
  <2>3. ~(t > created) BY <1>1, <2>1 DEF RowsInv
  <2> QED BY <1>2, <1>5, <2>1, <2>2, <2>3, Numbers
<1>7. t = Boot => boot = "open" /\ \A q \in Reqs : row[q] = "none" BY <1>1 DEF Authentic, RowsInv
<1>8. boot # "revoked"
  <2>1. CASE t = Boot BY <1>7, <2>1
  <2>2. CASE t # Boot BY <1>1, <1>6, <2>2 DEF RowsInv, HoldsGrant
  <2> QED BY <2>1, <2>2
<1>9. boot' \notin {"revoked", "open", "expired"}
  <2>1. CASE t = Boot BY <1>3, <2>1
  <2>2. CASE t # Boot
    <3>1. boot \notin {"open", "expired"} BY <1>1, <1>6, <2>2 DEF RowsInv
    <3> QED BY <1>3, <1>8, <2>2, <3>1
  <2> QED BY <2>1, <2>2
<1>10. \A q \in Reqs : row'[q] = "active" <=> row[q] = "active" BY <1>4
<1>11. RowsInv'
  <2>1. \A q \in Reqs : q > created' => row'[q] = "none" BY <1>1, <1>2, <1>4, <1>5 DEF RowsInv
  <2>2. \A q \in Reqs : q <= created' /\ q # journal' => row'[q] \in Over
    BY <1>1, <1>4, <1>5 DEF RowsInv
  <2>3. t < r BY <1>6, Numbers DEF Boot
  <2>4. \A q \in Reqs : auth'[q] = prev'[q] /\ prev'[q] < q BY <1>1, <1>4, <2>3 DEF RowsInv
  <2>5. ASSUME NEW q \in Reqs, row'[q] = "pending"
        PROVE  IF prev'[q] = Nothing THEN \A p \in Reqs : row'[p] # "active" ELSE row'[prev'[q]] = "active"
    <3>1. q = r
      <4>1. SUFFICES ASSUME q # r PROVE FALSE OBVIOUS
      <4>2. row[q] = "pending" BY <1>4, <2>5, <4>1
      <4>3. q <= created
        <5>1. ~(q > created) BY <1>1, <4>2 DEF RowsInv
        <5> QED BY <1>2, <5>1, Numbers
      <4> QED BY <1>1, <1>5, <4>1, <4>2, <4>3 DEF RowsInv, Over
    <3>2. CASE t = Boot BY <1>4, <1>7, <1>10, <3>1, <3>2 DEF Boot, Nothing
    <3>3. CASE t # Boot BY <1>4, <1>6, <1>10, <3>1, <3>3 DEF Boot, Nothing
    <3> QED BY <3>2, <3>3
  <2>6. \A p, q \in Reqs : row'[p] = "active" /\ row'[q] = "active" => p = q
    BY <1>1, <1>10 DEF RowsInv
  <2>7. /\ \A q \in Reqs : row'[q] # "revoked"
        /\ (\E q \in Reqs : row'[q] = "retired") => \E q \in Reqs : row'[q] = "active"
    BY <1>1, <1>4, <1>8, <1>10 DEF RowsInv
  <2>8. GrantsMatchRows' BY <1>1, <1>3, <1>4 DEF RowsInv, GrantsMatchRows, HoldsGrant
  <2>9. journal' # Nothing => row'[journal'] # "retired" BY <1>4, <1>5
  <2> QED BY <1>9, <2>1, <2>2, <2>4, <2>5, <2>6, <2>7, <2>8, <2>9 DEF RowsInv
<1>12. RowsKept
  <2>1. \A q \in Reqs : row[q] # "none" => row'[q] = row[q] /\ auth'[q] = auth[q] BY <1>4
  <2>2. journal \in Reqs /\ row[journal] = "none" BY <1>5
  <2> QED BY <2>1, <2>2 DEF RowsKept
<1>13. row' \in [Reqs -> Statuses] BY <1>2, <1>3 DEF Statuses
<1>14. boot' \in {"open", "consumed", "expired", "revoked"} /\ grants' \subseteq Reqs
  BY <1>1, <1>3 DEF EnrollType
<1> QED BY <1>2, <1>3, <1>5, <1>8, <1>9, <1>11, <1>12, <1>13, <1>14

\* activate: the row becomes the one Active credential.
LEMMA ActivateRowKeeps ==
  ASSUME MaxRequests \in Nat, EnrollInv, NEW r \in Reqs, row[r] = "pending", ActivateRow(r),
         UNCHANGED <<created, journal, auth, prev, boot>>
  PROVE  /\ RowsInv' /\ RowsKept /\ r = journal /\ row'[r] = "active" /\ boot # "revoked"
         /\ row' \in [Reqs -> Statuses] /\ grants' \subseteq Reqs
         /\ \A q \in Reqs \ {r} : row'[q] = row[q] \/ (q = prev[r] /\ row'[q] = "retired")
<1>1. EnrollType /\ RowsInv BY DEF EnrollInv
<1>2. /\ row \in [Reqs -> Statuses] /\ created \in Nat /\ journal \in {Nothing, created}
      /\ prev \in [Reqs -> 0 .. MaxRequests]
  BY <1>1 DEF EnrollType
<1> DEFINE p == prev[r]
<1>3. /\ row' = [q \in Reqs |-> IF q = r THEN "active"
                                ELSE IF p # Nothing /\ q = p THEN "retired" ELSE row[q]]
      /\ grants' = IF p # Nothing THEN grants \ {p} ELSE grants
  BY DEF ActivateRow
<1>4. /\ row'[r] = "active"
      /\ \A q \in Reqs \ {r} : row'[q] = IF p # Nothing /\ q = p THEN "retired" ELSE row[q]
  BY <1>3
<1>5. r = journal /\ r <= created /\ p < r /\ p # r /\ p \in 0 .. MaxRequests
  <2>1. ~(r > created) BY <1>1 DEF RowsInv
  <2>2. r <= created BY <1>2, <2>1, Numbers
  <2>3. r = journal BY <1>1, <2>2 DEF RowsInv, Over
  <2>4. p < r /\ p \in 0 .. MaxRequests BY <1>1, <1>2 DEF RowsInv
  <2> QED BY <2>2, <2>3, <2>4, Numbers
<1>6. p # Nothing => p \in Reqs /\ row[p] = "active" BY <1>1, <1>5 DEF RowsInv, Reqs, Nothing
<1>7. p = Nothing => \A q \in Reqs : row[q] # "active" BY <1>1 DEF RowsInv
<1>8. \A q \in Reqs : row[q] = "active" => q = p /\ p # Nothing BY <1>1, <1>6, <1>7 DEF RowsInv
<1>9. \A q \in Reqs : row'[q] = "active" => q = r BY <1>4, <1>8
<1>10. \A q \in Reqs : row[q] = "pending" => q = r
  <2> TAKE q \in Reqs
  <2> HAVE row[q] = "pending"
  <2>1. ~(q > created) BY <1>1 DEF RowsInv
  <2>2. q <= created BY <1>2, <2>1, Numbers
  <2> QED BY <1>1, <1>5, <2>2 DEF RowsInv, Over
<1>11. boot \notin {"revoked", "open", "expired"} BY <1>1 DEF RowsInv, HoldsGrant
<1> HIDE DEF p
<1>12. RowsInv'
  <2>1. \A q \in Reqs : q > created' => row'[q] = "none"
    <3>1. \A q \in Reqs : q > created => q # r /\ q # p
      BY <1>2, <1>5, Numbers
    <3> QED BY <1>1, <1>4, <3>1 DEF RowsInv
  <2>2. \A q \in Reqs : q <= created' /\ q # journal' => row'[q] \in Over
    BY <1>1, <1>4, <1>5 DEF RowsInv, Over
  <2>3. \A q \in Reqs : auth'[q] = prev'[q] /\ prev'[q] < q BY <1>1 DEF RowsInv
  <2>4. \A q \in Reqs : row'[q] # "pending" BY <1>4, <1>10
  <2>5. \A a, b \in Reqs : row'[a] = "active" /\ row'[b] = "active" => a = b BY <1>9
  <2>6. /\ \A q \in Reqs : row'[q] # "revoked" /\ \E b \in Reqs : row'[b] = "active"
    BY <1>1, <1>4, <1>11 DEF RowsInv
  <2>7. GrantsMatchRows'
    <3>1. grants = {q \in Reqs : row[q] \in HoldsGrant} BY <1>1 DEF RowsInv, GrantsMatchRows
    <3>2. \A q \in Reqs : row'[q] \in HoldsGrant <=> row[q] \in HoldsGrant /\ (p = Nothing \/ q # p)
      BY <1>4, <1>5 DEF HoldsGrant
    <3> QED BY <1>3, <3>1, <3>2 DEF GrantsMatchRows
  <2>8. journal' # Nothing => row'[journal'] # "retired" BY <1>4, <1>5
  <2> QED BY <1>11, <2>1, <2>2, <2>3, <2>4, <2>5, <2>6, <2>7, <2>8 DEF RowsInv
<1>13. RowsKept
  <2>1. \A q \in Reqs : row[q] # "none" => row'[q] # "none" /\ auth'[q] = auth[q] BY <1>4
  <2>2. \A q \in Reqs : row[q] = "expired" => row'[q] = "expired" BY <1>4, <1>6
  <2> QED BY <1>4, <1>5, <2>1, <2>2 DEF RowsKept
<1>14. row' \in [Reqs -> Statuses] BY <1>2, <1>3 DEF Statuses
<1>15. grants' \subseteq Reqs BY <1>1, <1>3 DEF EnrollType
<1> QED BY <1>4, <1>5, <1>11, <1>12, <1>13, <1>14, <1>15 DEF p

\* expire_pending_credential.
LEMMA ExpireKeeps ==
  ASSUME MaxRequests \in Nat, EnrollInv, NEW rs, \A r \in rs : r \in Reqs /\ row[r] \in {"pending", "expired"},
         ExpireRows(rs), UNCHANGED <<created, journal, auth, prev, boot>>
  PROVE  /\ RowsInv' /\ RowsKept /\ row' \in [Reqs -> Statuses] /\ grants' \subseteq Reqs
         /\ \A q \in Reqs : row'[q] = IF q \in rs THEN "expired" ELSE row[q]
<1>1. EnrollType /\ RowsInv BY DEF EnrollInv
<1>2. row \in [Reqs -> Statuses] BY <1>1 DEF EnrollType
<1>3. /\ row' = [q \in Reqs |-> IF q \in rs THEN "expired" ELSE row[q]] /\ grants' = grants \ rs
  BY DEF ExpireRows
<1>4. \A q \in Reqs : row'[q] = IF q \in rs THEN "expired" ELSE row[q] BY <1>3
<1>5. \A q \in Reqs : row'[q] = "active" <=> row[q] = "active" BY <1>4
<1>6. \A q \in Reqs : row'[q] = "none" <=> row[q] = "none" BY <1>4
<1>7. RowsInv'
  <2>1. \A q \in Reqs : q > created' => row'[q] = "none" BY <1>1, <1>6 DEF RowsInv
  <2>2. \A q \in Reqs : q <= created' /\ q # journal' => row'[q] \in Over BY <1>1, <1>4 DEF RowsInv, Over
  <2>3. \A q \in Reqs : auth'[q] = prev'[q] /\ prev'[q] < q BY <1>1 DEF RowsInv
  <2>4. \A q \in Reqs : row'[q] = "pending" =>
          IF prev'[q] = Nothing THEN \A p \in Reqs : row'[p] # "active" ELSE row'[prev'[q]] = "active"
    <3> TAKE q \in Reqs
    <3> HAVE row'[q] = "pending"
    <3>1. row[q] = "pending" BY <1>4
    <3>2. CASE prev[q] = Nothing BY <1>1, <1>5, <3>1, <3>2 DEF RowsInv
    <3>3. CASE prev[q] # Nothing
      <4>1. row[prev[q]] = "active" BY <1>1, <3>1, <3>3 DEF RowsInv
      <4>2. prev[q] \in Reqs BY <1>1, <3>3 DEF EnrollType, Reqs, Nothing
      <4> QED BY <1>5, <3>3, <4>1, <4>2
    <3> QED BY <3>2, <3>3
  <2>5. \A p, q \in Reqs : row'[p] = "active" /\ row'[q] = "active" => p = q BY <1>1, <1>5 DEF RowsInv
  <2>6. boot' \in {"open", "expired"} => \A r \in Reqs : row'[r] = "none" BY <1>1, <1>6 DEF RowsInv
  <2>7. boot' # "revoked" =>
          /\ \A r \in Reqs : row'[r] # "revoked"
          /\ (\E r \in Reqs : row'[r] = "retired") => \E q \in Reqs : row'[q] = "active"
    BY <1>1, <1>4, <1>5 DEF RowsInv
  <2>8. boot' = "revoked" => \A r \in Reqs : row'[r] \notin HoldsGrant
    BY <1>1, <1>4 DEF RowsInv, HoldsGrant
  <2>9. GrantsMatchRows' BY <1>1, <1>3, <1>4 DEF RowsInv, GrantsMatchRows, HoldsGrant
  <2>10. journal' # Nothing => row'[journal'] # "retired"
    <3>1. journal # Nothing => journal \in Reqs BY <1>1 DEF EnrollType, Reqs, Nothing
    <3> QED BY <1>1, <1>4, <3>1 DEF RowsInv
  <2> QED BY <2>1, <2>2, <2>3, <2>4, <2>5, <2>6, <2>7, <2>8, <2>9, <2>10 DEF RowsInv
<1>8. RowsKept
  <2>1. journal # Nothing => journal \in Reqs BY <1>1 DEF EnrollType, Reqs, Nothing
  <2> QED BY <1>4, <1>6, <2>1 DEF RowsKept
<1>9. row' \in [Reqs -> Statuses] BY <1>2, <1>3 DEF Statuses
<1>10. grants' \subseteq Reqs BY <1>1, <1>3 DEF EnrollType
<1> QED BY <1>4, <1>7, <1>8, <1>9, <1>10

\* revoke_agent.
LEMMA RevokeKeeps ==
  ASSUME MaxRequests \in Nat, EnrollInv, boot' = "revoked", grants' = {},
         row' = [r \in Reqs |-> IF row[r] \in HoldsGrant THEN "revoked" ELSE row[r]],
         UNCHANGED <<created, journal, auth, prev>>
  PROVE  RowsInv' /\ RowsKept /\ row' \in [Reqs -> Statuses]
<1>1. EnrollType /\ RowsInv BY DEF EnrollInv
<1>2. row \in [Reqs -> Statuses] BY <1>1 DEF EnrollType
<1>3. \A q \in Reqs : row'[q] = IF row[q] \in HoldsGrant THEN "revoked" ELSE row[q] OBVIOUS
<1>4. \A q \in Reqs : row'[q] \notin HoldsGrant /\ (row'[q] = "none" <=> row[q] = "none")
  BY <1>3 DEF HoldsGrant
<1>5. \A q \in Reqs : row'[q] # "pending" /\ row'[q] # "active" BY <1>4 DEF HoldsGrant
<1>6. RowsInv'
  <2>1. \A q \in Reqs : q > created' => row'[q] = "none" BY <1>1, <1>4 DEF RowsInv
  <2>2. \A q \in Reqs : q <= created' /\ q # journal' => row'[q] \in Over BY <1>1, <1>3 DEF RowsInv, Over
  <2>3. \A q \in Reqs : auth'[q] = prev'[q] /\ prev'[q] < q BY <1>1 DEF RowsInv
  <2>4. GrantsMatchRows' BY <1>4 DEF GrantsMatchRows
  <2>5. journal' # Nothing => row'[journal'] # "retired"
    <3>1. journal # Nothing => journal \in Reqs BY <1>1 DEF EnrollType, Reqs, Nothing
    <3> QED BY <1>1, <1>3, <3>1 DEF RowsInv
  <2> QED BY <1>4, <1>5, <2>1, <2>2, <2>3, <2>4, <2>5 DEF RowsInv
<1>7. RowsKept
  <2>1. journal # Nothing => journal \in Reqs BY <1>1 DEF EnrollType, Reqs, Nothing
  <2> QED BY <1>3, <1>4, <2>1 DEF RowsKept, HoldsGrant
<1>8. row' \in [Reqs -> Statuses] BY <1>2 DEF Statuses
<1> QED BY <1>6, <1>7, <1>8

-----------------------------------------------------------------------------
(* The service's side: the Agent's own state does not change.              *)

\* What rotate waits for is determined by where it stands.
LEMMA LiveUnique ==
  ASSUME MaxRequests \in Nat, EnrollInv, NEW m \in InService, NEW n \in InService, m.live, n.live
  PROVE  m = n
<1>1. m \in Message /\ n \in Message BY ServiceType DEF EnrollInv
<1>2. m.kind = n.kind /\ m.req = n.req /\ m.token = n.token BY DEF EnrollInv, MessageInv
<1>3. m.live = TRUE /\ n.live = TRUE BY <1>1, MessageFields
<1>4. /\ m = [kind |-> m.kind, req |-> m.req, token |-> m.token, live |-> m.live]
      /\ n = [kind |-> n.kind, req |-> n.req, token |-> n.token, live |-> n.live]
  BY <1>1 DEF Message
<1> QED BY Zenon, <1>2, <1>3, <1>4

LEMMA JournalIsRequest ==
  ASSUME MaxRequests \in Nat, EnrollInv
  PROVE  (journal # Nothing => journal \in Reqs /\ journal = created) /\ (manifest # Nothing => manifest \in Reqs)
<1>1. created \in 0 .. MaxRequests /\ journal \in {Nothing, created} /\ manifest \in 0 .. created
  BY DEF EnrollInv, EnrollType
<1> QED BY <1>1 DEF Nothing, Reqs

LEMMA AgentKept ==
  ASSUME MaxRequests \in Nat, EnrollInv, RowsKept, UNCHANGED agentVars
  PROVE  AgentInv'
<1>1. AgentInv BY DEF EnrollInv
<1>2. (journal # Nothing => journal \in Reqs) /\ (manifest # Nothing => manifest \in Reqs) BY JournalIsRequest
<1>3. /\ proc' = proc /\ pc' = pc /\ token' = token /\ journal' = journal /\ manifest' = manifest
  BY DEF agentVars
<1>4. pc \in Later => journal # Nothing BY <1>1 DEF AgentInv, Later
<1>5. pc \in {"swap", "clear"} => journal # Nothing BY <1>1 DEF AgentInv
<1>6. /\ journal # Nothing /\ row[journal] # "none" => row'[journal] # "none"
      /\ journal # Nothing /\ row[journal] \in {"active", "revoked"} => row'[journal] \in {"active", "revoked"}
      /\ manifest # Nothing => row'[manifest] # "none"
  BY <1>1, <1>2 DEF AgentInv, RowsKept
<1> QED BY <1>1, <1>3, <1>4, <1>5, <1>6 DEF AgentInv

LEMMA MessagesKept ==
  ASSUME MaxRequests \in Nat, EnrollInv, RowsKept, UNCHANGED agentVars, InService' \subseteq InService
  PROVE  /\ \A m \in InService' : /\ m.req <= created'
                                  /\ m.kind = "enroll" /\ row'[m.req] = "none" => m.token = token'
         /\ \A m \in InService' : m.live =>
              /\ pc' \in {"issue", "activate"} /\ m.req = journal'
              /\ m.kind = IF pc' = "issue" THEN "enroll" ELSE "activate"
              /\ m.token = IF pc' = "issue" THEN token' ELSE journal'
<1>1. MessageInv BY DEF EnrollInv
<1>2. pc' = pc /\ token' = token /\ journal' = journal /\ created' = created BY DEF agentVars
<1>3. \A m \in InService : m.req \in Reqs BY Zenon, ServiceType, MessageFields DEF EnrollInv
<1>4. \A m \in InService : row'[m.req] = "none" => row[m.req] = "none" BY <1>3 DEF RowsKept
<1> QED BY <1>1, <1>2, <1>4 DEF MessageInv

\* An answer to the live request leaves nothing the Agent still waits for.
LEMMA ReplyKeeps ==
  ASSUME MaxRequests \in Nat, EnrollInv, RowsKept, UNCHANGED agentVars, NEW m \in InService, NEW a,
         InService' \subseteq InService \ {m}, Reply(m, a),
         m.live => /\ a = "issued" => row'[m.req] # "none"
                   /\ a = "activated" => row'[m.req] \in {"active", "revoked"}
                   /\ a = "expired" => row'[m.req] = "expired"
  PROVE  AnswerInv'
<1>1. AnswerInv /\ MessageInv BY DEF EnrollInv
<1>2. pc' = pc /\ journal' = journal BY DEF agentVars
<1>3. CASE m.live
  <2>1. reply' = a BY <1>3 DEF Reply
  <2>2. pc \in {"issue", "activate"} /\ m.req = journal BY <1>1, <1>3 DEF MessageInv
  <2>3. \A n \in InService' : ~n.live BY <1>3, LiveUnique
  <2> QED BY <1>2, <1>3, <2>1, <2>2, <2>3 DEF AnswerInv
<1>4. CASE ~m.live
  <2>1. reply' = reply BY <1>4 DEF Reply
  <2>2. pc \in {"issue", "activate"} => journal # Nothing /\ journal \in Reqs
    BY JournalIsRequest DEF EnrollInv, AgentInv
  <2>3. ASSUME reply # NoAnswer PROVE AnswerInv'
    <3>1. pc \in {"issue", "activate"} /\ \A n \in InService : ~n.live BY <1>1, <2>3 DEF AnswerInv
    <3> QED BY <1>1, <1>2, <2>1, <2>2, <2>3, <3>1 DEF AnswerInv, RowsKept
  <2>4. CASE reply = NoAnswer BY <2>1, <2>4 DEF AnswerInv
  <2> QED BY <2>3, <2>4
<1> QED BY <1>3, <1>4

LEMMA AnswerKept ==
  ASSUME MaxRequests \in Nat, EnrollInv, RowsKept, UNCHANGED agentVars, UNCHANGED reply, InService' \subseteq InService
  PROVE  AnswerInv'
<1>1. AnswerInv BY DEF EnrollInv
<1>2. pc' = pc /\ journal' = journal BY DEF agentVars
<1>3. pc \in {"issue", "activate"} => journal # Nothing /\ journal \in Reqs
  BY JournalIsRequest DEF EnrollInv, AgentInv
<1>4. CASE reply # NoAnswer BY <1>1, <1>2, <1>3, <1>4 DEF AnswerInv, RowsKept
<1>5. CASE reply = NoAnswer BY <1>5 DEF AnswerInv
<1> QED BY <1>4, <1>5

LEMMA ServedKept ==
  ASSUME MaxRequests \in Nat, EnrollInv, UNCHANGED agentVars, UNCHANGED served, reply' = "issued" => reply = "issued",
         \A r \in Reqs : row'[r] \in HoldsGrant => row[r] \in HoldsGrant \cup {"none"}
  PROVE  ServedInv'
<1>1. pc' = pc /\ journal' = journal /\ manifest' = manifest BY DEF agentVars
<1> SUFFICES ASSUME NEW r \in Reqs, row'[r] \in HoldsGrant,
                    r = manifest \/ (r = journal /\ (reply = "issued" \/ pc \in {"publish", "commit"}))
             PROVE  r \in served
  BY <1>1 DEF ServedInv
<1>2. row[r] # "none"
  <2>1. CASE r = manifest BY <2>1, Numbers DEF EnrollInv, AgentInv, Reqs, Nothing
  <2>2. CASE r = journal /\ pc \in {"publish", "commit"} BY <2>2 DEF EnrollInv, AgentInv, Later
  <2>3. CASE r = journal /\ reply = "issued" BY <2>3 DEF EnrollInv, AnswerInv, NoAnswer
  <2> QED BY <2>1, <2>2, <2>3
<1>3. row[r] \in HoldsGrant BY <1>2 DEF HoldsGrant
<1> QED BY <1>3 DEF EnrollInv, ServedInv

LEMMA ServedFresh ==
  ASSUME RowsInv', served' = grants'
  PROVE  ServedInv'
BY DEF RowsInv, GrantsMatchRows, ServedInv

\* The token a step leaves good stays good.
LEMMA RecoverKept ==
  ASSUME MaxRequests \in Nat, EnrollInv, UNCHANGED agentVars, UNCHANGED <<row, auth, boot>>
  PROVE  RecoverInv'
<1>1. token' = token /\ journal' = journal BY DEF agentVars
<1>2. RecoverInv BY DEF EnrollInv
<1> QED BY <1>1, <1>2 DEF RecoverInv, BootstrapLost, Authentic

LEMMA RowsUnchanged ==
  ASSUME MaxRequests \in Nat, EnrollInv, UNCHANGED <<created, journal, row, auth, prev, boot, grants>>
  PROVE  RowsInv' /\ RowsKept
<1>1. RowsInv' BY DEF EnrollInv, RowsInv, GrantsMatchRows
<1>2. RowsKept BY DEF RowsKept
<1> QED BY <1>1, <1>2

\* A bootstrap token expires before any request was taken.
LEMMA SpentBoot ==
  ASSUME RowsInv, boot = "open", boot' = "expired", UNCHANGED <<created, journal, row, auth, prev, grants>>
  PROVE  RowsInv' /\ RowsKept
<1>1. RowsInv' BY DEF RowsInv, GrantsMatchRows
<1>2. RowsKept BY DEF RowsKept
<1> QED BY <1>1, <1>2

LEMMA PreflightKeeps ==
  ASSUME MaxRequests \in Nat, EnrollInv, NEW m \in msgs, Preflight(m)
  PROVE  EnrollInv'
<1>1. EnrollType /\ RowsInv /\ MessageInv BY DEF EnrollInv
<1>2. /\ srv = Idle /\ msgs' = msgs \ {m} /\ m.kind = "enroll" /\ UNCHANGED agentVars
      /\ UNCHANGED <<row, auth, prev, late, boot, grants, served>>
  BY DEF Preflight, Accept
<1>3. /\ proc' = proc /\ pc' = pc /\ created' = created /\ journal' = journal /\ token' = token
      /\ manifest' = manifest
  BY <1>2 DEF agentVars
<1>4. m \in Message /\ m \in InService /\ InService = msgs BY <1>1, <1>2 DEF EnrollType, InService
<1>5. RowsInv' /\ RowsKept BY <1>2, <1>3, RowsUnchanged
<1>6. AgentInv' /\ RecoverInv' BY <1>2, <1>5, AgentKept, RecoverKept
<1>7. m.live => \A n \in msgs' : ~n.live
  <2>1. \A n \in msgs : n.live /\ m.live => n = m BY <1>4, LiveUnique
  <2> QED BY <1>2, <2>1
<1>8. CASE Found(m) \in {"new", "issued"}
  <2> DEFINE at == IF Found(m) = "new" THEN "preflighted" ELSE "durable"
  <2>1. srv' = [at |-> at, msg |-> m] /\ reply' = reply BY <1>8 DEF Preflight
  <2>2. at \in {"preflighted", "durable"} OBVIOUS
  <2>3. IF at = "durable" THEN row[m.req] # "none" ELSE row[m.req] = "none" BY <1>8 DEF Found
  <2> HIDE DEF at
  <2>4. srv'.at = at /\ srv'.msg = m BY <2>1
  <2>5. srv' # Idle
    <3>1. Idle.at = "idle" BY DEF Idle
    <3> QED BY <2>2, <2>4, <3>1
  <2>6. InService' = msgs BY <1>2, <2>4, <2>5 DEF InService
  <2>7. srv' \in [at : {"preflighted", "durable"}, msg : Message] BY <1>4, <2>1, <2>2
  <2>8. EnrollType' BY <1>1, <1>2, <1>3, <2>1, <2>7 DEF EnrollType
  <2>9. AnswerInv' BY <1>2, <1>4, <1>5, <2>1, <2>6, AnswerKept
  <2>10. ServedInv' BY <1>2, <2>1, ServedKept
  <2>11. MessageInv'
    <3>1. InService' \subseteq InService BY <1>4, <2>6
    <3>2. row'[m.req] = row[m.req] BY <1>2
    <3> QED BY <1>2, <1>5, <1>7, <2>3, <2>4, <3>1, <3>2, MessagesKept DEF MessageInv
  <2> QED BY <1>5, <1>6, <2>8, <2>9, <2>10, <2>11 DEF EnrollInv
<1>9. CASE Found(m) \notin {"new", "issued"}
  <2>1. Reply(m, Found(m)) /\ srv' = Idle BY <1>2, <1>9 DEF Preflight
  <2>2. Found(m) \in {"expired", "rejected"} /\ (Found(m) = "expired" => row[m.req] = "expired")
    BY <1>9 DEF Found
  <2>3. reply' \in Replies BY <1>1, <2>1, <2>2 DEF Reply, Replies, EnrollType
  <2>4. EnrollType' BY Zenon, <1>1, <1>2, <1>3, <2>1, <2>3 DEF EnrollType
  <2>5. InService' = msgs \ {m} BY Zenon, <1>2, <2>1 DEF InService
  <2>6. AnswerInv'
    <3>1. row'[m.req] = row[m.req] BY <1>2
    <3> QED BY <1>2, <1>4, <1>5, <2>1, <2>2, <2>5, <3>1, ReplyKeeps
  <2>7. ServedInv'
    <3>1. reply' = "issued" => reply = "issued" BY <2>1, <2>2 DEF Reply
    <3> QED BY <1>2, <3>1, ServedKept
  <2>8. MessageInv' BY <1>2, <1>4, <1>5, <2>1, <2>5, MessagesKept DEF MessageInv
  <2> QED BY <1>5, <1>6, <2>4, <2>6, <2>7, <2>8 DEF EnrollInv
<1> QED BY <1>8, <1>9

\* What a handler that holds the gate has in hand.
LEMMA HandlerShape ==
  ASSUME MaxRequests \in Nat, EnrollInv, srv # Idle
  PROVE  /\ srv = [at |-> srv.at, msg |-> srv.msg] /\ srv.msg \in Message /\ srv.msg \in InService
         /\ srv.msg.live => srv.msg \notin msgs
         /\ srv.msg.req \in Reqs /\ srv.msg.token \in 0 .. MaxRequests /\ srv.msg.req <= created
<1>1. srv \in [at : {"preflighted", "durable"}, msg : Message] BY DEF EnrollInv, EnrollType
<1>2. srv.msg \in Message /\ srv.msg \in InService BY ServiceType DEF EnrollInv
<1>3. srv.msg.live => srv.msg \notin msgs BY DEF EnrollInv, MessageInv
<1>4. srv.msg.req <= created BY <1>2 DEF EnrollInv, MessageInv
<1> QED BY Zenon, <1>1, <1>2, <1>3, <1>4, MessageFields

\* A handler that ends answers its request.
LEMMA HandlerEnds ==
  ASSUME MaxRequests \in Nat, EnrollInv, RowsInv', RowsKept, RecoverInv', srv # Idle, srv' = Idle, UNCHANGED msgs,
         UNCHANGED agentVars, NEW a \in Replies, Reply(srv.msg, a),
         srv.msg.live => /\ a = "issued" => row'[srv.msg.req] # "none"
                         /\ a = "activated" => row'[srv.msg.req] \in {"active", "revoked"}
                         /\ a = "expired" => row'[srv.msg.req] = "expired"
  PROVE  AgentInv' /\ AnswerInv' /\ MessageInv' /\ reply' \in Replies
<1>1. AgentInv' BY AgentKept
<1>2. InService' = msgs /\ msgs \subseteq InService BY DEF InService
<1>3. MessageInv' BY Zenon, <1>2, MessagesKept DEF MessageInv
<1>4. reply' \in Replies BY DEF Reply, EnrollInv, EnrollType
<1>5. CASE srv.msg.live
  <2>1. srv.msg \in InService /\ srv.msg \notin msgs BY <1>5, HandlerShape
  <2>2. InService' \subseteq InService \ {srv.msg} BY <1>2, <2>1
  <2>3. AnswerInv' BY <1>5, <2>1, <2>2, ReplyKeeps
  <2> QED BY <1>1, <1>3, <1>4, <2>3
<1>6. CASE ~srv.msg.live
  <2>1. reply' = reply BY <1>6 DEF Reply
  <2> QED BY <1>1, <1>2, <1>3, <1>4, <2>1, AnswerKept
<1> QED BY <1>5, <1>6

LEMMA CommitKeeps ==
  ASSUME MaxRequests \in Nat, EnrollInv, Commit
  PROVE  EnrollInv'
<1> DEFINE m == srv.msg
<1>1. EnrollType /\ RowsInv /\ MessageInv BY DEF EnrollInv
<1>2. /\ srv # Idle /\ srv.at = "preflighted" /\ UNCHANGED agentVars /\ UNCHANGED <<msgs, late, served>>
  BY DEF Commit
<1>3. /\ proc' = proc /\ pc' = pc /\ created' = created /\ journal' = journal /\ token' = token
      /\ manifest' = manifest
  BY <1>2 DEF agentVars
<1>4. /\ srv = [at |-> srv.at, msg |-> m] /\ m \in Message /\ m \in InService
      /\ m.req \in Reqs /\ m.token \in 0 .. MaxRequests /\ m.req <= created
  BY <1>2, HandlerShape
<1>5. m.kind = "enroll" BY <1>1, <1>2 DEF MessageInv
<1>6. CASE Found(m) = "new"
  <2>1. /\ Insert(m.req, m.token) /\ srv' = [srv EXCEPT !.at = "durable"] /\ reply' = reply
    BY <1>6 DEF Commit, CommitFinds
  <2>2. row[m.req] = "none" /\ Authentic(m.token)
    <3>1. row[m.req] = "none" BY <1>6 DEF Found
    <3> QED BY <1>6, <3>1 DEF Found
  <2>3. UNCHANGED <<created, journal>> BY <1>3
  <2>4. /\ RowsInv' /\ RowsKept /\ m.req = journal /\ boot # "revoked" /\ boot' # "revoked"
        /\ row' \in [Reqs -> Statuses] /\ auth' \in [Reqs -> 0 .. MaxRequests]
        /\ prev' \in [Reqs -> 0 .. MaxRequests] /\ boot' \in {"open", "consumed", "expired", "revoked"}
        /\ grants' \subseteq Reqs
    BY <1>4, <2>1, <2>2, <2>3, InsertRow
  <2>5. srv' = [at |-> "durable", msg |-> m] BY <1>4, <2>1
  <2>6. srv'.at = "durable" /\ srv'.msg = m BY <2>5
  <2>7. srv' # Idle
    <3>1. Idle.at = "idle" BY DEF Idle
    <3> QED BY <2>6, <3>1
  <2>8. InService' = InService BY <1>2, <2>6, <2>7 DEF InService
  <2>9. EnrollType'
    <3>1. srv' \in [at : {"preflighted", "durable"}, msg : Message] BY <1>4, <2>5
    <3> QED BY <1>1, <1>2, <1>3, <2>1, <2>4, <3>1 DEF EnrollType
  <2>10. AgentInv' BY <1>2, <2>4, AgentKept
  <2>11. AnswerInv' BY <1>2, <2>1, <2>4, <2>8, AnswerKept
  <2>12. \A q \in Reqs \ {m.req} : row'[q] = row[q] /\ auth'[q] = auth[q]
    BY <1>1, <1>4, <2>1 DEF Insert, EnrollType
  <2>13. row'[m.req] = "pending" /\ auth'[m.req] = m.token BY <1>1, <1>4, <2>1 DEF Insert, EnrollType
  <2>14. ServedInv'
    <3>1. \A r \in Reqs : row'[r] \in HoldsGrant => row[r] \in HoldsGrant \cup {"none"}
      BY Zenon, <2>2, <2>12
    <3> QED BY <1>2, <2>1, <3>1, ServedKept
  <2>15. MessageInv' BY Zenon, <1>1, <1>2, <1>5, <2>4, <2>6, <2>7, <2>8, <2>13, MessagesKept DEF MessageInv
  <2>16. RecoverInv'
    <3>1. m.token = token BY <1>1, <1>4, <1>5, <2>2 DEF MessageInv
    <3>2. journal' = m.req /\ journal' # Nothing BY <1>3, <1>4, <2>4, Numbers DEF Nothing
    <3> QED BY <1>3, <2>13, <3>1, <3>2 DEF RecoverInv
  <2> QED BY <2>4, <2>9, <2>10, <2>11, <2>14, <2>15, <2>16 DEF EnrollInv
<1>7. CASE Found(m) # "new"
  <2>1. row[m.req] = "none" BY <1>1, <1>2 DEF MessageInv
  <2>2. Found(m) = "rejected" BY <1>7, <2>1 DEF Found
  <2>3. Reply(m, "rejected") /\ srv' = Idle /\ UNCHANGED <<row, auth, prev, boot, grants>>
    BY <1>7, <2>2 DEF Commit, CommitFinds
  <2>4. RowsInv' /\ RowsKept /\ RecoverInv' BY <1>2, <1>3, <2>3, RowsUnchanged, RecoverKept
  <2>5. AgentInv' /\ AnswerInv' /\ MessageInv' /\ reply' \in Replies
    <3>1. "rejected" \in Replies BY DEF Replies
    <3> QED BY <1>2, <2>3, <2>4, <3>1, HandlerEnds
  <2>6. ServedInv'
    <3>1. reply' = "issued" => reply = "issued" BY <2>3 DEF Reply
    <3> QED BY <1>2, <2>3, <3>1, ServedKept
  <2>7. EnrollType' BY <1>1, <1>2, <1>3, <2>3, <2>5 DEF EnrollType
  <2> QED BY <2>4, <2>5, <2>6, <2>7 DEF EnrollInv
<1> QED BY <1>6, <1>7

\* The gate's holder ends without a transaction of its own.
LEMMA PublishKeeps ==
  ASSUME MaxRequests \in Nat, EnrollInv, PublishSnapshot
  PROVE  EnrollInv'
<1> DEFINE a == IF srv.msg.kind = "enroll" THEN "issued" ELSE "activated"
<1>1. EnrollType /\ MessageInv BY Zenon DEF EnrollInv
<1>2. /\ srv # Idle /\ srv.at = "durable" /\ served' = grants /\ Reply(srv.msg, a) /\ srv' = Idle
      /\ UNCHANGED agentVars /\ UNCHANGED <<msgs, row, auth, prev, late, boot, grants>>
  BY DEF PublishSnapshot, Refreshed
<1>3. UNCHANGED <<proc, pc, created, journal, token, manifest>> BY <1>2 DEF agentVars
<1>4. RowsInv' /\ RowsKept /\ RecoverInv' BY <1>2, <1>3, RowsUnchanged, RecoverKept
<1>5. a \in Replies BY Zenon DEF Replies
<1>6. /\ row'[srv.msg.req] # "none"
      /\ a = "activated" => row'[srv.msg.req] \in {"active", "revoked"}
      /\ a # "expired"
  <2>1. srv.msg.kind \in {"enroll", "activate"} BY Zenon, <1>2, HandlerShape, MessageFields
  <2> QED BY <1>1, <1>2, <2>1 DEF MessageInv
<1> HIDE DEF a
<1>7. AgentInv' /\ AnswerInv' /\ MessageInv' /\ reply' \in Replies
  BY <1>2, <1>4, <1>5, <1>6, HandlerEnds
<1>8. ServedInv' BY <1>2, <1>4, ServedFresh
<1>9. EnrollType' BY <1>1, <1>2, <1>3, <1>7 DEF EnrollType
<1> QED BY <1>4, <1>7, <1>8, <1>9 DEF EnrollInv

LEMMA RefreshFailsKeeps ==
  ASSUME MaxRequests \in Nat, EnrollInv, RefreshFails
  PROVE  EnrollInv'
<1>1. EnrollType /\ MessageInv BY DEF EnrollInv
<1>2. /\ srv # Idle /\ Reply(srv.msg, "internal") /\ srv' = Idle
      /\ UNCHANGED agentVars /\ UNCHANGED <<msgs, row, auth, prev, late, boot, grants, served>>
  BY DEF RefreshFails
<1>3. UNCHANGED <<proc, pc, created, journal, token, manifest>> BY <1>2 DEF agentVars
<1>4. RowsInv' /\ RowsKept /\ RecoverInv' BY <1>2, <1>3, RowsUnchanged, RecoverKept
<1>5. "internal" \in Replies BY DEF Replies
<1>6. AgentInv' /\ AnswerInv' /\ MessageInv' /\ reply' \in Replies
  BY <1>2, <1>4, <1>5, HandlerEnds
<1>7. ServedInv'
  <2>1. reply' = "issued" => reply = "issued" BY <1>2 DEF Reply
  <2> QED BY <1>2, <2>1, ServedKept
<1>8. EnrollType' BY Zenon, <1>1, <1>2, <1>3, <1>6 DEF EnrollType
<1> QED BY <1>4, <1>6, <1>7, <1>8 DEF EnrollInv

\* A credential that expires leaves the token it was issued for as good as it
\* was, unless that is the bootstrap token.
LEMMA ExpireRecovers ==
  ASSUME MaxRequests \in Nat, EnrollInv, UNCHANGED agentVars, UNCHANGED <<auth, boot>>,
         NEW rs, \A r \in rs : r \in Reqs /\ row[r] \in {"pending", "expired"},
         \A q \in Reqs : row'[q] = IF q \in rs THEN "expired" ELSE row[q]
  PROVE  RecoverInv'
<1>1. EnrollType /\ RowsInv /\ RecoverInv BY DEF EnrollInv
<1>2. token' = token /\ journal' = journal BY Zenon DEF agentVars
<1> SUFFICES ASSUME token # Missing, boot # "revoked", ~BootstrapLost'
             PROVE  /\ journal = Nothing => Authentic(token)'
                    /\ journal # Nothing => /\ row'[journal] \in {"none", "expired"} => Authentic(token)'
                                            /\ row'[journal] = "pending" => token = auth[journal]
                                            /\ row'[journal] = "active" => token \in {auth[journal], journal}
  BY <1>2 DEF RecoverInv
<1>3. ~BootstrapLost BY DEF BootstrapLost
<1>4. \A q \in Reqs : row[q] = "active" => row'[q] = "active" OBVIOUS
<1>5. Authentic(token) => Authentic(token)' BY <1>2, <1>4 DEF Authentic
<1>6. CASE journal = Nothing BY <1>1, <1>3, <1>5, <1>6 DEF RecoverInv
<1>7. CASE journal # Nothing
  <2>1. journal \in Reqs BY <1>7, JournalIsRequest
  <2>2. CASE journal \in rs
    <3>1. row'[journal] = "expired" BY Zenon, <2>1, <2>2
    <3>2. CASE row[journal] = "expired" BY <1>1, <1>3, <1>5, <1>7, <3>1, <3>2 DEF RecoverInv
    <3>3. CASE row[journal] = "pending"
      <4>1. token = auth[journal] BY <1>1, <1>3, <1>7, <3>3 DEF RecoverInv
      <4>2. token # Boot BY <2>1, <3>1, <4>1 DEF BootstrapLost
      <4>3. token = prev[journal] /\ row[token] = "active" /\ token \in 0 .. MaxRequests
        BY <1>1, <2>1, <3>3, <4>1, <4>2 DEF RowsInv, EnrollType, Boot, Nothing
      <4>4. token \in Reqs BY <4>2, <4>3 DEF Boot, Reqs
      <4>5. Authentic(token) BY <4>2, <4>3, <4>4 DEF Authentic
      <4> QED BY <1>5, <1>7, <3>1, <4>5
    <3> QED BY <2>2, <3>2, <3>3
  <2>3. CASE journal \notin rs
    <3>1. row'[journal] = row[journal] BY <2>1, <2>3
    <3> QED BY Zenon, <1>1, <1>3, <1>5, <1>7, <3>1 DEF RecoverInv
  <2> QED BY <2>2, <2>3
<1> QED BY <1>6, <1>7

LEMMA ActivateKeeps ==
  ASSUME MaxRequests \in Nat, EnrollInv, NEW m \in msgs, Activate(m)
  PROVE  EnrollInv'
<1> DEFINE found == ActivationFinds(m.req)
<1>1. EnrollType /\ RowsInv /\ MessageInv BY DEF EnrollInv
<1>2. /\ srv = Idle /\ msgs' = msgs \ {m} /\ m.kind = "activate" /\ UNCHANGED agentVars
      /\ UNCHANGED <<auth, prev, late, boot>>
  BY DEF Activate, Accept
<1>3. UNCHANGED <<proc, pc, created, journal, token, manifest>> BY <1>2 DEF agentVars
<1>4. m \in Message /\ m \in InService /\ InService = msgs BY <1>1, <1>2 DEF EnrollType, InService
<1>5. m.req \in Reqs BY Zenon, <1>4, MessageFields
<1>6. m.live => \A n \in msgs' : ~n.live
  <2>1. \A n \in msgs : n.live /\ m.live => n = m BY <1>4, LiveUnique
  <2> QED BY <1>2, <2>1
<1>7. /\ found = "activated" => row[m.req] \in {"active", "pending"}
      /\ found = "expired" => row[m.req] \in {"pending", "expired"}
  BY Zenon DEF ActivationFinds
<1>8. \/ /\ found = "activated" /\ srv' = [at |-> "durable", msg |-> m]
         /\ IF row[m.req] = "pending" THEN ActivateRow(m.req) ELSE UNCHANGED <<row, grants>>
         /\ UNCHANGED <<served, reply>>
      \/ /\ found = "expired" /\ ExpireRows({m.req}) /\ served' = grants' /\ Reply(m, found) /\ srv' = Idle
      \/ /\ found = "rejected" /\ Reply(m, found) /\ srv' = Idle /\ UNCHANGED <<row, grants, served>>
  BY Zenon, <1>2 DEF Activate
<1> HIDE DEF found
<1>9. CASE /\ found = "activated" /\ srv' = [at |-> "durable", msg |-> m]
           /\ IF row[m.req] = "pending" THEN ActivateRow(m.req) ELSE UNCHANGED <<row, grants>>
           /\ UNCHANGED <<served, reply>>
  <2>1. /\ RowsInv' /\ RowsKept /\ row' \in [Reqs -> Statuses] /\ grants' \subseteq Reqs
        /\ row'[m.req] = "active" /\ RecoverInv'
        /\ \A r \in Reqs : row'[r] \in HoldsGrant => row[r] \in HoldsGrant
    <3>1. CASE row[m.req] = "active"
      <4>1. UNCHANGED <<row, grants>> BY <1>9, <3>1
      <4> QED BY <1>1, <1>2, <1>3, <3>1, <4>1, RowsUnchanged, RecoverKept DEF EnrollType
    <3>2. CASE row[m.req] = "pending"
      <4>1. ActivateRow(m.req) BY <1>9, <3>2
      <4>2. UNCHANGED <<created, journal, auth, prev, boot>> BY <1>2, <1>3
      <4>3. /\ RowsInv' /\ RowsKept /\ m.req = journal /\ row'[m.req] = "active" /\ boot # "revoked"
            /\ row' \in [Reqs -> Statuses] /\ grants' \subseteq Reqs
            /\ \A q \in Reqs \ {m.req} : row'[q] = row[q] \/ (q = prev[m.req] /\ row'[q] = "retired")
        BY <1>5, <3>2, <4>1, <4>2, ActivateRowKeeps
      <4>4. \A r \in Reqs : row'[r] \in HoldsGrant => row[r] \in HoldsGrant
        BY ZenonT(40), <1>5, <3>2, <4>3 DEF HoldsGrant
      <4>5. RecoverInv'
        <5>1. BootstrapLost => BootstrapLost' BY <1>2, <4>3 DEF BootstrapLost, RowsKept
        <5>2. journal # Nothing BY <1>5, <4>3, Numbers DEF Nothing
        <5>3. token # Missing /\ boot # "revoked" /\ ~BootstrapLost => token = auth[journal]
          BY Zenon, <3>2, <4>3, <5>2 DEF EnrollInv, RecoverInv
        <5> QED BY <1>2, <1>3, <4>3, <5>1, <5>2, <5>3 DEF RecoverInv
      <4> QED BY Zenon, <4>3, <4>4, <4>5
    <3> QED BY <1>7, <1>9, <3>1, <3>2
  <2>2. srv'.at = "durable" /\ srv'.msg = m BY <1>9
  <2>3. srv' # Idle
    <3>1. Idle.at = "idle" BY DEF Idle
    <3> QED BY <2>2, <3>1
  <2>4. InService' = msgs BY <1>2, <2>2, <2>3 DEF InService
  <2>5. EnrollType'
    <3>1. srv' \in [at : {"preflighted", "durable"}, msg : Message] BY <1>4, <1>9
    <3> QED BY Zenon, <1>1, <1>2, <1>3, <1>9, <2>1, <3>1 DEF EnrollType
  <2>6. AgentInv' BY <1>2, <2>1, AgentKept
  <2>7. AnswerInv' BY <1>2, <1>4, <1>9, <2>1, <2>4, AnswerKept
  <2>8. ServedInv' BY Zenon, <1>2, <1>9, <2>1, ServedKept
  <2>9. MessageInv' BY Zenon, <1>2, <1>4, <1>6, <2>1, <2>2, <2>4, MessagesKept DEF MessageInv
  <2> QED BY Zenon, <2>1, <2>5, <2>6, <2>7, <2>8, <2>9 DEF EnrollInv
<1>10. CASE /\ found = "expired" /\ ExpireRows({m.req}) /\ served' = grants' /\ Reply(m, found) /\ srv' = Idle
  <2>1. \A r \in {m.req} : r \in Reqs /\ row[r] \in {"pending", "expired"} BY Zenon, <1>5, <1>7, <1>10
  <2>2. UNCHANGED <<created, journal, auth, prev, boot>> BY <1>2, <1>3
  <2>3. /\ RowsInv' /\ RowsKept /\ row' \in [Reqs -> Statuses] /\ grants' \subseteq Reqs
        /\ \A q \in Reqs : row'[q] = IF q \in {m.req} THEN "expired" ELSE row[q]
    BY <1>10, <2>1, <2>2, ExpireKeeps
  <2>4. RecoverInv' BY Zenon, <1>2, <2>1, <2>3, ExpireRecovers
  <2>5. reply' \in Replies BY <1>1, <1>10 DEF Reply, Replies, EnrollType
  <2>6. EnrollType' BY <1>1, <1>2, <1>3, <1>10, <2>3, <2>5 DEF EnrollType
  <2>7. InService' = msgs \ {m} BY <1>2, <1>10 DEF InService
  <2>8. AnswerInv'
    <3>1. row'[m.req] = "expired" BY <1>5, <2>3
    <3> QED BY ZenonT(40), <1>2, <1>4, <1>10, <2>3, <2>7, <3>1, ReplyKeeps
  <2>9. MessageInv' BY Zenon, <1>2, <1>4, <1>10, <2>3, <2>7, MessagesKept DEF MessageInv
  <2> QED BY <1>2, <1>10, <2>3, <2>4, <2>6, <2>8, <2>9, AgentKept, ServedFresh DEF EnrollInv
<1>11. CASE /\ found = "rejected" /\ Reply(m, found) /\ srv' = Idle /\ UNCHANGED <<row, grants, served>>
  <2>1. RowsInv' /\ RowsKept /\ RecoverInv' BY <1>2, <1>3, <1>11, RowsUnchanged, RecoverKept
  <2>2. reply' \in Replies /\ (reply' = "issued" => reply = "issued")
    BY <1>1, <1>11 DEF Reply, Replies, EnrollType
  <2>3. EnrollType' BY <1>1, <1>2, <1>3, <1>11, <2>2 DEF EnrollType
  <2>4. InService' = msgs \ {m} BY Zenon, <1>2, <1>11 DEF InService
  <2>5. AnswerInv' BY Zenon, <1>2, <1>4, <1>11, <2>1, <2>4, ReplyKeeps
  <2>6. MessageInv' BY <1>2, <1>4, <1>11, <2>1, <2>4, MessagesKept DEF MessageInv
  <2>7. ServedInv' BY <1>2, <1>11, <2>2, ServedKept
  <2> QED BY <1>2, <2>1, <2>3, <2>5, <2>6, <2>7, AgentKept DEF EnrollInv
<1> QED BY Zenon, <1>8, <1>9, <1>10, <1>11

\* The transactions and reloads that answer nobody.
LEMMA BesideKeeps ==
  ASSUME MaxRequests \in Nat, EnrollInv,
         Reconcile \/ TokenExpires \/ RevokeAgent \/ Refresh \/ ServerCrash \/ \E r \in Reqs : DeadlinePasses(r)
  PROVE  EnrollInv'
<1>1. EnrollType /\ RowsInv /\ MessageInv /\ AnswerInv BY DEF EnrollInv
<1>2. /\ UNCHANGED agentVars /\ UNCHANGED <<reply, auth, prev>>
      /\ UNCHANGED <<srv, msgs>> \/ (msgs' = {} /\ srv' = Idle)
  BY DEF Reconcile, TokenExpires, RevokeAgent, Refresh, ServerCrash, DeadlinePasses, netVars
<1>3. UNCHANGED <<proc, pc, created, journal, token, manifest>> BY <1>2 DEF agentVars
<1>4. InService' \subseteq InService BY <1>2 DEF InService
<1>5. /\ RowsInv' /\ RowsKept /\ RecoverInv' /\ ServedInv' /\ row' \in [Reqs -> Statuses]
      /\ grants' \subseteq Reqs /\ served' \subseteq Reqs /\ late' \subseteq Reqs
      /\ boot' \in {"open", "consumed", "expired", "revoked"}
      /\ srv' # Idle => \A r \in Reqs : (row[r] = "none" => row'[r] = "none")
                                        /\ (row[r] \in {"active", "revoked"} => row'[r] \in {"active", "revoked"})
  <2>1. CASE Reconcile
    <3>1. ExpireRows(Due) /\ served' = grants' /\ UNCHANGED <<late, boot>> /\ srv' = Idle
      BY <2>1 DEF Reconcile
    <3>2. \A r \in Due : r \in Reqs /\ row[r] \in {"pending", "expired"} BY <1>1 DEF Due, EnrollType
    <3>3. UNCHANGED <<created, journal, auth, prev, boot>> BY <1>2, <1>3, <3>1
    <3>4. /\ RowsInv' /\ RowsKept /\ row' \in [Reqs -> Statuses] /\ grants' \subseteq Reqs
          /\ \A q \in Reqs : row'[q] = IF q \in Due THEN "expired" ELSE row[q]
      BY <3>1, <3>2, <3>3, ExpireKeeps
    <3>5. RecoverInv' BY Zenon, <1>2, <3>1, <3>2, <3>4, ExpireRecovers
    <3> QED BY <1>1, <3>1, <3>4, <3>5, ServedFresh DEF EnrollType
  <2>2. CASE RevokeAgent
    <3>1. /\ boot' = "revoked" /\ grants' = {} /\ UNCHANGED <<late, served>>
          /\ row' = [r \in Reqs |-> IF row[r] \in HoldsGrant THEN "revoked" ELSE row[r]]
      BY <2>2 DEF RevokeAgent
    <3>2. RowsInv' /\ RowsKept /\ row' \in [Reqs -> Statuses] BY Zenon, <1>2, <1>3, <3>1, RevokeKeeps
    <3>3. RecoverInv' BY <3>1 DEF RecoverInv
    <3>4. \A r \in Reqs : row'[r] = IF row[r] \in HoldsGrant THEN "revoked" ELSE row[r] BY <3>1
    <3>5. ServedInv'
      <4>1. \A r \in Reqs : row'[r] \in HoldsGrant => row[r] \in HoldsGrant \cup {"none"}
        BY <3>4 DEF HoldsGrant
      <4> QED BY <1>2, <3>1, <4>1, ServedKept
    <3>6. \A r \in Reqs : (row[r] = "none" => row'[r] = "none")
                          /\ (row[r] \in {"active", "revoked"} => row'[r] \in {"active", "revoked"})
      BY <3>4 DEF HoldsGrant
    <3> QED BY <1>1, <3>1, <3>2, <3>3, <3>5, <3>6 DEF EnrollType
  <2>3. CASE Refresh \/ ServerCrash \/ \E r \in Reqs : DeadlinePasses(r)
    <3>1. /\ UNCHANGED <<row, boot, grants>> /\ (served' = served \/ served' = grants)
          /\ late' \subseteq Reqs
      BY <1>1, <2>3 DEF Refresh, ServerCrash, DeadlinePasses, EnrollType
    <3>2. RowsInv' /\ RowsKept /\ RecoverInv' BY <1>2, <1>3, <3>1, RowsUnchanged, RecoverKept
    <3>3. ServedInv'
      <4>1. CASE served' = served BY <1>2, <3>1, <4>1, ServedKept
      <4>2. CASE served' = grants BY Zenon, <3>1, <3>2, <4>2, ServedFresh
      <4> QED BY <3>1, <4>1, <4>2
    <3> QED BY Zenon, <1>1, <3>1, <3>2, <3>3 DEF EnrollType
  <2>4. CASE TokenExpires
    <3>1. boot = "open" /\ boot' = "expired" /\ UNCHANGED <<row, late, grants, served>>
      BY <2>4 DEF TokenExpires
    <3>2. \A r \in Reqs : row'[r] = "none" BY <1>1, <3>1 DEF RowsInv
    <3>3. RowsInv' /\ RowsKept
      BY Zenon, <1>1, <1>2, <1>3, <3>1, <3>2, SpentBoot
    <3>4. RecoverInv' BY <3>1 DEF RecoverInv, BootstrapLost
    <3>5. ServedInv' BY <3>2 DEF ServedInv, HoldsGrant
    <3> QED BY <1>1, <3>1, <3>3, <3>4, <3>5 DEF EnrollType
  <2> QED BY <2>1, <2>2, <2>3, <2>4
<1>6. EnrollType' BY <1>1, <1>2, <1>3, <1>5 DEF EnrollType
<1>7. AgentInv' /\ AnswerInv' BY <1>2, <1>4, <1>5, AgentKept, AnswerKept
<1>8. MessageInv'
  <2>1. CASE srv' = Idle BY ZenonT(40), <1>2, <1>4, <1>5, <2>1, MessagesKept DEF MessageInv
  <2>2. CASE srv' # Idle
    <3>1. UNCHANGED <<srv, msgs>> BY <1>2, <2>2
    <3>2. srv.msg.req \in Reqs BY Zenon, <2>2, <3>1, HandlerShape
    <3>3. srv.at = "preflighted" => srv.msg.kind = "enroll" /\ row'[srv.msg.req] = "none"
      BY Zenon, <1>1, <1>5, <2>2, <3>1, <3>2 DEF MessageInv
    <3>4. srv.at = "durable" =>
            /\ row'[srv.msg.req] # "none"
            /\ srv.msg.kind = "activate" => row'[srv.msg.req] \in {"active", "revoked"}
      BY ZenonT(40), <1>1, <1>5, <2>2, <3>1, <3>2 DEF MessageInv, RowsKept
    <3>5. srv.msg.live => \A n \in msgs : ~n.live BY Zenon, <1>1, <2>2, <3>1 DEF MessageInv
    <3> QED BY <1>2, <1>4, <1>5, <3>1, <3>3, <3>4, <3>5, MessagesKept DEF MessageInv
  <2> QED BY Zenon, <2>1, <2>2
<1> QED BY <1>5, <1>6, <1>7, <1>8 DEF EnrollInv

-----------------------------------------------------------------------------
(* The Agent's side: the database does not change.                         *)

\* A new journal is for a request nobody has seen.
LEMMA NewJournalKeeps ==
  ASSUME MaxRequests \in Nat, EnrollInv, NewJournal, journal = Nothing \/ row[journal] \in Over,
         UNCHANGED <<row, auth, prev, boot, grants>>
  PROVE  /\ RowsInv' /\ created' \in 0 .. MaxRequests /\ journal' = created' /\ created' = created + 1
         /\ journal' \in Reqs /\ row[journal'] = "none"
<1>1. EnrollType /\ RowsInv BY DEF EnrollInv
<1>2. created \in Nat /\ created < MaxRequests /\ created' = created + 1 /\ journal' = created + 1
  BY <1>1 DEF EnrollType, NewJournal
<1>3. created' \in 0 .. MaxRequests /\ journal' \in Reqs BY <1>2 DEF Reqs
<1>4. journal # Nothing => journal = created BY JournalIsRequest
<1>5. \A r \in Reqs : /\ r > created' => r > created
                      /\ r <= created' /\ r # journal' => r <= created
  BY <1>2, Numbers
<1>6. \A r \in Reqs : r > created' => row'[r] = "none" BY <1>1, <1>5 DEF RowsInv
<1>7. \A r \in Reqs : r <= created' /\ r # journal' => row'[r] \in Over
  <2> TAKE r \in Reqs
  <2> HAVE r <= created' /\ r # journal'
  <2>1. r <= created BY Zenon, <1>5
  <2>2. CASE r # journal BY <1>1, <2>1, <2>2 DEF RowsInv
  <2>3. CASE r = journal BY Zenon, <2>3, Numbers DEF Nothing
  <2> QED BY <2>2, <2>3
<1>8. row[journal'] = "none" BY SMTT(30), <1>1, <1>2, <1>3, Numbers DEF RowsInv
<1>9. RowsInv' BY Zenon, <1>1, <1>6, <1>7, <1>8 DEF RowsInv, GrantsMatchRows
<1> QED BY <1>2, <1>3, <1>8, <1>9

LEMMA JournalGone ==
  ASSUME MaxRequests \in Nat, EnrollInv, journal' = Nothing, journal = Nothing \/ row[journal] \in Over,
         UNCHANGED <<created, row, auth, prev, boot, grants>>
  PROVE  RowsInv'
<1>1. RowsInv BY DEF EnrollInv
<1>2. \A r \in Reqs : r <= created' /\ r # journal' => row'[r] \in Over BY ZenonT(40), <1>1 DEF RowsInv
<1> QED BY <1>1, <1>2 DEF RowsInv, GrantsMatchRows

\* A step that sends nothing, of an Agent that waits for nothing any more.
LEMMA QuietMessages ==
  ASSUME MaxRequests \in Nat, EnrollInv, UNCHANGED <<msgs, srv, row>>, \A m \in InService : ~m.live,
         created' \in Nat, created <= created',
         token' = token \/ (journal # Nothing /\ row[journal] # "none")
  PROVE  MessageInv'
<1>1. EnrollType /\ RowsInv /\ MessageInv BY DEF EnrollInv
<1>2. InService' = InService BY DEF InService
<1>3. created \in Nat BY <1>1 DEF EnrollType
<1>4. \A m \in InService : m.req \in Reqs /\ m.req \in Nat
  BY Zenon, <1>1, ServiceType, MessageFields, Numbers
<1>5. ASSUME NEW m \in InService
      PROVE  m.req <= created' /\ (m.kind = "enroll" /\ row[m.req] = "none" => m.token = token')
  <2>1. m.req <= created /\ (m.kind = "enroll" /\ row[m.req] = "none" => m.token = token)
    BY <1>1 DEF MessageInv
  <2>2. m.req <= created' BY <1>3, <1>4, <2>1
  <2>3. CASE token' = token BY <2>1, <2>2, <2>3
  <2>4. CASE journal # Nothing /\ row[journal] # "none"
    <3>1. row[m.req] # "none" BY <1>1, <1>4, <2>1, <2>4 DEF RowsInv, Over
    <3> QED BY <2>2, <3>1
  <2> QED BY Zenon, <2>3, <2>4
<1>6. srv' = srv /\ msgs' = msgs /\ row' = row BY Zenon
<1> QED BY <1>1, <1>2, <1>5, <1>6 DEF MessageInv

\* After a hangup.
LEMMA HangupMessages ==
  ASSUME MaxRequests \in Nat, EnrollInv, Hangup, UNCHANGED <<row, created, token>>
  PROVE  /\ MessageInv' /\ \A m \in InService' : ~m.live
         /\ msgs' \subseteq Message /\ srv' \in {Idle} \cup [at : {"preflighted", "durable"}, msg : Message]
<1>1. EnrollType /\ MessageInv BY Zenon DEF EnrollInv
<1>2. /\ msgs' \subseteq Message /\ srv' \in {Idle} \cup [at : {"preflighted", "durable"}, msg : Message]
      /\ srv' = Idle <=> srv = Idle
      /\ srv # Idle => /\ srv'.at = srv.at /\ srv'.msg.kind = srv.msg.kind /\ srv'.msg.req = srv.msg.req
                       /\ ~srv'.msg.live
      /\ \A n \in InService' : /\ ~n.live
                               /\ \E m \in InService : n.kind = m.kind /\ n.req = m.req /\ n.token = m.token
  BY Zenon, <1>1, HangupLeaves
<1>3. \A n \in InService' : n.req <= created' /\ (n.kind = "enroll" /\ row'[n.req] = "none" => n.token = token')
  BY Zenon, <1>1, <1>2 DEF MessageInv
<1>4. srv' # Idle => srv # Idle /\ srv'.at = srv.at /\ srv'.msg.kind = srv.msg.kind
                     /\ srv'.msg.req = srv.msg.req /\ ~srv'.msg.live
  BY Zenon, <1>2
<1>5. srv' # Idle /\ srv'.at = "preflighted" => srv'.msg.kind = "enroll" /\ row'[srv'.msg.req] = "none"
  BY Zenon, <1>1, <1>4 DEF MessageInv
<1>6. srv' # Idle /\ srv'.at = "durable" =>
        /\ row'[srv'.msg.req] # "none"
        /\ srv'.msg.kind = "activate" => row'[srv'.msg.req] \in {"active", "revoked"}
  BY Zenon, <1>1, <1>4 DEF MessageInv
<1> QED BY <1>2, <1>3, <1>4, <1>5, <1>6 DEF MessageInv

\* With the same token, journal and database the token is as good as before.
LEMMA SameRecovers ==
  ASSUME EnrollInv, UNCHANGED <<token, journal, row, auth, boot>>
  PROVE  RecoverInv'
BY DEF EnrollInv, RecoverInv, BootstrapLost, Authentic

\* So is it for a journal whose request has no row yet, or none at all.
LEMMA FreshRecovers ==
  ASSUME MaxRequests \in Nat, EnrollInv, UNCHANGED <<token, row, auth, boot>>,
         journal' = Nothing \/ row[journal'] = "none",
         \/ journal = Nothing \/ row[journal] = "expired"
         \/ token = journal /\ row[journal] \in {"active", "revoked"}
  PROVE  RecoverInv'
<1>1. EnrollType /\ RowsInv /\ RecoverInv BY Zenon DEF EnrollInv
<1> SUFFICES ASSUME token # Missing, boot # "revoked", ~BootstrapLost
             PROVE  Authentic(token)
  BY DEF RecoverInv, BootstrapLost, Authentic
<1>2. CASE journal = Nothing BY <1>1, <1>2 DEF RecoverInv
<1>3. CASE journal # Nothing /\ row[journal] = "expired" BY <1>1, <1>3 DEF RecoverInv
<1>4. CASE journal # Nothing /\ token = journal /\ row[journal] \in {"active", "revoked"}
  <2>1. journal \in Reqs BY Zenon, <1>4, JournalIsRequest
  <2>2. row[journal] = "active" BY <1>1, <1>4, <2>1 DEF RowsInv
  <2> QED BY <1>4, <2>1, <2>2, Numbers DEF Authentic, Boot
<1> QED BY <1>2, <1>3, <1>4

\* rotate ends, or a step fails: the Agent waits for nothing.
LEMMA RestServed ==
  ASSUME EnrollInv, UNCHANGED <<manifest, row, served>>, reply' # "issued", pc' \notin {"publish", "commit"}
  PROVE  ServedInv'
BY Zenon DEF EnrollInv, ServedInv

LEMMA NobodyWaits ==
  ASSUME EnrollInv, pc \notin {"issue", "activate"}
  PROVE  (\A m \in InService : ~m.live) /\ reply = NoAnswer
BY DEF EnrollInv, MessageInv, AnswerInv

-----------------------------------------------------------------------------

LEMMA StartKeeps ==
  ASSUME MaxRequests \in Nat, EnrollInv, NEW mode \in {"run", "once"}, Start(mode)
  PROVE  EnrollInv'
<1>1. EnrollType /\ AgentInv BY DEF EnrollInv
<1>2. /\ proc = "down" /\ proc' = mode /\ pc' = "idle"
      /\ UNCHANGED <<token, journal, manifest, created, msgs, reply, srv, row, auth, prev, late, boot, grants, served>>
  BY DEF Start, netVars, cpVars
<1>3. pc = "idle" BY <1>1, <1>2 DEF AgentInv
<1>4. (\A m \in InService : ~m.live) /\ reply = NoAnswer BY Zenon, <1>3, NobodyWaits
<1>5. EnrollType' BY <1>1, <1>2 DEF EnrollType
<1>6. RowsInv' /\ RecoverInv' BY Zenon, <1>2, RowsUnchanged, SameRecovers
<1>7. AgentInv' BY <1>1, <1>2 DEF AgentInv, Later
<1>8. AnswerInv' BY <1>2, <1>4 DEF AnswerInv
<1>9. MessageInv'
  <2>1. created' \in Nat /\ created <= created' BY <1>1, <1>2 DEF EnrollType
  <2> QED BY Zenon, <1>2, <1>4, <2>1, QuietMessages
<1>10. ServedInv' BY <1>2, <1>4, RestServed DEF NoAnswer
<1> QED BY <1>5, <1>6, <1>7, <1>8, <1>9, <1>10 DEF EnrollInv

LEMMA BeginKeeps ==
  ASSUME MaxRequests \in Nat, EnrollInv, Begin
  PROVE  EnrollInv'
<1>1. EnrollType /\ RowsInv /\ AgentInv BY DEF EnrollInv
<1>2. /\ proc # "down" /\ pc = "idle" /\ token # Missing
      /\ IF journal = Nothing THEN NewJournal ELSE UNCHANGED <<journal, created>>
      /\ pc' = IF token = journal' THEN "clear" ELSE "begin"
      /\ UNCHANGED <<proc, token, manifest, msgs, reply, srv, row, auth, prev, late, boot, grants, served>>
  BY DEF Begin, AgentAt, netVars, cpVars
<1>3. (\A m \in InService : ~m.live) /\ reply = NoAnswer BY Zenon, <1>2, NobodyWaits
<1>4. created \in Nat /\ token \in 0 .. created BY <1>1, <1>2 DEF EnrollType
<1>5. /\ created' \in 0 .. MaxRequests /\ created <= created' /\ journal' = created' /\ journal' \in Reqs
      /\ RowsInv' /\ RecoverInv'
      /\ token = journal' => row[journal'] \in {"active", "revoked"}
  <2>1. CASE journal = Nothing
    <3>1. NewJournal BY <1>2, <2>1
    <3>2. /\ RowsInv' /\ created' \in 0 .. MaxRequests /\ journal' = created' /\ created' = created + 1
          /\ journal' \in Reqs /\ row[journal'] = "none"
      BY <1>2, <2>1, <3>1, NewJournalKeeps
    <3>3. RecoverInv' BY <1>2, <2>1, <3>2, FreshRecovers
    <3>4. token # journal' /\ created <= created' BY <1>4, <3>2
    <3> QED BY <3>2, <3>3, <3>4
  <2>2. CASE journal # Nothing
    <3>1. UNCHANGED <<journal, created>> BY <1>2, <2>2
    <3>2. journal \in Reqs /\ journal = created BY <2>2, JournalIsRequest
    <3>3. RowsInv' /\ RecoverInv' BY <1>2, <3>1, RowsUnchanged, SameRecovers
    <3>4. token = journal => row[journal] \in {"active", "revoked"} BY <1>1, <2>2 DEF AgentInv
    <3>5. created' \in 0 .. MaxRequests /\ created <= created' BY SMTT(30), <1>1, <1>4, <3>1 DEF EnrollType
    <3> QED BY <3>1, <3>2, <3>3, <3>4, <3>5
  <2> QED BY <2>1, <2>2
<1>6. EnrollType'
  <2>1. token \in 0 .. created' /\ manifest \in 0 .. created' BY <1>1, <1>4, <1>5 DEF EnrollType
  <2>2. pc' \in {"idle", "begin", "issue"} \cup Later BY <1>2 DEF Later
  <2> QED BY <1>1, <1>2, <1>5, <2>1, <2>2 DEF EnrollType
<1>7. AgentInv'
  <2>1. journal' # Nothing BY Zenon, <1>5, Numbers DEF Nothing
  <2>2. CASE token = journal'
    <3>1. pc' = "clear" /\ row'[journal'] \in {"active", "revoked"} BY <1>2, <1>5, <2>2
    <3> QED BY <1>1, <1>2, <2>1, <2>2, <3>1 DEF AgentInv
  <2>3. CASE token # journal'
    <3>1. pc' = "begin" BY <1>2, <2>3
    <3> QED BY <1>1, <1>2, <2>1, <2>3, <3>1 DEF AgentInv, Later
  <2> QED BY <2>2, <2>3
<1>8. AnswerInv' BY <1>2, <1>3 DEF AnswerInv
<1>9. MessageInv' BY <1>2, <1>3, <1>5, QuietMessages
<1>10. ServedInv' BY <1>2, <1>3, RestServed DEF NoAnswer
<1> QED BY <1>5, <1>6, <1>7, <1>8, <1>9, <1>10 DEF EnrollInv

\* rotate ends without a new journal: a failure, a refusal that is terminal, or
\* a reload that did not happen in time.
LEMMA EndsKeeps ==
  ASSUME MaxRequests \in Nat, EnrollInv,
         TokenUnreadable \/ ConnectionClosed \/ ActivationTimeout \/ ExchangeFails
  PROVE  EnrollInv'
<1>1. EnrollType /\ AgentInv BY DEF EnrollInv
<1>2. /\ proc' \in {"down", "run", "once"} /\ pc' = "idle" /\ reply' = NoAnswer
      /\ UNCHANGED <<token, journal, manifest, created, row, auth, prev, late, boot, grants, served>>
  <2>1. CASE TokenUnreadable
    <3>1. pc = "idle" BY Zenon, <2>1 DEF TokenUnreadable, AgentAt
    <3> QED BY <1>1, <2>1, <3>1, NobodyWaits DEF TokenUnreadable, netVars, cpVars
  <2>2. CASE ConnectionClosed BY <2>2 DEF ConnectionClosed, netVars, cpVars
  <2>3. CASE ActivationTimeout
    <3>1. pc = "reload" BY <2>3 DEF ActivationTimeout, AgentAt
    <3> QED BY <1>1, <2>3, <3>1, NobodyWaits DEF ActivationTimeout, netVars, cpVars, EnrollType
  <2>4. CASE ExchangeFails
    <3>1. proc' \in {"down", "run"} BY <2>4 DEF ExchangeFails, Ends
    <3> QED BY <2>4, <3>1 DEF ExchangeFails, dbVars
  <2> QED BY Zenon, <2>1, <2>2, <2>3, <2>4
<1>3. /\ MessageInv' /\ msgs' \subseteq Message
      /\ srv' \in {Idle} \cup [at : {"preflighted", "durable"}, msg : Message]
  <2>1. CASE ExchangeFails
    <3>1. Hangup BY <2>1 DEF ExchangeFails
    <3> QED BY <1>2, <3>1, HangupMessages
  <2>2. CASE TokenUnreadable \/ ConnectionClosed \/ ActivationTimeout
    <3>1. UNCHANGED <<msgs, srv>>
      BY Zenon, <2>2 DEF TokenUnreadable, ConnectionClosed, ActivationTimeout, netVars, cpVars
    <3>2. \A m \in InService : ~m.live
      BY <2>2, NobodyWaits DEF TokenUnreadable, ConnectionClosed, ActivationTimeout, AgentAt
    <3>3. created' \in Nat /\ created <= created' BY SMTT(30), <1>1, <1>2 DEF EnrollType
    <3> QED BY ZenonT(40), <1>1, <1>2, <3>1, <3>2, <3>3, QuietMessages DEF EnrollType
  <2> QED BY <2>1, <2>2
<1>4. EnrollType'
  <2>1. reply' \in Replies BY <1>2 DEF Replies
  <2> QED BY <1>1, <1>2, <1>3, <2>1 DEF EnrollType
<1>5. RowsInv' /\ RecoverInv' BY <1>2, RowsUnchanged, SameRecovers
<1>6. AgentInv' BY <1>1, <1>2 DEF AgentInv, Later
<1>7. AnswerInv' BY <1>2 DEF AnswerInv
<1>8. ServedInv' BY <1>2, RestServed DEF NoAnswer
<1> QED BY <1>3, <1>4, <1>5, <1>6, <1>7, <1>8 DEF EnrollInv

\* A refusal: a request that expired is replaced.
LEMMA RefusedKeeps ==
  ASSUME MaxRequests \in Nat, EnrollInv, EnrollRefused
  PROVE  EnrollInv'
<1>1. EnrollType /\ RowsInv /\ AgentInv /\ AnswerInv BY DEF EnrollInv
<1>2. /\ pc \in {"issue", "activate"} /\ proc' \in {"down", "run", "once"} /\ pc' = "idle" /\ reply' = NoAnswer
      /\ reply \in {"expired", "rejected"}
      /\ UNCHANGED <<token, manifest, msgs, srv, row, auth, prev, late, boot, grants, served>>
  <2>1. proc' \in {"down", "run"} BY DEF EnrollRefused, Ends
  <2> QED BY <2>1 DEF EnrollRefused, AgentAt, cpVars
<1>3. \A m \in InService : ~m.live BY <1>1, <1>2 DEF AnswerInv, NoAnswer
<1>4. journal \in Reqs /\ journal = created /\ journal # Nothing BY <1>1, <1>2, JournalIsRequest DEF AgentInv
<1>5. created \in Nat /\ created <= MaxRequests BY <1>1 DEF EnrollType
<1>6. /\ created' \in 0 .. MaxRequests /\ created <= created' /\ journal' = created' /\ RowsInv' /\ RecoverInv'
      /\ token # Nothing /\ token = journal' => row[journal'] \in {"active", "revoked"}
  <2>1. CASE reply = "expired"
    <3>1. NewJournal BY <2>1 DEF EnrollRefused, ReplaceJournal
    <3>2. row[journal] = "expired" BY <1>1, <2>1 DEF AnswerInv, NoAnswer
    <3>3. row[journal] \in Over BY <3>2 DEF Over
    <3>4. /\ RowsInv' /\ created' \in 0 .. MaxRequests /\ journal' = created' /\ created' = created + 1
          /\ journal' \in Reqs /\ row[journal'] = "none"
      BY <1>2, <3>1, <3>3, NewJournalKeeps
    <3>5. RecoverInv' BY <1>2, <3>2, <3>4, FreshRecovers
    <3>6. created <= created' BY <1>5, <3>4
    <3>7. token # journal'
      <4>1. token \in 0 .. created \/ token = MaxRequests + 1 BY <1>1 DEF EnrollType, Missing
      <4>2. created + 1 <= MaxRequests BY <1>5, <3>4
      <4> QED BY <1>5, <3>4, <4>1, <4>2
    <3> QED BY <3>4, <3>5, <3>6, <3>7
  <2>2. CASE reply = "rejected"
    <3>1. UNCHANGED <<journal, created>> BY <2>2 DEF EnrollRefused
    <3>2. RowsInv' /\ RecoverInv' BY Zenon, <1>2, <3>1, RowsUnchanged, SameRecovers
    <3> QED BY <1>1, <1>4, <1>5, <3>1, <3>2 DEF AgentInv
  <2> QED BY <1>2, <2>1, <2>2
<1>7. EnrollType'
  <2>1. token \in 0 .. created' \cup {Missing} /\ manifest \in 0 .. created'
    BY <1>1, <1>5, <1>6 DEF EnrollType
  <2>2. reply' \in Replies BY Zenon, <1>2 DEF Replies
  <2> QED BY <1>1, <1>2, <1>6, <2>1, <2>2 DEF EnrollType
<1>8. AgentInv' BY <1>1, <1>2, <1>6 DEF AgentInv, Later
<1>9. AnswerInv' BY <1>2 DEF AnswerInv
<1>10. MessageInv' BY <1>2, <1>3, <1>5, <1>6, QuietMessages
<1>11. ServedInv' BY <1>2, RestServed DEF NoAnswer
<1> QED BY <1>6, <1>7, <1>8, <1>9, <1>10, <1>11 DEF EnrollInv

\* The new token file is in place, and the journal goes.
LEMMA JournalRemovedKeeps ==
  ASSUME MaxRequests \in Nat, EnrollInv, JournalRemoved
  PROVE  EnrollInv'
<1>1. EnrollType /\ AgentInv BY DEF EnrollInv
<1>2. /\ pc = "clear" /\ pc' = "idle" /\ journal' = Nothing /\ proc' \in {"down", "run"}
      /\ UNCHANGED <<token, manifest, created, msgs, reply, srv, row, auth, prev, late, boot, grants, served>>
  BY DEF JournalRemoved, AgentAt, Ends, netVars, cpVars
<1>3. (\A m \in InService : ~m.live) /\ reply = NoAnswer BY <1>2, NobodyWaits
<1>4. token = journal /\ row[journal] \in {"active", "revoked"} BY <1>1, <1>2 DEF AgentInv
<1>5. row[journal] \in Over BY <1>4 DEF Over
<1>6. RowsInv' BY <1>2, <1>5, JournalGone
<1>7. RecoverInv' BY Zenon, <1>2, <1>4, FreshRecovers
<1>8. EnrollType' BY <1>1, <1>2 DEF EnrollType
<1>9. AgentInv' BY <1>1, <1>2 DEF AgentInv, Later
<1>10. AnswerInv' BY <1>2, <1>3 DEF AnswerInv
<1>11. MessageInv'
  <2>1. created' \in Nat /\ created <= created' BY <1>1, <1>2 DEF EnrollType
  <2> QED BY Zenon, <1>2, <1>3, <2>1, QuietMessages
<1>12. ServedInv' BY <1>2, <1>3, RestServed DEF NoAnswer
<1> QED BY <1>6, <1>7, <1>8, <1>9, <1>10, <1>11, <1>12 DEF EnrollInv

LEMMA AgentCrashKeeps ==
  ASSUME MaxRequests \in Nat, EnrollInv, AgentCrash
  PROVE  EnrollInv'
<1>1. EnrollType /\ AgentInv /\ AnswerInv BY DEF EnrollInv
<1>2. /\ proc' = "down" /\ pc' = "idle" /\ reply' = NoAnswer /\ Hangup
      /\ journal' \in IF reply = "expired" THEN {journal, Nothing} ELSE {journal}
      /\ UNCHANGED <<token, manifest, created, row, auth, prev, late, boot, grants, served>>
  BY DEF AgentCrash, dbVars
<1>3. /\ MessageInv' /\ msgs' \subseteq Message
      /\ srv' \in {Idle} \cup [at : {"preflighted", "durable"}, msg : Message]
  BY <1>2, HangupMessages
<1>4. RowsInv' /\ RecoverInv' /\ journal' \in {Nothing, journal}
  <2>1. CASE journal' = journal BY <1>2, <2>1, RowsUnchanged, SameRecovers
  <2>2. CASE journal' = Nothing /\ reply = "expired"
    <3>1. row[journal] = "expired" BY Zenon, <1>1, <2>2 DEF AnswerInv, NoAnswer
    <3>2. row[journal] \in Over BY <3>1 DEF Over
    <3> QED BY <1>2, <2>2, <3>1, <3>2, JournalGone, FreshRecovers
  <2> QED BY <1>2, <2>1, <2>2
<1>5. EnrollType'
  <2>1. reply' \in Replies BY <1>2 DEF Replies
  <2> QED BY <1>1, <1>2, <1>3, <1>4, <2>1 DEF EnrollType
<1>6. AgentInv'
  <2>1. token = Missing => reply # "expired" BY Zenon, <1>1 DEF AgentInv, AnswerInv, NoAnswer
  <2>2. token = Missing => journal' = journal BY <1>2, <2>1
  <2> QED BY <1>1, <1>2, <1>4, <2>2 DEF AgentInv, Later
<1>7. AnswerInv' BY <1>2 DEF AnswerInv
<1>8. ServedInv' BY <1>2, RestServed DEF NoAnswer
<1> QED BY <1>3, <1>4, <1>5, <1>6, <1>7, <1>8 DEF EnrollInv

\* A request is sent when none is waited for, and is the one rotate then waits for.
LEMMA SendKeeps ==
  ASSUME MaxRequests \in Nat, EnrollInv, NEW kind, NEW t \in 0 .. MaxRequests, NEW next, Send(kind, t, next),
         pc \notin {"idle", "issue", "activate"}, manifest' = manifest \/ manifest' = journal,
         \/ kind = "enroll" /\ next = "issue" /\ t = token
         \/ kind = "activate" /\ next = "activate" /\ t = journal /\ row[journal] # "none"
  PROVE  EnrollType' /\ RowsInv' /\ AnswerInv' /\ MessageInv' /\ RecoverInv'
<1>1. EnrollType /\ RowsInv /\ AgentInv /\ MessageInv BY Zenon DEF EnrollInv
<1> DEFINE n == [kind |-> kind, req |-> journal, token |-> t, live |-> TRUE]
<1>2. /\ msgs' = msgs \cup {n} /\ reply' = NoAnswer /\ pc' = next
      /\ UNCHANGED <<proc, token, journal, created, srv, row, auth, prev, late, boot, grants, served>>
  BY DEF Send, cpVars
<1>3. journal \in Reqs /\ journal = created BY <1>1, JournalIsRequest DEF AgentInv
<1>4. n \in Message BY <1>3 DEF Message
<1>5. n.kind = kind /\ n.req = journal /\ n.token = t /\ n.live = TRUE OBVIOUS
<1> HIDE DEF n
<1>6. (\A m \in InService : ~m.live) BY NobodyWaits
<1>7. InService' = InService \cup {n} BY Zenon, <1>2 DEF InService
<1>8. EnrollType'
  <2>1. pc' \in {"idle", "begin", "issue"} \cup Later /\ reply' \in Replies BY Zenon, <1>2 DEF Later, Replies
  <2>2. manifest' \in 0 .. created' BY <1>1, <1>2, <1>3, Numbers DEF EnrollType
  <2> QED BY Zenon, <1>1, <1>2, <1>4, <2>1, <2>2 DEF EnrollType
<1>9. RowsInv' /\ RecoverInv' BY Zenon, <1>2, RowsUnchanged, SameRecovers
<1>10. AnswerInv' BY <1>2 DEF AnswerInv
<1>11. MessageInv'
  <2>1. \A m \in InService' : m.req <= created' /\ (m.kind = "enroll" /\ row'[m.req] = "none" => m.token = token')
    <3>1. n.req <= created /\ (n.kind = "enroll" => n.token = token) BY <1>3, <1>5, Numbers
    <3> QED BY ZenonT(40), <1>1, <1>2, <1>7, <3>1 DEF MessageInv
  <2>2. \A m \in InService' : m.live =>
          /\ pc' \in {"issue", "activate"} /\ m.req = journal'
          /\ m.kind = IF pc' = "issue" THEN "enroll" ELSE "activate"
          /\ m.token = IF pc' = "issue" THEN token' ELSE journal'
    BY <1>2, <1>5, <1>6, <1>7
  <2>3. srv # Idle => ~srv.msg.live BY <1>6 DEF InService
  <2> QED BY ZenonT(40), <1>1, <1>2, <2>1, <2>2, <2>3 DEF MessageInv
<1> QED BY <1>8, <1>9, <1>10, <1>11

LEMMA SendsKeep ==
  ASSUME MaxRequests \in Nat, EnrollInv,
         SendEnroll \/ ReloadSeen \/ (ManifestWritten /\ ManifestNext # "reload")
  PROVE  EnrollInv'
<1>1. EnrollType /\ AgentInv BY DEF EnrollInv
<1>2. CASE SendEnroll
  <2>1. pc = "begin" /\ proc # "down" /\ Send("enroll", token, "issue") /\ UNCHANGED manifest
    BY <1>2 DEF SendEnroll, AgentAt
  <2>2. token \in 0 .. MaxRequests
    <3>1. token \in 0 .. created /\ created \in 0 .. MaxRequests BY <1>1, <2>1 DEF EnrollType, AgentInv
    <3> QED BY <3>1
  <2>3. EnrollType' /\ RowsInv' /\ AnswerInv' /\ MessageInv' /\ RecoverInv' BY Zenon, <2>1, <2>2, SendKeeps
  <2>4. pc' = "issue" /\ reply' = NoAnswer /\ UNCHANGED <<proc, token, journal, row, served>>
    BY <2>1 DEF Send, cpVars
  <2>5. AgentInv' BY <1>1, <2>1, <2>4 DEF AgentInv, Later
  <2>6. ServedInv' BY Zenon, <2>1, <2>4, RestServed DEF NoAnswer
  <2> QED BY <2>3, <2>5, <2>6 DEF EnrollInv
<1>3. CASE ReloadSeen \/ (ManifestWritten /\ ManifestNext # "reload")
  <2>1. /\ pc \in {"commit", "reload"} /\ proc # "down" /\ Send("activate", journal, "activate")
        /\ manifest' = journal \/ manifest' = manifest
        /\ manifest' # manifest => pc = "commit"
    BY Zenon, <1>3 DEF ReloadSeen, ManifestWritten, AgentAt
  <2>2. journal # Nothing /\ journal \in Reqs /\ row[journal] # "none"
    BY <1>1, <2>1, JournalIsRequest DEF AgentInv, Later
  <2>3. journal \in 0 .. MaxRequests BY <2>2 DEF Reqs
  <2>4. EnrollType' /\ RowsInv' /\ AnswerInv' /\ MessageInv' /\ RecoverInv'
    BY Zenon, <2>1, <2>2, <2>3, SendKeeps
  <2>5. pc' = "activate" /\ reply' = NoAnswer /\ UNCHANGED <<proc, token, journal, row, served>>
    BY Zenon, <2>1 DEF Send, cpVars
  <2>6. AgentInv' BY <1>1, <2>1, <2>2, <2>5 DEF AgentInv, Later
  <2>7. ServedInv'
    <3>1. CASE manifest' = manifest BY <2>5, <3>1, RestServed DEF NoAnswer
    <3>2. CASE manifest' = journal /\ pc = "commit"
      <4>1. row[journal] \in HoldsGrant => journal \in served BY <2>2, <3>2 DEF EnrollInv, ServedInv
      <4> QED BY <2>5, <3>2, <4>1 DEF ServedInv, NoAnswer
    <3> QED BY <2>1, <3>1, <3>2
  <2> QED BY <2>4, <2>6, <2>7 DEF EnrollInv
<1> QED BY <1>2, <1>3

\* The steps between two exchanges: the bundle is written, then the token.
LEMMA StepsKeep ==
  ASSUME MaxRequests \in Nat, EnrollInv,
         \/ Issued \/ FilesWritten \/ TlsReload \/ Activated \/ TokenWritten
         \/ (ManifestWritten /\ ManifestNext = "reload")
  PROVE  EnrollInv'
<1>1. EnrollType /\ RowsInv /\ AgentInv /\ AnswerInv /\ MessageInv /\ ServedInv BY DEF EnrollInv
<1>2. /\ UNCHANGED <<proc, created, journal, msgs, srv, row, auth, prev, late, boot, grants, served>>
  BY Zenon DEF Issued, FilesWritten, TlsReload, Activated, TokenWritten, ManifestWritten, Step, cpVars, netVars
<1>3. RowsInv' BY Zenon, <1>2, RowsUnchanged
<1>4. created' \in Nat /\ created <= created' BY <1>1, <1>2 DEF EnrollType
<1>5. CASE TlsReload
  <2>1. UNCHANGED <<pc, token, manifest, reply>> BY Zenon, <1>5 DEF TlsReload, netVars
  <2>2. EnrollType' BY <1>1, <1>2, <2>1 DEF EnrollType
  <2>3. RecoverInv' BY Zenon, <1>2, <2>1, SameRecovers
  <2>4. AgentInv' BY <1>1, <1>2, <2>1 DEF AgentInv
  <2>5. InService' = InService BY <1>2 DEF InService
  <2>6. AnswerInv' BY ZenonT(40), <1>1, <1>2, <2>1, <2>5 DEF AnswerInv
  <2>7. MessageInv' BY Zenon, <1>1, <1>2, <2>1, <2>5 DEF MessageInv
  <2>8. ServedInv' BY Zenon, <1>1, <1>2, <2>1 DEF ServedInv
  <2> QED BY <1>3, <2>2, <2>3, <2>4, <2>6, <2>7, <2>8 DEF EnrollInv
<1>6. CASE Issued
  <2>1. /\ pc = "issue" /\ proc # "down" /\ reply = "issued" /\ reply' = NoAnswer /\ pc' = "publish"
        /\ UNCHANGED <<token, manifest>>
    BY <1>6 DEF Issued, Step, AgentAt
  <2>2. (\A m \in InService : ~m.live) /\ row[journal] # "none" BY Zenon, <1>1, <2>1 DEF AnswerInv, NoAnswer
  <2>3. EnrollType' BY Zenon, <1>1, <1>2, <2>1 DEF EnrollType, Later, Replies
  <2>4. AgentInv' BY <1>1, <1>2, <2>1, <2>2 DEF AgentInv
  <2>5. AnswerInv' BY <2>1 DEF AnswerInv
  <2>6. MessageInv' BY <1>2, <1>4, <2>1, <2>2, QuietMessages
  <2>7. ServedInv' BY Zenon, <1>1, <1>2, <2>1 DEF ServedInv
  <2> QED BY <1>2, <1>3, <2>1, <2>3, <2>4, <2>5, <2>6, <2>7, SameRecovers DEF EnrollInv
<1>7. CASE FilesWritten
  <2>1. /\ pc = "publish" /\ proc # "down" /\ pc' = "commit" /\ manifest' \in {manifest, Nothing}
        /\ UNCHANGED <<token, reply>>
    BY <1>7 DEF FilesWritten, Step, AgentAt
  <2>2. (\A m \in InService : ~m.live) /\ reply = NoAnswer BY Zenon, <2>1, NobodyWaits
  <2>3. EnrollType'
    <3>1. manifest' \in 0 .. created BY SMTT(30), <1>1, <2>1 DEF EnrollType, Nothing
    <3> QED BY Zenon, <1>1, <1>2, <2>1, <3>1 DEF EnrollType, Later
  <2>4. AgentInv' BY <1>1, <1>2, <2>1 DEF AgentInv, Later
  <2>5. AnswerInv' BY <2>1, <2>2 DEF AnswerInv
  <2>6. MessageInv' BY <1>2, <1>4, <2>1, <2>2, QuietMessages
  <2>7. ServedInv'
    <3>1. \A r \in Reqs : r = manifest' => r = manifest BY <2>1, Numbers DEF Nothing
    <3> QED BY <1>1, <1>2, <2>1, <3>1 DEF ServedInv
  <2> QED BY Zenon, <1>2, <1>3, <2>1, <2>3, <2>4, <2>5, <2>6, <2>7, SameRecovers DEF EnrollInv
<1>8. CASE ManifestWritten /\ ManifestNext = "reload"
  <2>1. /\ pc = "commit" /\ proc # "down" /\ pc' = "reload" /\ manifest' = journal /\ UNCHANGED <<token, reply>>
    BY <1>8 DEF ManifestWritten, Step, AgentAt
  <2>2. (\A m \in InService : ~m.live) /\ reply = NoAnswer BY <2>1, NobodyWaits
  <2>3. journal # Nothing /\ journal \in Reqs /\ journal = created /\ row[journal] # "none"
    BY Zenon, <1>1, <2>1, JournalIsRequest DEF AgentInv, Later
  <2>4. EnrollType'
    <3>1. manifest' \in 0 .. created BY SMTT(30), <1>1, <2>1, <2>3, Numbers DEF EnrollType
    <3> QED BY Zenon, <1>1, <1>2, <2>1, <3>1 DEF EnrollType, Later
  <2>5. AgentInv' BY <1>1, <1>2, <2>1, <2>3 DEF AgentInv
  <2>6. AnswerInv' BY <2>1, <2>2 DEF AnswerInv
  <2>7. MessageInv' BY Zenon, <1>2, <1>4, <2>1, <2>2, QuietMessages
  <2>8. ServedInv' BY <1>1, <1>2, <2>1, <2>2, <2>3 DEF ServedInv, NoAnswer
  <2> QED BY Zenon, <1>2, <1>3, <2>1, <2>4, <2>5, <2>6, <2>7, <2>8, SameRecovers DEF EnrollInv
<1>9. CASE Activated
  <2>1. /\ pc = "activate" /\ proc # "down" /\ reply = "activated" /\ reply' = NoAnswer /\ pc' = "swap"
        /\ token' = Missing /\ UNCHANGED manifest
    BY Zenon, <1>9 DEF Activated, Step, AgentAt
  <2>2. /\ \A m \in InService : ~m.live
        /\ row[journal] \in {"active", "revoked"} /\ journal # Nothing /\ journal \in Reqs
    BY Zenon, <1>1, <2>1, JournalIsRequest DEF AnswerInv, AgentInv, NoAnswer
  <2>3. EnrollType' BY Zenon, <1>1, <1>2, <2>1 DEF EnrollType, Later, Replies
  <2>4. AgentInv' BY <1>1, <1>2, <2>1, <2>2 DEF AgentInv
  <2>5. AnswerInv' BY <2>1 DEF AnswerInv
  <2>6. MessageInv' BY <1>2, <1>4, <2>2, QuietMessages
  <2>7. ServedInv' BY <1>2, <2>1, RestServed DEF NoAnswer
  <2>8. RecoverInv' BY <2>1 DEF RecoverInv, Missing
  <2> QED BY <1>3, <2>3, <2>4, <2>5, <2>6, <2>7, <2>8 DEF EnrollInv
<1>10. CASE TokenWritten
  <2>1. /\ pc = "swap" /\ proc # "down" /\ pc' = "clear" /\ token' = journal /\ UNCHANGED <<manifest, reply>>
    BY <1>10 DEF TokenWritten, Step, AgentAt
  <2>2. (\A m \in InService : ~m.live) /\ reply = NoAnswer BY <2>1, NobodyWaits
  <2>3. /\ row[journal] \in {"active", "revoked"} /\ journal # Nothing /\ journal \in Reqs /\ journal = created
    BY Zenon, <1>1, <2>1, JournalIsRequest DEF AgentInv
  <2>4. EnrollType'
    <3>1. token' \in 0 .. created BY SMTT(30), <1>1, <2>1, <2>3, Numbers DEF EnrollType
    <3> QED BY Zenon, <1>1, <1>2, <2>1, <3>1 DEF EnrollType, Later
  <2>5. AgentInv'
    <3>1. token' # Missing BY <2>1, <2>3, Numbers
    <3> QED BY <1>1, <1>2, <2>1, <2>3, <3>1 DEF AgentInv
  <2>6. AnswerInv' BY <2>1, <2>2 DEF AnswerInv
  <2>7. MessageInv' BY <1>2, <1>4, <2>2, <2>3, QuietMessages
  <2>8. ServedInv' BY Zenon, <1>2, <2>1, <2>2, RestServed DEF NoAnswer
  <2>9. RecoverInv' BY <1>2, <2>1, <2>3 DEF RecoverInv
  <2> QED BY <1>3, <2>4, <2>5, <2>6, <2>7, <2>8, <2>9 DEF EnrollInv
<1> QED BY <1>5, <1>6, <1>7, <1>8, <1>9, <1>10

-----------------------------------------------------------------------------

LEMMA Init_EnrollInv ==
  ASSUME MaxRequests \in Nat, EnrollmentInit
  PROVE  EnrollInv
<1>1. EnrollType
  <2>1. created \in 0 .. MaxRequests /\ token \in 0 .. created /\ manifest \in 0 .. created
    BY DEF EnrollmentInit, Boot, Nothing
  <2>2. row \in [Reqs -> Statuses] /\ auth \in [Reqs -> 0 .. MaxRequests] /\ prev \in [Reqs -> 0 .. MaxRequests]
    BY SMTT(30) DEF EnrollmentInit, Statuses
  <2> QED BY <2>1, <2>2 DEF EnrollmentInit, EnrollType, Replies
<1>2. RowsInv
  <2>1. \A r \in Reqs : row[r] = "none" /\ auth[r] = 0 /\ prev[r] = 0 BY Zenon DEF EnrollmentInit
  <2>2. \A r \in Reqs : ~(r <= created) /\ 0 < r BY Numbers DEF EnrollmentInit
  <2>3. GrantsMatchRows BY <2>1 DEF GrantsMatchRows, HoldsGrant, EnrollmentInit
  <2> QED BY <2>1, <2>2, <2>3 DEF RowsInv, EnrollmentInit
<1>3. AgentInv
  <2>1. token # Missing BY Numbers DEF EnrollmentInit, Boot
  <2> QED BY <2>1 DEF EnrollmentInit, AgentInv, Later, Boot, Nothing
<1>4. AnswerInv BY ZenonT(40) DEF EnrollmentInit, AnswerInv
<1>5. MessageInv BY DEF EnrollmentInit, MessageInv, InService
<1>6. ServedInv BY DEF EnrollmentInit, ServedInv, HoldsGrant
<1>7. RecoverInv BY DEF EnrollmentInit, RecoverInv, Authentic
<1> QED BY Zenon, <1>1, <1>2, <1>3, <1>4, <1>5, <1>6, <1>7 DEF EnrollInv

LEMMA Next_EnrollInv ==
  ASSUME MaxRequests \in Nat, EnrollInv, [EnrollmentNext]_enrollmentVars
  PROVE  EnrollInv'
<1>1. CASE UNCHANGED enrollmentVars
  <2>1. /\ UNCHANGED <<proc, pc, token, journal, manifest, created, msgs, reply, srv>>
        /\ UNCHANGED <<row, auth, prev, late, boot, grants, served>>
    BY <1>1 DEF enrollmentVars, agentVars, netVars, cpVars
  <2>2. InService' = InService BY Zenon, <2>1 DEF InService
  <2>3. EnrollType' BY <2>1 DEF EnrollInv, EnrollType
  <2>4. RowsInv' /\ RecoverInv' BY Zenon, <2>1, RowsUnchanged, SameRecovers
  <2>5. AgentInv' BY Zenon, <2>1 DEF EnrollInv, AgentInv
  <2>6. AnswerInv' BY <2>1, <2>2 DEF EnrollInv, AnswerInv
  <2>7. MessageInv' BY Zenon, <2>1, <2>2 DEF EnrollInv, MessageInv
  <2>8. ServedInv' BY <2>1 DEF EnrollInv, ServedInv
  <2> QED BY Zenon, <2>3, <2>4, <2>5, <2>6, <2>7, <2>8 DEF EnrollInv
<1>2. CASE ServerStep
  BY <1>2, PreflightKeeps, ActivateKeeps, CommitKeeps, PublishKeeps DEF ServerStep
<1>3. CASE Reconcile \/ TokenExpires \/ RevokeAgent \/ Refresh \/ ServerCrash \/ \E r \in Reqs : DeadlinePasses(r)
  BY <1>3, BesideKeeps
<1>4. CASE \E mode \in {"run", "once"} : Start(mode) BY <1>4, StartKeeps
<1>5. CASE AgentStep
  BY <1>5, BeginKeeps, RefusedKeeps, JournalRemovedKeeps, SendsKeep, StepsKeep DEF AgentStep
<1>6. CASE ExchangeFails \/ ConnectionClosed \/ TokenUnreadable \/ ActivationTimeout BY <1>6, EndsKeeps
<1>7. CASE RefreshFails \/ TlsReload \/ AgentCrash BY <1>7, RefreshFailsKeeps, StepsKeep, AgentCrashKeeps
<1> QED BY <1>1, <1>2, <1>3, <1>4, <1>5, <1>6, <1>7 DEF EnrollmentNext

LEMMA Spec_EnrollInv ==
  ASSUME MaxRequests \in Nat
  PROVE  EnrollmentSpec => []EnrollInv
<1>1. EnrollmentInit => EnrollInv BY Init_EnrollInv
<1>2. EnrollInv /\ [EnrollmentNext]_enrollmentVars => EnrollInv' BY Next_EnrollInv
<1> QED BY <1>1, <1>2, PTL DEF EnrollmentSpec

\* Whatever is retried, lost, served late or interrupted, the certificates the
\* Control Plane authorizes are those of its Pending and Active rows, at most one
\* credential is Active and one survives every rotation, and a revocation leaves
\* nothing authorized (enrollment_repository.rs: commit_issuance, activate,
\* expire_pending_credential, revoke_agent).
THEOREM CredentialsConsistentProved ==
  ASSUME MaxRequests \in Nat
  PROVE  EnrollmentSpec => []CredentialsConsistent
<1>1. ASSUME EnrollInv PROVE CredentialsConsistent
  <2>1. EnrollType /\ RowsInv BY <1>1 DEF EnrollInv
  <2>2. OneCredentialSurvives
    <3> DEFINE actives == {r \in Reqs : row[r] = "active"}
    <3>1. \A q, r \in actives : q = r BY Zenon, <2>1 DEF RowsInv
    <3>2. boot # "revoked" /\ (\E r \in Reqs : row[r] = "retired") => actives # {} BY Zenon, <2>1 DEF RowsInv
    <3> QED BY Zenon, <3>1, <3>2 DEF OneCredentialSurvives
  <2>3. RevocationFinal BY <2>1 DEF RowsInv, GrantsMatchRows, RevocationFinal
  <2> QED BY <2>1, <2>2, <2>3 DEF RowsInv, CredentialsConsistent
<1> QED BY <1>1, Spec_EnrollInv, PTL

\* A credential the Agent may load is served before the Agent hears of it, and
\* unless the bootstrap token was lost the files of the Agent hold what the
\* service accepts next after any crash of either side: the token with the
\* journal, or the journal alone where a crash in write_token removed the token
\* (serve_connection; rotate, load_or_create_pending, write_token in
\* agent/enrollment.rs).
THEOREM RotationRecoverableProved ==
  ASSUME MaxRequests \in Nat
  PROVE  EnrollmentSpec => []RotationRecoverable
<1>1. ASSUME EnrollInv PROVE RotationRecoverable
  <2>1. AuthorizedBeforeUse
    <3>1. manifest # Nothing => manifest \in Reqs BY Zenon, <1>1, JournalIsRequest
    <3> QED BY <1>1, <3>1 DEF EnrollInv, ServedInv, AuthorizedBeforeUse
  <2>2. Recoverable
    <3>4. CASE token = Missing
      <4>1. journal # Nothing /\ row[journal] \in {"active", "revoked"} BY <1>1, <3>4 DEF EnrollInv, AgentInv
      <4>2. journal \in Reqs BY Zenon, <1>1, <4>1, JournalIsRequest
      <4>3. boot # "revoked" => row[journal] # "revoked" BY <1>1, <4>2 DEF EnrollInv, RowsInv
      <4> QED BY <3>4, <4>1, <4>3 DEF Recoverable
    <3> SUFFICES ASSUME token # Missing, boot # "revoked", ~BootstrapLost
                 PROVE  \/ Authentic(token) /\ (journal = Nothing \/ row[journal] \in {"none", "expired", "pending"})
                        \/ journal # Nothing /\ row[journal] \in HoldsGrant /\ token \in {auth[journal], journal}
      BY <3>4 DEF Recoverable
    <3>1. EnrollType /\ RowsInv /\ RecoverInv BY Zenon, <1>1 DEF EnrollInv
    <3>2. CASE journal = Nothing BY <3>1, <3>2 DEF RecoverInv
    <3>3. CASE journal # Nothing
      <4>1. journal \in Reqs BY Zenon, <1>1, <3>3, JournalIsRequest
      <4>2. row[journal] \in Statuses \ {"revoked", "retired"} BY <3>1, <3>3, <4>1 DEF EnrollType, RowsInv
      <4> QED BY <3>1, <3>3, <4>2 DEF RecoverInv, Statuses, HoldsGrant
    <3> QED BY <3>2, <3>3
  <2> QED BY <2>1, <2>2 DEF RotationRecoverable
<1> QED BY <1>1, Spec_EnrollInv, PTL
=============================================================================
