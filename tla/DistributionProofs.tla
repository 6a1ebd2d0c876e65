------------------------- MODULE DistributionProofs -------------------------
(***************************************************************************)
(* Proofs about the distribution of snapshots and route catalogs           *)
(* (Distribution), for any hostnames, tunnels and capacities and any       *)
(* number of commits, crashes and lost connections.                        *)
(***************************************************************************)
EXTENDS Distribution, TLAPS

-----------------------------------------------------------------------------
(* Facts about sequences.                                                  *)

LEMMA LenProperties ==
  ASSUME NEW S, NEW q \in Seq(S)
  PROVE  Len(q) \in Nat /\ DOMAIN q = 1 .. Len(q) /\ q \in [1 .. Len(q) -> S]
  OBVIOUS

LEMMA EmptySeq ==
  ASSUME NEW S
  PROVE  <<>> \in Seq(S) /\ Len(<<>>) = 0 /\ \A q \in Seq(S) : q # <<>> => Len(q) \in Nat \ {0}
  OBVIOUS

LEMMA HeadTailProperties ==
  ASSUME NEW S, NEW q \in Seq(S), q # <<>>
  PROVE  /\ Head(q) \in S /\ Tail(q) \in Seq(S) /\ Len(Tail(q)) = Len(q) - 1
         /\ \A i \in 1 .. Len(Tail(q)) : Tail(q)[i] = q[i + 1]
  OBVIOUS

LEMMA AppendProperties ==
  ASSUME NEW S, NEW q \in Seq(S), NEW x \in S
  PROVE  /\ Append(q, x) \in Seq(S) /\ Append(q, x) # <<>> /\ Len(Append(q, x)) = Len(q) + 1
         /\ \A i \in 1 .. Len(q) : Append(q, x)[i] = q[i]
         /\ Append(q, x)[Len(q) + 1] = x
  OBVIOUS

Docs == IF kind = "route" THEN [Hosts -> Tunnels \cup {None}] ELSE SUBSET Tunnels
Version == [v : Nat, doc : Docs \cup {None}]
Rows == IF kind = "route"
        THEN [routes : [Hosts -> Tunnels \cup {None}], managed : [Tunnels -> Hosts \cup {None}]]
        ELSE SUBSET Tunnels
Storing == {"store", "sweep", "publish"}

DistType ==
  /\ kind \in {"snapshot", "route"} /\ db \in [v : Nat, rows : Rows] /\ committed \subseteq [v : Nat, doc : Docs]
  /\ cp \in {"down", "start", "up"} /\ pub \in Version
  /\ loading \in [by : {"none", "start", "up", "enrollment", "hostname"}, at : {"none", "rows", "head"},
                  v : Nat, digest : Docs \cup {None}, committed : Nat]
  /\ task \in [st : {"none", "request", "push"}, asked : Nat, dirty : BOOLEAN]
  /\ wire \in Seq([kind : {"UpToDate", "Document", "ClientAhead"}, v : Nat, doc : Docs \cup {None}])
  /\ edge \in {"down", "boot", "up"} /\ link \in {"none", "subscribed", "open"} \cup Storing
  /\ hand \in Version \cup {None} /\ app \in Version /\ gens \subseteq Version /\ high \in Nat

\* A version is committed once, with one document.
StoreInv ==
  /\ \A a, b \in committed : a.v = b.v => a = b
  /\ \A a \in committed : a.v <= db.v
  /\ [v |-> db.v, doc |-> Document(db.rows)] \in committed
  /\ ManagedRouted

\* A load holds a version that was current, and what was answered is not newer
\* than what is published or about to be.
LoadInv ==
  /\ loading.by = "start" => cp = "start"
  /\ loading.by \in {"up", "enrollment", "hostname"} => cp = "up"
  /\ loading.at = "head" => loading.by = "hostname"
  /\ loading.at = "rows" => loading.by # "none" /\ loading.v <= db.v
  /\ loading.at = "rows" /\ kind = "snapshot" => [v |-> loading.v, doc |-> loading.digest] \in committed
  /\ loading.by = "hostname" => /\ kind = "route" /\ loading.committed <= db.v
                                /\ loading.at = "rows" => loading.committed <= loading.v
  /\ loading.by = "start" => loading.at = "rows"
  /\ cp # "up" => pub = NoDocument
  /\ cp = "up" /\ kind = "snapshot" => pub \in committed
  /\ ask # None => cp = "up" /\ kind = "route" /\ ask.tunnel \in Tunnels

AnswerInv ==
  answer # None /\ answer.kind = "ok" =>
    /\ answer.v \in Nat /\ answer.v <= db.v
    /\ loading.by = "start" => answer.v <= loading.v
    /\ cp = "up" => answer.v <= pub.v

\* What the Edge holds was committed.
HeldInv ==
  /\ edge = "down" => link = "none"
  /\ edge # "up" => app = NoDocument
  /\ kind = "snapshot" /\ edge = "up" => app \in committed
  /\ link \in Storing => kind = "snapshot" /\ hand \in committed
  /\ link \notin Storing => hand = None
  /\ kind = "snapshot" => gens \subseteq committed
  /\ kind = "snapshot" =>
       \A i \in 1 .. Len(wire) : wire[i].kind = "Document" => [v |-> wire[i].v, doc |-> wire[i].doc] \in committed
  /\ HealthHonest

\* The cache has what was applied, and its newest generation is the one to use.
CacheInv ==
  /\ gens # {} => \E g \in gens : \A o \in gens : o.v <= g.v
  /\ high > 0 => \E g \in gens : high <= g.v
  /\ link \in {"sweep", "publish"} => hand \in gens /\ \A g \in gens : g.v <= hand.v
  /\ edge = "up" /\ kind = "snapshot" => high <= app.v

\* What a task wrote last is what is published, or it has more to write.
TaskInv ==
  /\ task.st # "none" => cp = "up" /\ link # "none"
  /\ task.st = "request" => link = "subscribed" /\ wire = <<>>
  /\ task.st = "push" /\ ~task.dirty =>
       IF wire # <<>> THEN wire[Len(wire)].v = pub.v
       ELSE /\ link # "subscribed"
            /\ link = "open" => app.v = pub.v
            /\ link \in Storing => hand.v = pub.v

DistInv ==
  DistType /\ StoreInv /\ LoadInv /\ AnswerInv /\ HeldInv /\ CacheInv /\ TaskInv

-----------------------------------------------------------------------------
(* Facts every step needs.                                                 *)

LEMMA MaxOfTwo ==
  ASSUME NEW a \in Nat, NEW b \in Nat
  PROVE  Max({a, b}) \in {a, b} /\ Max({a, b}) >= a /\ Max({a, b}) >= b
<1>1. \E x \in {a, b} : \A y \in {a, b} : x >= y
  <2>1. CASE a >= b BY <2>1
  <2>2. CASE b >= a BY <2>2
  <2> QED BY <2>1, <2>2
<1> QED BY <1>1 DEF Max

LEMMA SameKind ==
  ASSUME kind' = kind
  PROVE  Docs' = Docs /\ Version' = Version /\ Rows' = Rows
BY DEF Docs, Version, Rows

LEMMA DocumentType ==
  ASSUME DistType, NEW rows \in Rows
  PROVE  Document(rows) \in Docs
BY DEF DistType, Document, Docs, Rows

\* The fields of what the state holds.
LEMMA Fields ==
  ASSUME DistType
  PROVE  /\ db.v \in Nat /\ db.rows \in Rows /\ pub.v \in Nat /\ app.v \in Nat
         /\ \A d \in committed : d.v \in Nat /\ d.doc \in Docs /\ d = [v |-> d.v, doc |-> d.doc] /\ d \in Version
         /\ \A g \in gens : g.v \in Nat
         /\ loading.v \in Nat /\ loading.committed \in Nat
         /\ pub = [v |-> pub.v, doc |-> pub.doc]
         /\ task = [st |-> task.st, asked |-> task.asked, dirty |-> task.dirty]
<1>1. db.v \in Nat /\ db.rows \in Rows BY DEF DistType
<1>2. pub.v \in Nat /\ app.v \in Nat /\ pub = [v |-> pub.v, doc |-> pub.doc] BY DEF DistType, Version
<1>3. \A d \in committed : d.v \in Nat /\ d.doc \in Docs /\ d = [v |-> d.v, doc |-> d.doc] /\ d \in Version
  BY DEF DistType, Version
<1>4. \A g \in gens : g.v \in Nat BY DEF DistType, Version
<1>5. loading.v \in Nat /\ loading.committed \in Nat BY DEF DistType
<1>6. task = [st |-> task.st, asked |-> task.asked, dirty |-> task.dirty] BY DEF DistType
<1> QED BY <1>1, <1>2, <1>3, <1>4, <1>5, <1>6

LEMMA EmptyRecords ==
  /\ NoDocument \in Version /\ NoDocument.v = 0
  /\ NoTask \in [st : {"none", "request", "push"}, asked : Nat, dirty : BOOLEAN] /\ NoTask.st = "none"
  /\ NoLoad \in [by : {"none", "start", "up", "enrollment", "hostname"}, at : {"none", "rows", "head"},
                 v : Nat, digest : Docs \cup {None}, committed : Nat]
  /\ NoLoad.by = "none" /\ NoLoad.at = "none"
<1>1. NoDocument \in Version /\ NoDocument.v = 0 BY DEF NoDocument, Version
<1>2. NoTask \in [st : {"none", "request", "push"}, asked : Nat, dirty : BOOLEAN] /\ NoTask.st = "none"
  BY DEF NoTask
<1>3. /\ NoLoad \in [by : {"none", "start", "up", "enrollment", "hostname"}, at : {"none", "rows", "head"},
                     v : Nat, digest : Docs \cup {None}, committed : Nat]
      /\ NoLoad.by = "none" /\ NoLoad.at = "none"
  BY DEF NoLoad
<1> QED BY <1>1, <1>2, <1>3

-----------------------------------------------------------------------------
(* The database.                                                           *)

LEMMA WriteKeeps ==
  ASSUME DistInv, NEW rows \in Rows, Write(db.v + 1, rows), UNCHANGED kind, ManagedRouted'
  PROVE  /\ StoreInv' /\ db' \in [v : Nat, rows : Rows] /\ committed' \subseteq [v : Nat, doc : Docs]
         /\ committed \subseteq committed' /\ db'.v = db.v + 1
<1>1. DistType /\ StoreInv BY DEF DistInv
<1> DEFINE d == [v |-> db.v + 1, doc |-> Document(rows)]
<1>2. db' = [v |-> db.v + 1, rows |-> rows] /\ committed' = committed \cup {d} BY DEF Write
<1>3. db.v \in Nat BY <1>1, Fields
<1>4. db'.v = db.v + 1 /\ db'.rows = rows /\ db' \in [v : Nat, rows : Rows] BY <1>2, <1>3
<1>5. Document(rows) \in Docs BY <1>1, DocumentType
<1>6. d \in [v : Nat, doc : Docs] /\ d.v = db.v + 1 BY <1>3, <1>5
<1>7. Document(db.rows)' = Document(rows) BY <1>4 DEF Document
<1>8. [v |-> db.v, doc |-> Document(db.rows)]' = d BY <1>4, <1>7
<1> HIDE DEF d
<1>9. \A a \in committed : a.v \in Nat /\ a.v <= db.v BY <1>1, Fields DEF StoreInv
<1>10. \A a \in committed : a.v # d.v /\ a.v <= db.v + 1 BY <1>3, <1>6, <1>9
<1>11. \A a, b \in committed' : a.v = b.v => a = b BY <1>1, <1>2, <1>10 DEF StoreInv
<1>12. \A a \in committed' : a.v <= db'.v BY <1>2, <1>3, <1>4, <1>6, <1>10
<1>13. [v |-> db.v, doc |-> Document(db.rows)]' \in committed' BY <1>2, <1>8
<1>14. StoreInv' BY <1>11, <1>12, <1>13 DEF StoreInv
<1>15. committed' \subseteq [v : Nat, doc : Docs] BY <1>1, <1>2, <1>6 DEF DistType
<1> QED BY <1>2, <1>4, <1>14, <1>15

\* What is committed stays committed, and the rest rests on it.
LEMMA CommittedKeeps ==
  ASSUME DistInv, UNCHANGED <<kind, client, net>>, UNCHANGED <<cp, pub>>, committed \subseteq committed'
  PROVE  HeldInv' /\ CacheInv' /\ TaskInv'
<1>1. HeldInv /\ CacheInv /\ TaskInv BY DEF DistInv
<1>2. /\ UNCHANGED <<kind, edge, link, hand, app, health, gens, high, task, wire, cp, pub>>
  BY DEF client, net
<1>3. HeldInv' BY <1>1, <1>2 DEF HeldInv, HealthHonest, Running
<1>4. CacheInv' BY <1>1, <1>2 DEF CacheInv
<1>5. TaskInv' BY <1>1, <1>2 DEF TaskInv
<1> QED BY <1>3, <1>4, <1>5

LEMMA StoreGrows ==
  ASSUME DistInv, NEW rows \in Rows, Write(db.v + 1, rows), ManagedRouted',
         UNCHANGED <<kind, daemon, net, client, names>>
  PROVE  DistInv'
<1>1. DistType /\ LoadInv /\ AnswerInv BY DEF DistInv
<1>2. /\ StoreInv' /\ db' \in [v : Nat, rows : Rows] /\ committed' \subseteq [v : Nat, doc : Docs]
      /\ committed \subseteq committed' /\ db'.v = db.v + 1
  BY WriteKeeps
<1>3. UNCHANGED <<cp, pub, loading, task, wire, edge, link, hand, app, gens, high, ask, answer>>
  BY DEF daemon, net, client, names
<1>4. DistType' BY <1>1, <1>2, <1>3, SameKind DEF DistType
<1>5. db.v \in Nat /\ loading.v \in Nat /\ loading.committed \in Nat BY <1>1, Fields
<1>6. LoadInv'
  <2>1. loading.v <= db.v => loading.v <= db'.v BY <1>2, <1>5
  <2>2. loading.committed <= db.v => loading.committed <= db'.v BY <1>2, <1>5
  <2> QED BY <1>1, <1>2, <1>3, <2>1, <2>2 DEF LoadInv
<1>7. AnswerInv'
  <2>1. answer.v \in Nat /\ answer.v <= db.v => answer.v <= db'.v BY <1>2, <1>5
  <2> QED BY <1>1, <1>3, <2>1 DEF AnswerInv
<1>8. HeldInv' /\ CacheInv' /\ TaskInv' BY <1>2, <1>3, CommittedKeeps
<1> QED BY <1>2, <1>4, <1>6, <1>7, <1>8 DEF DistInv

\* The rows of the catalog.
LEMMA CatalogRows ==
  ASSUME DistType, kind = "route"
  PROVE  /\ db.rows = [routes |-> Routes, managed |-> Managed]
         /\ Routes \in [Hosts -> Tunnels \cup {None}] /\ Managed \in [Tunnels -> Hosts \cup {None}]
         /\ \A r \in [Hosts -> Tunnels \cup {None}], m \in [Tunnels -> Hosts \cup {None}] :
              [routes |-> r, managed |-> m] \in Rows
BY DEF DistType, Rows, Routes, Managed

\* What a write of the catalog leaves in it.
LEMMA CatalogWritten ==
  ASSUME kind = "route", NEW v, NEW r, NEW m, Write(v, [routes |-> r, managed |-> m])
  PROVE  Routes' = r /\ Managed' = m
BY DEF Write, Routes, Managed

\* upsert and remove leave the managed hostnames alone.
LEMMA UnmanagedKeeps ==
  ASSUME DistInv, kind = "route", NEW h \in Hosts, NEW t \in Tunnels \cup {None}, ~IsManaged(h),
         Write(db.v + 1, [db.rows EXCEPT !.routes[h] = t]), UNCHANGED <<kind, daemon, net, client, names>>
  PROVE  DistInv'
<1>1. DistType /\ ManagedRouted BY DEF DistInv, StoreInv
<1> DEFINE r == [Routes EXCEPT ![h] = t]
<1>2. /\ db.rows = [routes |-> Routes, managed |-> Managed]
      /\ Routes \in [Hosts -> Tunnels \cup {None}] /\ Managed \in [Tunnels -> Hosts \cup {None}]
  BY <1>1, CatalogRows
<1>3. [db.rows EXCEPT !.routes[h] = t] = [routes |-> r, managed |-> Managed] BY <1>2
<1>4. r \in [Hosts -> Tunnels \cup {None}] BY <1>2
<1>5. [routes |-> r, managed |-> Managed] \in Rows BY <1>1, <1>2, <1>4, CatalogRows
<1>6. Write(db.v + 1, [routes |-> r, managed |-> Managed]) BY <1>3
<1>7. Routes' = r /\ Managed' = Managed BY <1>6, CatalogWritten
<1>8. \A u \in Tunnels : Managed[u] # None => Managed[u] \in Hosts /\ Managed[u] # h BY <1>2 DEF IsManaged
<1>9. ManagedRouted' BY <1>1, <1>2, <1>7, <1>8 DEF ManagedRouted
<1> QED BY <1>5, <1>6, <1>9, StoreGrows

\* allocate_managed_hostname takes a hostname nobody routes, and
\* release_managed_hostname gives up the route with the hostname.
LEMMA ManagedKeeps ==
  ASSUME None \notin Tunnels, DistInv, kind = "route", NEW t \in Tunnels,
         (\E h \in Hosts : AllocateManaged(t, h)) \/ ReleaseManaged(t), UNCHANGED kind
  PROVE  \E rows \in Rows : Write(db.v + 1, rows) /\ ManagedRouted'
<1>1. DistType /\ ManagedRouted BY DEF DistInv, StoreInv
<1>2. Routes \in [Hosts -> Tunnels \cup {None}] /\ Managed \in [Tunnels -> Hosts \cup {None}]
  BY <1>1, CatalogRows
<1>3. ASSUME NEW h \in Hosts, AllocateManaged(t, h) PROVE \E rows \in Rows : Write(db.v + 1, rows) /\ ManagedRouted'
  <2> DEFINE r == [Routes EXCEPT ![h] = t]
             m == [Managed EXCEPT ![t] = h]
  <2>1. Managed[t] = None /\ Routes[h] = None /\ Write(db.v + 1, [routes |-> r, managed |-> m])
    BY <1>3 DEF AllocateManaged
  <2>2. r \in [Hosts -> Tunnels \cup {None}] /\ m \in [Tunnels -> Hosts \cup {None}] BY <1>2
  <2>3. [routes |-> r, managed |-> m] \in Rows BY <1>1, <2>2, CatalogRows
  <2>4. Routes' = r /\ Managed' = m BY <2>1, CatalogWritten
  <2>5. \A u \in Tunnels \ {t} : Managed[u] # None => Managed[u] # h /\ Routes[Managed[u]] = u
    BY <1>1, <2>1 DEF ManagedRouted
  <2>6. \A u \in Tunnels : Managed'[u] # None => Routes'[Managed'[u]] = u BY <1>2, <2>4, <2>5
  <2>7. ManagedRouted' BY <2>6 DEF ManagedRouted
  <2> QED BY <2>1, <2>3, <2>7
<1>4. ASSUME ReleaseManaged(t) PROVE \E rows \in Rows : Write(db.v + 1, rows) /\ ManagedRouted'
  <2> DEFINE h == Managed[t]
             r == [Routes EXCEPT ![h] = None]
             m == [Managed EXCEPT ![t] = None]
  <2>1. h # None /\ Write(db.v + 1, [routes |-> r, managed |-> m]) BY <1>4 DEF ReleaseManaged
  <2>2. h \in Hosts BY <1>2, <2>1
  <2>3. r \in [Hosts -> Tunnels \cup {None}] /\ m \in [Tunnels -> Hosts \cup {None}] BY <1>2, <2>2
  <2>4. [routes |-> r, managed |-> m] \in Rows BY <1>1, <2>3, CatalogRows
  <2>5. Routes' = r /\ Managed' = m BY <2>1, CatalogWritten
  <2>6. \A u \in Tunnels \ {t} : Managed[u] # None => Managed[u] # h /\ Routes[Managed[u]] = u
    BY <1>1, <2>1 DEF ManagedRouted
  <2>7. \A u \in Tunnels : Managed'[u] # None => Routes'[Managed'[u]] = u BY <1>2, <2>2, <2>5, <2>6
  <2>8. ManagedRouted' BY <2>7 DEF ManagedRouted
  <2> QED BY <2>1, <2>4, <2>8
<1> QED BY <1>3, <1>4

LEMMA CommitsKeep ==
  ASSUME None \notin Tunnels, DistInv,
         \/ CommitSnapshot
         \/ \E h \in Hosts : Remove(h) \/ \E t \in Tunnels : Upsert(h, t)
         \/ \E t \in Tunnels : OperatorHostname(t)
  PROVE  DistInv'
<1>1. CASE CommitSnapshot
  <2>1. kind = "snapshot" /\ UNCHANGED <<kind, daemon, net, client, names>> BY <1>1 DEF CommitSnapshot
  <2>2. PICK rows \in SUBSET Tunnels : Write(db.v + 1, rows) BY <1>1 DEF CommitSnapshot
  <2>3. rows \in Rows BY <2>1 DEF Rows
  <2>4. ManagedRouted' BY <2>1 DEF ManagedRouted
  <2> QED BY <2>1, <2>2, <2>3, <2>4, StoreGrows
<1>2. ASSUME NEW h \in Hosts, Remove(h) PROVE DistInv'
  <2>1. /\ kind = "route" /\ ~IsManaged(h) /\ Write(db.v + 1, [db.rows EXCEPT !.routes[h] = None])
        /\ UNCHANGED <<kind, daemon, net, client, names>>
    BY <1>2 DEF Remove, Removes
  <2> QED BY <2>1, UnmanagedKeeps
<1>3. ASSUME NEW h \in Hosts, NEW t \in Tunnels, Upsert(h, t) PROVE DistInv'
  <2>1. /\ kind = "route" /\ ~IsManaged(h) /\ Write(db.v + 1, [db.rows EXCEPT !.routes[h] = t])
        /\ UNCHANGED <<kind, daemon, net, client, names>>
    BY <1>3 DEF Upsert, Upserts
  <2> QED BY <2>1, UnmanagedKeeps
<1>4. ASSUME NEW t \in Tunnels, OperatorHostname(t) PROVE DistInv'
  <2>1. /\ kind = "route" /\ UNCHANGED <<kind, daemon, net, client, names>>
        /\ (\E h \in Hosts : AllocateManaged(t, h)) \/ ReleaseManaged(t)
    BY <1>4 DEF OperatorHostname
  <2>2. PICK rows \in Rows : Write(db.v + 1, rows) /\ ManagedRouted' BY <2>1, ManagedKeeps
  <2> QED BY <2>1, <2>2, StoreGrows
<1> QED BY <1>1, <1>2, <1>3, <1>4

-----------------------------------------------------------------------------
(* The Control Plane.                                                      *)

LEMMA StoreKept ==
  ASSUME DistInv, UNCHANGED <<kind, store>>
  PROVE  StoreInv' /\ db' = db /\ committed' = committed
<1>1. db' = db /\ committed' = committed BY DEF store
<1> QED BY <1>1 DEF DistInv, StoreInv, Document, ManagedRouted, Managed, Routes

LEMMA StopControlPlaneKeeps ==
  ASSUME DistInv, StopControlPlane, UNCHANGED <<kind, store, client>>
  PROVE  DistInv'
<1>1. DistType /\ StoreInv /\ LoadInv /\ AnswerInv /\ HeldInv /\ CacheInv BY DEF DistInv
<1>2. /\ cp' = "down" /\ pub' = NoDocument /\ loading' = NoLoad /\ task' = NoTask /\ ask' = None
      /\ UNCHANGED <<wire, answer, edge, link, hand, app, health, gens, high>>
  BY DEF StopControlPlane, client
<1>3. StoreInv' /\ db' = db /\ committed' = committed BY StoreKept
<1>4. DistType' BY <1>1, <1>2, <1>3, SameKind, EmptyRecords DEF DistType
<1>5. LoadInv' BY <1>2, EmptyRecords DEF LoadInv
<1>6. AnswerInv' BY <1>1, <1>2, <1>3, EmptyRecords DEF AnswerInv
<1>7. HeldInv' BY <1>1, <1>2, <1>3 DEF HeldInv, HealthHonest, Running
<1>8. CacheInv' BY <1>1, <1>2 DEF CacheInv
<1>9. TaskInv' BY <1>2, EmptyRecords DEF TaskInv
<1> QED BY <1>3, <1>4, <1>5, <1>6, <1>7, <1>8, <1>9 DEF DistInv

LEMMA StartControlPlaneKeeps ==
  ASSUME DistInv, StartControlPlane
  PROVE  DistInv'
<1>1. DistType /\ LoadInv /\ AnswerInv /\ HeldInv /\ CacheInv /\ TaskInv BY DEF DistInv
<1>2. /\ cp = "down" /\ cp' = "start" /\ UNCHANGED <<kind, store>>
      /\ UNCHANGED <<pub, loading, task, wire, edge, link, hand, app, health, gens, high, ask, answer>>
  BY DEF StartControlPlane, net, client, names
<1>3. StoreInv' /\ db' = db /\ committed' = committed BY <1>2, StoreKept
<1>4. DistType' BY <1>1, <1>2, <1>3, SameKind DEF DistType
<1>5. LoadInv' BY <1>1, <1>2, <1>3 DEF LoadInv
<1>6. AnswerInv' BY <1>1, <1>2, <1>3 DEF AnswerInv
<1>7. HeldInv' BY <1>1, <1>2, <1>3 DEF HeldInv, HealthHonest, Running
<1>8. CacheInv' BY <1>1, <1>2 DEF CacheInv
<1>9. TaskInv' BY <1>1, <1>2 DEF TaskInv
<1> QED BY <1>3, <1>4, <1>5, <1>6, <1>7, <1>8, <1>9 DEF DistInv

\* A load begins or goes on with the current version.
LEMMA LoadsKeep ==
  ASSUME DistInv, RefreshLoad \/ EnrollmentLoad \/ HostnameLoad
  PROVE  DistInv'
<1>1. DistType /\ StoreInv /\ LoadInv /\ AnswerInv BY DEF DistInv
<1>2. UNCHANGED <<kind, store, cp, pub, net, client, names>>
  BY DEF RefreshLoad, EnrollmentLoad, HostnameLoad
<1>3. UNCHANGED <<task, wire, edge, link, hand, app, health, gens, high, ask, answer>>
  BY <1>2 DEF net, client, names
<1>4. StoreInv' /\ db' = db /\ committed' = committed BY <1>2, StoreKept
<1>5. HeldInv' /\ CacheInv' /\ TaskInv' BY <1>2, <1>4, CommittedKeeps
<1>6. db.v \in Nat /\ Document(db.rows) \in Docs BY <1>1, Fields, DocumentType
<1>7. CASE RefreshLoad \/ EnrollmentLoad
  <2>1. PICK by \in {"start", "up", "enrollment"} :
          /\ by = "start" => cp = "start"
          /\ by \in {"up", "enrollment"} => cp = "up"
          /\ BeginLoad(by)
    BY <1>1, <1>7 DEF RefreshLoad, EnrollmentLoad, DistType
  <2>2. loading' = [by |-> by, at |-> "rows", v |-> db.v, digest |-> Document(db.rows), committed |-> 0]
    BY <2>1 DEF BeginLoad
  <2>3. DistType'
    <3>1. loading' \in [by : {"none", "start", "up", "enrollment", "hostname"}, at : {"none", "rows", "head"},
                        v : Nat, digest : Docs \cup {None}, committed : Nat]
      BY <1>6, <2>2
    <3> QED BY SMTT(30), <1>1, <1>2, <1>3, <1>4, <3>1, SameKind DEF DistType
  <2>4. loading'.by = by /\ loading'.at = "rows" /\ loading'.v = db.v /\ loading'.digest = Document(db.rows)
    BY <2>2
  <2>5. db.v <= db.v BY SMTT(30), <1>6
  <2>6. LoadInv' BY <1>1, <1>2, <1>3, <1>4, <2>1, <2>4, <2>5 DEF LoadInv, StoreInv
  <2>7. AnswerInv' BY <1>1, <1>2, <1>3, <1>4, <2>4 DEF AnswerInv
  <2> QED BY <1>4, <1>5, <2>3, <2>6, <2>7 DEF DistInv
<1>8. CASE HostnameLoad
  <2>1. loading.at = "head" /\ loading' = [loading EXCEPT !.at = "rows", !.v = db.v, !.digest = Routes]
    BY <1>8 DEF HostnameLoad
  <2>2. loading.by = "hostname" /\ cp = "up" /\ kind = "route" /\ loading.committed <= db.v
    BY <1>1, <2>1 DEF LoadInv
  <2>3. Routes \in Docs BY <1>1, <2>2, CatalogRows DEF Docs
  <2>4. DistType'
    <3>1. loading' \in [by : {"none", "start", "up", "enrollment", "hostname"}, at : {"none", "rows", "head"},
                        v : Nat, digest : Docs \cup {None}, committed : Nat]
      BY Zenon, <1>1, <1>6, <2>1, <2>3 DEF DistType
    <3> QED BY <1>1, <1>2, <1>3, <1>4, <3>1, SameKind DEF DistType
  <2>5. loading'.by = "hostname" /\ loading'.at = "rows" /\ loading'.v = db.v /\ loading'.committed = loading.committed
    BY <1>1, <2>1, <2>2 DEF DistType
  <2>6. db.v <= db.v BY <1>6
  <2>7. LoadInv' BY Zenon, <1>1, <1>2, <1>3, <1>4, <2>2, <2>5, <2>6 DEF LoadInv
  <2>8. AnswerInv' BY <1>1, <1>2, <1>3, <1>4, <2>5 DEF AnswerInv
  <2> QED BY <1>4, <1>5, <2>4, <2>7, <2>8 DEF DistInv
<1> QED BY <1>7, <1>8

\* A load that fails for a handler, not for the supervisor.
LEMMA LoadAbandoned ==
  ASSUME DistInv, loading.by \notin {"start", "up"}, LoadFails, UNCHANGED <<kind, store, client>>
  PROVE  DistInv'
<1>1. DistType /\ LoadInv /\ AnswerInv BY DEF DistInv
<1>2. loading' = NoLoad /\ Answered(FALSE) /\ UNCHANGED <<cp, pub, net>> BY Zenon DEF LoadFails
<1>3. UNCHANGED <<task, wire, edge, link, hand, app, health, gens, high>> BY <1>2 DEF net, client
<1>4. StoreInv' /\ db' = db /\ committed' = committed BY StoreKept
<1>5. HeldInv' /\ CacheInv' /\ TaskInv' BY <1>2, <1>4, CommittedKeeps
<1>6. DistType' BY SMTT(30), <1>1, <1>2, <1>3, <1>4, SameKind, EmptyRecords DEF DistType
<1>7. \/ ask' = None /\ answer' = [kind |-> "Internal"]
      \/ UNCHANGED <<ask, answer>>
  BY Zenon, <1>2 DEF Answered, names
<1>8. LoadInv' BY Zenon, <1>1, <1>2, <1>4, <1>7, EmptyRecords DEF LoadInv
<1>9. AnswerInv' BY <1>1, <1>2, <1>4, <1>7, EmptyRecords DEF AnswerInv
<1> QED BY <1>4, <1>5, <1>6, <1>8, <1>9 DEF DistInv

\* A load that succeeds publishes a version that was committed, no older than
\* what is published, and wakes the task.
LEMMA LoadPublishes ==
  ASSUME DistInv, NEW d, d = [v |-> loading.v, doc |-> Document(db.rows)], loading.at = "rows", ~Corrupt,
         loading.by = "start" \/ ~PublishError(pub, d), LoadSucceeds(d), UNCHANGED <<kind, store, client>>
  PROVE  DistInv'
<1>1. DistType /\ LoadInv /\ AnswerInv /\ HeldInv /\ CacheInv /\ TaskInv BY DEF DistInv
<1>2. loading' = NoLoad /\ wire' = wire /\ Answered(TRUE) BY Zenon DEF LoadSucceeds
<1>3. UNCHANGED <<edge, link, hand, app, health, gens, high>> BY DEF client
<1>4. StoreInv' /\ db' = db /\ committed' = committed BY StoreKept
<1>5. loading.v \in Nat /\ pub.v \in Nat /\ db.rows \in Rows BY Zenon, <1>1, Fields
<1>6. d \in Version /\ d.v = loading.v BY <1>1, <1>5, DocumentType DEF Version
<1>7. kind = "snapshot" => d \in committed BY <1>1 DEF Corrupt, LoadInv
<1>8. /\ loading.by = "start" => cp = "start" /\ cp' = "up" /\ pub' = d /\ UNCHANGED task
      /\ loading.by # "start" => cp = "up" /\ cp' = "up"
  <2>1. CASE loading.by = "start" BY Zenon, <1>1, <2>1 DEF LoadSucceeds, LoadInv
  <2>2. CASE loading.by # "start"
    <3>1. loading.by \in {"up", "enrollment", "hostname"} BY <1>1, <2>2 DEF LoadInv, DistType
    <3> QED BY <1>1, <2>2, <3>1 DEF LoadSucceeds, LoadInv
  <2> QED BY <2>1, <2>2
<1>9. loading.by # "start" => \/ d = pub /\ UNCHANGED <<pub, task>>
                              \/ pub' = d /\ task' = [task EXCEPT !.dirty = task.st # "none"]
  BY DEF LoadSucceeds, Publish
<1>10. pub' = d
  <2>1. CASE loading.by = "start" BY <1>8, <2>1
  <2>2. CASE loading.by # "start" BY <1>9, <2>2
  <2> QED BY <2>1, <2>2
<1>11. DistType'
  <2>1. task' \in [st : {"none", "request", "push"}, asked : Nat, dirty : BOOLEAN]
    <3>1. CASE task' = task BY <1>1, <3>1 DEF DistType
    <3>2. CASE task' = [task EXCEPT !.dirty = task.st # "none"] BY Zenon, <1>1, <3>2 DEF DistType
    <3> QED BY <1>8, <1>9, <3>1, <3>2
  <2>2. cp' = "up" BY Zenon, <1>8
  <2> QED BY <1>1, <1>2, <1>3, <1>4, <1>6, <1>10, <2>1, <2>2, SameKind, EmptyRecords DEF DistType
<1>12. \/ loading.by = "hostname" /\ ask' = None /\ answer' = [kind |-> "ok", v |-> loading.committed]
       \/ loading.by # "hostname" /\ UNCHANGED <<ask, answer>>
  BY Zenon, <1>2 DEF Answered, names
<1>13. LoadInv'
  <2>1. cp' = "up" BY <1>8
  <2>2. ask # None => cp = "up" /\ kind = "route" /\ ask.tunnel \in Tunnels BY <1>1 DEF LoadInv
  <2> QED BY Zenon, <1>2, <1>4, <1>7, <1>10, <1>12, <2>1, <2>2, EmptyRecords DEF LoadInv
<1>14. loading.by # "start" => pub.v <= d.v BY <1>5, <1>6 DEF PublishError
<1>15. AnswerInv'
  <2>1. loading'.by = "none" BY <1>2, EmptyRecords
  <2>2. CASE loading.by = "hostname"
    <3>1. answer'.v = loading.committed BY <1>12, <2>2
    <3>2. loading.committed \in Nat /\ loading.committed <= db.v /\ loading.committed <= loading.v
      BY <1>1, <2>2, Fields DEF LoadInv
    <3> QED BY <1>4, <1>6, <1>10, <2>1, <3>1, <3>2 DEF AnswerInv
  <2>3. CASE loading.by # "hostname"
    <3>1. answer' = answer BY <1>12, <2>3
    <3>2. ASSUME answer # None, answer.kind = "ok"
          PROVE  answer.v \in Nat /\ answer.v <= db.v /\ answer.v <= d.v
      <4>1. answer.v \in Nat /\ answer.v <= db.v BY <1>1, <3>2 DEF AnswerInv
      <4>2. CASE loading.by = "start" BY <1>1, <1>6, <3>2, <4>1, <4>2 DEF AnswerInv
      <4>3. CASE loading.by # "start"
        <5>1. answer.v <= pub.v BY <1>1, <1>8, <3>2, <4>3 DEF AnswerInv
        <5> QED BY <1>5, <1>6, <1>14, <4>1, <4>3, <5>1
      <4> QED BY <4>2, <4>3
    <3> QED BY <1>4, <1>10, <2>1, <3>1, <3>2 DEF AnswerInv
  <2> QED BY <2>2, <2>3
<1>16. HeldInv' BY <1>1, <1>2, <1>3, <1>4 DEF HeldInv, HealthHonest, Running
<1>17. CacheInv' BY <1>1, <1>3 DEF CacheInv
<1>18. TaskInv'
  <2>1. cp' = "up" BY <1>8
  <2>2. CASE loading.by = "start"
    <3>1. task.st = "none" /\ task' = task BY <1>1, <1>8, <2>2 DEF TaskInv
    <3> QED BY Zenon, <3>1 DEF TaskInv
  <2>3. CASE loading.by # "start" /\ d = pub /\ UNCHANGED <<pub, task>>
    BY Zenon, <1>1, <1>2, <1>3, <2>1, <2>3 DEF TaskInv
  <2>4. CASE loading.by # "start" /\ task' = [task EXCEPT !.dirty = task.st # "none"]
    <3>1. task'.st = task.st /\ (task.st # "none" => task'.dirty) BY Zenon, <1>1, <2>4 DEF DistType
    <3> QED BY <1>1, <1>2, <1>3, <2>1, <3>1 DEF TaskInv
  <2> QED BY <1>9, <2>2, <2>3, <2>4
<1> QED BY <1>4, <1>11, <1>13, <1>15, <1>16, <1>17, <1>18 DEF DistInv

LEMMA FinishLoadKeeps ==
  ASSUME DistInv, FinishLoad
  PROVE  DistInv'
<1> DEFINE d == [v |-> loading.v, doc |-> Document(db.rows)]
           fails == Corrupt \/ (loading.by # "start" /\ PublishError(pub, d))
<1>1. /\ loading.at = "rows" /\ UNCHANGED <<kind, store, client>>
      /\ (fails /\ LoadFails) \/ (~fails /\ LoadSucceeds(d))
  BY DEF FinishLoad
<1>2. CASE fails /\ LoadFails
  <2>1. CASE loading.by \in {"start", "up"}
    <3>1. StopControlPlane BY <1>2, <2>1 DEF LoadFails
    <3> QED BY <1>1, <3>1, StopControlPlaneKeeps
  <2>2. CASE loading.by \notin {"start", "up"} BY <1>1, <1>2, <2>2, LoadAbandoned
  <2> QED BY <2>1, <2>2
<1>3. CASE ~fails /\ LoadSucceeds(d)
  <2>1. ~Corrupt /\ (loading.by = "start" \/ ~PublishError(pub, d)) BY <1>3
  <2> HIDE DEF fails
  <2>2. PICK e : e = d BY Zenon
  <2>3. e = [v |-> loading.v, doc |-> Document(db.rows)] BY <2>2
  <2> QED BY <1>1, <1>3, <2>1, <2>2, <2>3, LoadPublishes
<1> QED BY <1>1, <1>2, <1>3

\* A request for a hostname, and its transaction.
LEMMA NamesKeep ==
  ASSUME None \notin Tunnels, DistInv,
         \/ Unauthorized \/ HostnameRefused \/ HostnameCommit
         \/ \E t \in Tunnels : Request("allocate", t) \/ Request("release", t)
  PROVE  DistInv'
<1>1. DistType /\ StoreInv /\ LoadInv /\ AnswerInv BY DEF DistInv
<1>2. CASE \/ Unauthorized \/ HostnameRefused
           \/ \E t \in Tunnels : Request("allocate", t) \/ Request("release", t)
  <2>1. UNCHANGED <<kind, store, daemon, net, client>>
    BY <1>2 DEF Unauthorized, HostnameRefused, Request
  <2>2. UNCHANGED <<cp, pub, loading, task, wire, edge, link, hand, app, health, gens, high>>
    BY <2>1 DEF daemon, net, client
  <2>3. StoreInv' /\ db' = db /\ committed' = committed BY <2>1, StoreKept
  <2>4. HeldInv' /\ CacheInv' /\ TaskInv' BY <2>1, <2>2, <2>3, CommittedKeeps
  <2>5. DistType' BY <1>1, <2>1, <2>2, <2>3, SameKind DEF DistType
  <2>6. /\ ask' # None => cp = "up" /\ kind = "route" /\ ask'.tunnel \in Tunnels
        /\ answer' # None => answer'.kind # "ok"
    <3>1. CASE Unauthorized BY <3>1 DEF Unauthorized
    <3>2. CASE HostnameRefused BY <3>2 DEF HostnameRefused
    <3>3. ASSUME NEW t \in Tunnels, NEW what, Request(what, t)
          PROVE  ask'.tunnel \in Tunnels /\ cp = "up" /\ kind = "route" /\ answer' = None
      BY Zenon, <3>3 DEF Request
    <3> QED BY <1>2, <3>1, <3>2, <3>3
  <2>7. LoadInv' BY <1>1, <2>1, <2>2, <2>3, <2>6 DEF LoadInv
  <2>8. AnswerInv' BY <2>6 DEF AnswerInv
  <2> QED BY Zenon, <2>3, <2>4, <2>5, <2>7, <2>8 DEF DistInv
<1>3. CASE HostnameCommit
  <2>1. /\ ask # None /\ loading = NoLoad /\ UNCHANGED <<kind, cp, pub, net, client, names>>
        /\ loading' = [by |-> "hostname", at |-> "head", v |-> 0, digest |-> None, committed |-> db'.v]
        /\ \/ (\E h \in Hosts : AllocateManaged(ask.tunnel, h)) \/ ReleaseManaged(ask.tunnel)
           \/ UNCHANGED store
    BY Zenon, <1>3 DEF HostnameCommit, Waiting
  <2>2. cp = "up" /\ kind = "route" /\ ask.tunnel \in Tunnels BY <1>1, <2>1 DEF LoadInv
  <2>3. UNCHANGED <<task, wire, edge, link, hand, app, health, gens, high, ask, answer>>
    BY <2>1 DEF net, client, names
  <2>4. /\ StoreInv' /\ db' \in [v : Nat, rows : Rows] /\ committed' \subseteq [v : Nat, doc : Docs]
        /\ committed \subseteq committed' /\ (db'.v = db.v + 1 \/ db'.v = db.v)
    <3>1. CASE UNCHANGED store
      <4>1. StoreInv' /\ db' = db /\ committed' = committed BY Zenon, <2>1, <3>1, StoreKept
      <4> QED BY <1>1, <4>1 DEF DistType
    <3>2. CASE (\E h \in Hosts : AllocateManaged(ask.tunnel, h)) \/ ReleaseManaged(ask.tunnel)
      <4>1. PICK rows \in Rows : Write(db.v + 1, rows) /\ ManagedRouted' BY <2>1, <2>2, <3>2, ManagedKeeps
      <4> QED BY <2>1, <4>1, WriteKeeps
    <3> QED BY <2>1, <3>1, <3>2
  <2>5. HeldInv' /\ CacheInv' /\ TaskInv' BY <2>1, <2>4, CommittedKeeps
  <2>6. db.v \in Nat /\ db'.v \in Nat /\ db.v <= db'.v /\ db'.v <= db'.v
    <3>1. db.v \in Nat BY Zenon, <1>1, Fields
    <3> QED BY <2>4, <3>1
  <2>7. DistType'
    <3>1. loading' \in [by : {"none", "start", "up", "enrollment", "hostname"}, at : {"none", "rows", "head"},
                        v : Nat, digest : Docs \cup {None}, committed : Nat]
      BY Zenon, <2>1, <2>6
    <3> QED BY <1>1, <2>1, <2>3, <2>4, <3>1, SameKind DEF DistType
  <2>8. loading'.by = "hostname" /\ loading'.at = "head" /\ loading'.committed = db'.v BY Zenon, <2>1
  <2>9. LoadInv' BY Zenon, <1>1, <2>1, <2>2, <2>3, <2>4, <2>6, <2>8 DEF LoadInv
  <2>10. AnswerInv'
    <3>1. answer.v \in Nat /\ answer.v <= db.v => answer.v <= db'.v BY <2>6
    <3> QED BY <1>1, <2>1, <2>3, <2>8, <3>1 DEF AnswerInv
  <2> QED BY Zenon, <2>4, <2>5, <2>7, <2>9, <2>10 DEF DistInv
<1> QED BY <1>2, <1>3

-----------------------------------------------------------------------------
(* The connection.                                                         *)

\* Steps of the connection or the Edge leave the Control Plane's state alone.
LEMMA ControlPlaneKept ==
  ASSUME DistInv, UNCHANGED <<kind, store, daemon, names>>
  PROVE  /\ StoreInv' /\ LoadInv' /\ AnswerInv'
         /\ UNCHANGED <<db, committed, cp, pub, loading, ask, answer>>
<1>1. UNCHANGED <<cp, pub, loading, ask, answer>> BY DEF daemon, names
<1>2. StoreInv' /\ db' = db /\ committed' = committed BY Zenon, StoreKept
<1>3. LoadInv' BY <1>1, <1>2 DEF DistInv, LoadInv
<1>4. AnswerInv' BY <1>1, <1>2 DEF DistInv, AnswerInv
<1> QED BY <1>1, <1>2, <1>3, <1>4

\* The Edge's end of a connection that is gone.
LEMMA Abandoned ==
  ASSUME Abandon
  PROVE  /\ task' = NoTask /\ wire' = <<>> /\ TaskInv'
         /\ task' \in [st : {"none", "request", "push"}, asked : Nat, dirty : BOOLEAN]
         /\ \A S : wire' \in Seq(S)
<1>1. task' = NoTask /\ wire' = <<>> BY DEF Abandon
<1>2. TaskInv' BY <1>1, EmptyRecords DEF TaskInv
<1> QED BY <1>1, <1>2, EmptyRecords

LEMMA WireKept ==
  ASSUME DistType, wire' = wire \/ wire' = <<>>
  PROVE  wire' \in Seq([kind : {"UpToDate", "Document", "ClientAhead"}, v : Nat, doc : Docs \cup {None}])
<1> DEFINE M == [kind : {"UpToDate", "Document", "ClientAhead"}, v : Nat, doc : Docs \cup {None}]
<1>1. wire \in Seq(M) BY DEF DistType
<1> HIDE DEF M
<1>2. <<>> \in Seq(M) OBVIOUS
<1>3. wire' \in Seq(M) BY Zenon, <1>1, <1>2
<1> QED BY <1>3 DEF M

\* What is still under way was under way.
LEMMA WireCommitted ==
  ASSUME HeldInv, wire' = wire \/ wire' = <<>>
  PROVE  kind = "snapshot" => \A i \in 1 .. Len(wire') :
           wire'[i].kind = "Document" => [v |-> wire'[i].v, doc |-> wire'[i].doc] \in committed
<1>1. CASE wire' = wire BY <1>1 DEF HeldInv
<1>2. CASE wire' = <<>>
  <2>1. 1 .. Len(wire') = {} BY <1>2
  <2> QED BY <2>1
<1> QED BY <1>1, <1>2

\* What a task writes is what is published.
LEMMA Written ==
  ASSUME DistInv, cp = "up", NEW m, wire' = Append(wire, m), m.v = pub.v,
         m \in [kind : {"UpToDate", "Document", "ClientAhead"}, v : Nat, doc : Docs \cup {None}],
         m.kind = "Document" => m.doc = pub.doc, UNCHANGED <<kind, client, committed>>
  PROVE  /\ wire' \in Seq([kind : {"UpToDate", "Document", "ClientAhead"}, v : Nat, doc : Docs \cup {None}])
         /\ wire' # <<>> /\ wire'[Len(wire')].v = pub.v /\ HeldInv' /\ CacheInv'
<1> DEFINE M == [kind : {"UpToDate", "Document", "ClientAhead"}, v : Nat, doc : Docs \cup {None}]
<1>1. DistType /\ LoadInv /\ HeldInv /\ CacheInv BY DEF DistInv
<1>2. wire \in Seq(M) /\ m \in M BY <1>1 DEF DistType
<1> HIDE DEF M
<1>3. /\ wire' \in Seq(M) /\ Len(wire') = Len(wire) + 1 /\ wire'[Len(wire) + 1] = m
      /\ \A i \in 1 .. Len(wire) : wire'[i] = wire[i]
  BY <1>2, AppendProperties
<1>4. Len(wire) \in Nat BY <1>2, LenProperties
<1>5. wire' # <<>>
  <2>1. Len(wire') # 0 BY <1>3, <1>4
  <2> QED BY <2>1
<1>6. wire'[Len(wire')] = m BY <1>3
<1>7. UNCHANGED <<edge, link, hand, app, health, gens, high>> BY Zenon DEF client
<1>8. kind = "snapshot" =>
        \A i \in 1 .. Len(wire') : wire'[i].kind = "Document" => [v |-> wire'[i].v, doc |-> wire'[i].doc] \in committed
  <2> SUFFICES ASSUME kind = "snapshot", NEW i \in 1 .. Len(wire'), wire'[i].kind = "Document"
               PROVE  [v |-> wire'[i].v, doc |-> wire'[i].doc] \in committed
    BY Zenon
  <2>1. CASE i \in 1 .. Len(wire) BY Zenon, <1>1, <1>3, <2>1 DEF HeldInv
  <2>2. CASE i = Len(wire) + 1
    <3>1. wire'[i] = m BY Zenon, <1>3, <2>2
    <3>2. pub \in committed /\ pub = [v |-> pub.v, doc |-> pub.doc] BY Zenon, <1>1, Fields DEF LoadInv
    <3> QED BY Zenon, <3>1, <3>2
  <2> QED BY <1>3, <1>4, <2>1, <2>2
<1>9. HeldInv' BY <1>1, <1>7, <1>8 DEF HeldInv, HealthHonest, Running
<1>10. CacheInv' BY <1>1, <1>7 DEF CacheInv
<1> QED BY <1>3, <1>5, <1>6, <1>9, <1>10 DEF M

LEMMA RespondKeeps ==
  ASSUME DistInv, Respond
  PROVE  DistInv'
<1>1. DistType /\ TaskInv BY DEF DistInv
<1>2. /\ task.st = "request" /\ wire' = Append(wire, Response)
      /\ task' = IF Response.kind = "ClientAhead" THEN NoTask ELSE [task EXCEPT !.st = "push"]
      /\ UNCHANGED <<kind, store, daemon, client, names>>
  BY DEF Respond
<1>3. /\ StoreInv' /\ LoadInv' /\ AnswerInv' /\ UNCHANGED <<db, committed, cp, pub, loading, ask, answer>>
  BY <1>2, ControlPlaneKept
<1>4. cp = "up" /\ link = "subscribed" BY <1>1, <1>2 DEF TaskInv
<1>5. task.asked \in Nat /\ pub.v \in Nat /\ pub.doc \in Docs \cup {None} BY <1>1 DEF DistType, Version
<1>6. \/ Response = [kind |-> "UpToDate", v |-> pub.v, doc |-> None]
      \/ Response = [kind |-> "Document", v |-> pub.v, doc |-> pub.doc]
      \/ Response = [kind |-> "ClientAhead", v |-> pub.v, doc |-> None]
  BY <1>5 DEF Response
<1>7. /\ Response \in [kind : {"UpToDate", "Document", "ClientAhead"}, v : Nat, doc : Docs \cup {None}]
      /\ Response.v = pub.v /\ (Response.kind = "Document" => Response.doc = pub.doc)
  BY <1>5, <1>6
<1>8. /\ wire' \in Seq([kind : {"UpToDate", "Document", "ClientAhead"}, v : Nat, doc : Docs \cup {None}])
      /\ wire' # <<>> /\ wire'[Len(wire')].v = pub.v /\ HeldInv' /\ CacheInv'
  BY Zenon, <1>2, <1>3, <1>4, <1>7, Written
<1>9. UNCHANGED <<edge, link, hand, app, gens, high>> BY <1>2 DEF client
<1>10. /\ task' \in [st : {"none", "request", "push"}, asked : Nat, dirty : BOOLEAN]
       /\ task'.st \in {"none", "push"}
  <2>1. CASE task' = NoTask BY <2>1, EmptyRecords
  <2>2. CASE task' = [task EXCEPT !.st = "push"] BY <1>1, <2>2 DEF DistType
  <2> QED BY <1>2, <2>1, <2>2
<1>11. DistType' BY SMTT(30), <1>1, <1>2, <1>3, <1>8, <1>9, <1>10, SameKind DEF DistType
<1>12. TaskInv' BY <1>3, <1>4, <1>8, <1>9, <1>10 DEF TaskInv
<1> QED BY <1>3, <1>8, <1>11, <1>12 DEF DistInv

LEMMA PushKeeps ==
  ASSUME DistInv, Push
  PROVE  DistInv'
<1>1. DistType /\ TaskInv BY DEF DistInv
<1> DEFINE m == [kind |-> "Document", v |-> pub.v, doc |-> pub.doc]
<1>2. /\ task.st = "push" /\ wire' = Append(wire, m) /\ task' = [task EXCEPT !.dirty = FALSE]
      /\ UNCHANGED <<kind, store, daemon, client, names>>
  BY DEF Push
<1>3. /\ StoreInv' /\ LoadInv' /\ AnswerInv' /\ UNCHANGED <<db, committed, cp, pub, loading, ask, answer>>
  BY <1>2, ControlPlaneKept
<1>4. cp = "up" /\ link # "none" BY <1>1, <1>2 DEF TaskInv
<1>5. pub.v \in Nat /\ pub.doc \in Docs \cup {None} BY <1>1 DEF DistType, Version
<1>6. /\ m \in [kind : {"UpToDate", "Document", "ClientAhead"}, v : Nat, doc : Docs \cup {None}]
      /\ m.v = pub.v /\ m.doc = pub.doc
  BY <1>5
<1> HIDE DEF m
<1>7. /\ wire' \in Seq([kind : {"UpToDate", "Document", "ClientAhead"}, v : Nat, doc : Docs \cup {None}])
      /\ wire' # <<>> /\ wire'[Len(wire')].v = pub.v /\ HeldInv' /\ CacheInv'
  BY Zenon, <1>2, <1>3, <1>4, <1>6, Written
<1>8. UNCHANGED <<edge, link, hand, app, gens, high>> BY <1>2 DEF client
<1>9. task' \in [st : {"none", "request", "push"}, asked : Nat, dirty : BOOLEAN] /\ task'.st = "push"
  BY Zenon, <1>1, <1>2 DEF DistType
<1>10. DistType' BY SMTT(30), <1>1, <1>2, <1>3, <1>7, <1>8, <1>9, SameKind DEF DistType
<1>11. TaskInv' BY <1>3, <1>4, <1>7, <1>8, <1>9 DEF TaskInv
<1> QED BY <1>3, <1>7, <1>10, <1>11 DEF DistInv

LEMMA ConnectionEnds ==
  ASSUME DistInv, PushTimeout \/ ConnectionLost
  PROVE  DistInv'
<1>1. DistType /\ HeldInv /\ CacheInv BY DEF DistInv
<1>2. UNCHANGED <<kind, store, daemon, client, names>> /\ task' = NoTask /\ (wire' = wire \/ wire' = <<>>)
  BY DEF PushTimeout, ConnectionLost, Abandon
<1>3. /\ StoreInv' /\ LoadInv' /\ AnswerInv' /\ UNCHANGED <<db, committed, cp, pub, loading, ask, answer>>
  BY <1>2, ControlPlaneKept
<1>4. UNCHANGED <<edge, link, hand, app, health, gens, high>> BY Zenon, <1>2 DEF client
<1>5. DistType'
  <2>1. wire' \in Seq([kind : {"UpToDate", "Document", "ClientAhead"}, v : Nat, doc : Docs \cup {None}])
    BY Zenon, <1>1, <1>2, WireKept
  <2> QED BY <1>1, <1>2, <1>3, <1>4, <2>1, SameKind, EmptyRecords DEF DistType
<1>6. HeldInv'
  <2>1. kind = "snapshot" => \A i \in 1 .. Len(wire') :
          wire'[i].kind = "Document" => [v |-> wire'[i].v, doc |-> wire'[i].doc] \in committed
    BY <1>1, <1>2, WireCommitted
  <2> QED BY Zenon, <1>1, <1>2, <1>3, <1>4, <2>1 DEF HeldInv, HealthHonest, Running
<1>7. CacheInv' BY Zenon, <1>1, <1>2, <1>4 DEF CacheInv
<1>8. TaskInv' BY <1>2, EmptyRecords DEF TaskInv
<1> QED BY <1>3, <1>5, <1>6, <1>7, <1>8 DEF DistInv

-----------------------------------------------------------------------------
(* The Edge.                                                               *)

LEMMA StopEdgeKeeps ==
  ASSUME DistInv, StopEdge, UNCHANGED <<kind, store, daemon, names>>
  PROVE  DistInv'
<1>1. DistType /\ HeldInv /\ CacheInv BY DEF DistInv
<1>2. /\ edge' = "down" /\ link' = "none" /\ hand' = None /\ app' = NoDocument /\ health' = "Stale"
      /\ Abandon /\ UNCHANGED <<gens, high>>
  BY DEF StopEdge
<1>3. /\ StoreInv' /\ LoadInv' /\ AnswerInv' /\ UNCHANGED <<db, committed, cp, pub, loading, ask, answer>>
  BY ControlPlaneKept
<1>4. /\ task' = NoTask /\ wire' = <<>> /\ TaskInv'
      /\ task' \in [st : {"none", "request", "push"}, asked : Nat, dirty : BOOLEAN]
      /\ \A S : wire' \in Seq(S)
  BY Zenon, <1>2, Abandoned
<1>5. DistType' BY ZenonT(40), <1>1, <1>2, <1>3, <1>4, SameKind, EmptyRecords DEF DistType
<1>6. HeldInv'
  <2>1. ~(\E i \in 1 .. Len(wire') : TRUE) BY <1>4
  <2>2. kind' = kind /\ "none" \notin Storing BY DEF Storing
  <2>3. HealthHonest' BY Zenon, <1>2 DEF HealthHonest, Running
  <2> QED BY Zenon, <1>1, <1>2, <1>3, <2>1, <2>2, <2>3 DEF HeldInv
<1>7. CacheInv' BY <1>1, <1>2 DEF CacheInv
<1> QED BY <1>3, <1>4, <1>5, <1>6, <1>7 DEF DistInv

\* The cache a bootstrap falls back to is as new as anything applied before.
LEMMA FallbackKeeps ==
  ASSUME DistInv, Booting, link \in {"none", "subscribed"}, Fallback, UNCHANGED <<kind, store, daemon, names>>,
         (link = "none" /\ UNCHANGED net) \/ Abandon
  PROVE  DistInv'
<1>1. DistType /\ HeldInv /\ CacheInv /\ TaskInv BY Zenon DEF DistInv
<1>2. /\ kind = "snapshot" /\ gens # {} /\ edge' = "up" /\ link' = "none" /\ app' = Newest /\ health' = "Stale"
      /\ high' = Max({high, Newest.v}) /\ UNCHANGED <<hand, gens>>
  BY Zenon DEF Fallback, CacheUsable
<1>3. /\ StoreInv' /\ LoadInv' /\ AnswerInv' /\ UNCHANGED <<db, committed, cp, pub, loading, ask, answer>>
  BY ControlPlaneKept
<1>4. Newest \in gens /\ \A o \in gens : o.v <= Newest.v
  <2>1. \E g \in gens : \A o \in gens : o.v <= g.v BY Zenon, <1>1, <1>2 DEF CacheInv
  <2> QED BY Zenon, <2>1 DEF Newest
<1>5. Newest \in Version /\ Newest.v \in Nat /\ Newest \in committed BY Zenon, <1>1, <1>2, <1>4, Fields DEF DistType, HeldInv
<1>6. high \in Nat /\ high <= Newest.v
  <2>1. high \in Nat BY Zenon, <1>1 DEF DistType
  <2>2. CASE high > 0
    <3>1. PICK g \in gens : high <= g.v BY <1>1, <2>2 DEF CacheInv
    <3>2. g.v \in Nat BY <1>1, Fields
    <3> QED BY <1>4, <1>5, <2>1, <3>1, <3>2
  <2>3. CASE high = 0 BY SMTT(30), <1>5, <2>3
  <2> QED BY SMTT(30), <2>1, <2>2, <2>3
<1>7. high' = Newest.v BY <1>2, <1>5, <1>6, MaxOfTwo
<1>8. /\ task'.st = "none" /\ task' \in [st : {"none", "request", "push"}, asked : Nat, dirty : BOOLEAN]
      /\ wire' = wire \/ wire' = <<>>
  <2>1. CASE link = "none" /\ UNCHANGED net
    <3>1. task' = task /\ wire' = wire BY <2>1 DEF net
    <3> QED BY <1>1, <2>1, <3>1 DEF TaskInv, DistType
  <2>2. CASE Abandon BY <2>2, Abandoned, EmptyRecords
  <2> QED BY Zenon, <2>1, <2>2
<1>9. DistType'
  <2>1. wire' \in Seq([kind : {"UpToDate", "Document", "ClientAhead"}, v : Nat, doc : Docs \cup {None}])
    BY <1>1, <1>8, WireKept
  <2> QED BY ZenonT(40), <1>1, <1>2, <1>3, <1>5, <1>7, <1>8, <2>1, SameKind DEF DistType
<1>10. HeldInv'
  <2>1. hand = None BY Zenon, <1>1 DEF HeldInv, Storing
  <2>2. kind = "snapshot" => \A i \in 1 .. Len(wire') :
          wire'[i].kind = "Document" => [v |-> wire'[i].v, doc |-> wire'[i].doc] \in committed
    BY Zenon, <1>1, <1>8, WireCommitted
  <2> QED BY Zenon, <1>1, <1>2, <1>3, <1>5, <2>1, <2>2 DEF HeldInv, HealthHonest, Running, Storing
<1>11. CacheInv'
  <2>1. Newest.v <= Newest.v BY <1>5
  <2> QED BY <1>1, <1>2, <1>4, <1>7, <2>1 DEF CacheInv
<1>12. TaskInv' BY Zenon, <1>8 DEF TaskInv
<1> QED BY <1>3, <1>9, <1>10, <1>11, <1>12 DEF DistInv

\* Without a new document in its hands.
LEMMA LinkKeeps ==
  ASSUME DistInv, UNCHANGED <<kind, store, daemon, names>>, UNCHANGED <<hand, app, gens, high>>,
         edge' \in {edge, "boot"}, edge' # edge => edge = "down",
         link' \in {link, "none", "subscribed"}, link' # link => link \notin Storing,
         edge' = "down" => link' = "none", health' = health \/ health' # "Live",
         health' = "Live" => edge' = edge /\ link' = link,
         task' \in [st : {"none", "request", "push"}, asked : Nat, dirty : BOOLEAN],
         wire' = wire \/ wire' = <<>>, TaskInv'
  PROVE  DistInv'
<1>1. DistType /\ HeldInv /\ CacheInv /\ TaskInv BY DEF DistInv
<1>2. /\ StoreInv' /\ LoadInv' /\ AnswerInv' /\ UNCHANGED <<db, committed, cp, pub, loading, ask, answer>>
  BY Zenon, ControlPlaneKept
<1>3. DistType'
  <2>1. wire' \in Seq([kind : {"UpToDate", "Document", "ClientAhead"}, v : Nat, doc : Docs \cup {None}])
    BY <1>1, WireKept
  <2>2. edge' \in {"down", "boot", "up"} /\ link' \in {"none", "subscribed", "open"} \cup Storing
    BY Zenon, <1>1 DEF DistType
  <2> QED BY Zenon, <1>1, <1>2, <2>1, <2>2, SameKind DEF DistType
<1>4. HeldInv'
  <2>1. kind = "snapshot" => \A i \in 1 .. Len(wire') :
          wire'[i].kind = "Document" => [v |-> wire'[i].v, doc |-> wire'[i].doc] \in committed
    BY Zenon, <1>1, WireCommitted
  <2>2. link' \in Storing <=> link \in Storing BY DEF Storing
  <2>3. edge' = "up" <=> edge = "up" BY Zenon
  <2>4. HealthHonest'
    <3>1. health' = "Live" => health = "Live" /\ edge' = edge /\ link' = link OBVIOUS
    <3> QED BY <1>1, <3>1 DEF HeldInv, HealthHonest, Running
  <2> QED BY ZenonT(40), <1>1, <1>2, <2>1, <2>2, <2>3, <2>4 DEF HeldInv
<1>5. CacheInv'
  <2>1. edge' = "up" <=> edge = "up" OBVIOUS
  <2>2. link' \in {"sweep", "publish"} => link' = link BY DEF Storing
  <2> QED BY <1>1, <2>1, <2>2 DEF CacheInv
<1> QED BY Zenon, <1>2, <1>3, <1>4, <1>5 DEF DistInv

LEMMA StartEdgeKeeps ==
  ASSUME DistInv, StartEdge
  PROVE  DistInv'
<1>1. DistType /\ TaskInv /\ HeldInv BY DEF DistInv
<1>2. /\ edge = "down" /\ edge' = "boot" /\ link' = link /\ health' = health /\ task' = task /\ wire' = wire
      /\ UNCHANGED <<kind, store, daemon, names>> /\ UNCHANGED <<hand, app, gens, high>> /\ UNCHANGED <<cp, pub>>
  BY ZenonT(40) DEF StartEdge, net, daemon
<1>3. health' # "Live" BY Zenon, <1>1, <1>2 DEF HeldInv, HealthHonest, Running
<1>4. task' \in [st : {"none", "request", "push"}, asked : Nat, dirty : BOOLEAN] BY <1>1, <1>2 DEF DistType
<1>5. TaskInv' BY ZenonT(40), <1>1, <1>2 DEF TaskInv
<1> QED BY <1>2, <1>3, <1>4, <1>5, LinkKeeps

LEMMA ConnectKeeps ==
  ASSUME DistInv, touched \in BOOLEAN, Connect
  PROVE  DistInv'
<1>1. DistType /\ TaskInv /\ HeldInv BY DEF DistInv
<1>2. /\ link = "none" /\ edge # "down" /\ cp = "up" /\ link' = "subscribed" /\ wire' = <<>>
      /\ task' = [st |-> "request", dirty |-> touched, asked |-> app.v]
      /\ UNCHANGED <<kind, store, daemon, names>> /\ UNCHANGED <<edge, hand, app, health, gens, high>>
      /\ UNCHANGED <<cp, pub>>
  BY Zenon DEF Connect, MayConnect, Booting, Running, daemon
<1>3. health' # "Live" BY Zenon, <1>1, <1>2 DEF HeldInv, HealthHonest
<1>4. task' \in [st : {"none", "request", "push"}, asked : Nat, dirty : BOOLEAN] /\ task'.st = "request"
  BY ZenonT(40), <1>1, <1>2, Fields DEF DistType
<1>5. TaskInv' BY <1>2, <1>4 DEF TaskInv
<1>6. link \notin Storing BY ZenonT(40), <1>2 DEF Storing
<1> QED BY <1>2, <1>3, <1>4, <1>5, <1>6, LinkKeeps

\* What the Edge takes off the wire is, when nothing else is under way, what
\* the task wrote last.
LEMMA TakesHead ==
  ASSUME DistInv, wire # <<>>, wire' = Tail(wire)
  PROVE  /\ Head(wire) \in [kind : {"UpToDate", "Document", "ClientAhead"}, v : Nat, doc : Docs \cup {None}]
         /\ wire' \in Seq([kind : {"UpToDate", "Document", "ClientAhead"}, v : Nat, doc : Docs \cup {None}])
         /\ kind = "snapshot" /\ Head(wire).kind = "Document" =>
              [v |-> Head(wire).v, doc |-> Head(wire).doc] \in committed
         /\ kind = "snapshot" => \A i \in 1 .. Len(wire') :
              wire'[i].kind = "Document" => [v |-> wire'[i].v, doc |-> wire'[i].doc] \in committed
         /\ wire' = <<>> => wire[Len(wire)] = Head(wire)
         /\ wire' # <<>> => wire'[Len(wire')] = wire[Len(wire)]
<1> DEFINE M == [kind : {"UpToDate", "Document", "ClientAhead"}, v : Nat, doc : Docs \cup {None}]
<1>1. wire \in Seq(M) BY Zenon DEF DistInv, DistType
<1>2. kind = "snapshot" => \A i \in 1 .. Len(wire) :
        wire[i].kind = "Document" => [v |-> wire[i].v, doc |-> wire[i].doc] \in committed
  BY DEF DistInv, HeldInv
<1> HIDE DEF M
<1>3. /\ Head(wire) \in M /\ Tail(wire) \in Seq(M) /\ Len(Tail(wire)) = Len(wire) - 1
      /\ \A i \in 1 .. Len(Tail(wire)) : Tail(wire)[i] = wire[i + 1]
  BY <1>1, HeadTailProperties
<1>4. Len(wire) \in Nat /\ Len(wire) >= 1 /\ Head(wire) = wire[1]
  <2>1. Len(wire) \in Nat /\ Len(wire) # 0 BY <1>1, LenProperties, EmptySeq
  <2> QED BY <1>1, <2>1
<1>5. \A i \in 1 .. Len(wire') : wire'[i] = wire[i + 1] /\ i + 1 \in 1 .. Len(wire) BY <1>3, <1>4
<1>6. wire' = <<>> => wire[Len(wire)] = Head(wire)
  <2> HAVE wire' = <<>>
  <2>1. Len(Tail(wire)) = 0
    <3>1. Tail(wire) = <<>> OBVIOUS
    <3> QED BY <1>3, <3>1, EmptySeq
  <2>2. \A n \in Nat : 0 = n - 1 => n = 1 OBVIOUS
  <2>3. Len(wire) \in Nat /\ 0 = Len(wire) - 1 BY <1>3, <1>4, <2>1, Zenon
  <2>4. Len(wire) = 1 BY <2>2, <2>3, Zenon
  <2> QED BY <1>4, <2>4
<1>7. wire' # <<>> => wire'[Len(wire')] = wire[Len(wire)]
  <2> HAVE wire' # <<>>
  <2>1. Len(wire') \in Nat /\ Len(wire') # 0 BY <1>3, LenProperties, EmptySeq
  <2>2. Len(wire') \in 1 .. Len(wire') /\ Len(wire') + 1 = Len(wire) BY <1>3, <1>4, <2>1
  <2> QED BY <1>5, <2>2
<1>8. 1 \in 1 .. Len(wire) BY <1>4
<1>9. kind = "snapshot" /\ Head(wire).kind = "Document" =>
        [v |-> Head(wire).v, doc |-> Head(wire).doc] \in committed
  BY Zenon, <1>2, <1>4, <1>8
<1>10. kind = "snapshot" => \A i \in 1 .. Len(wire') :
         wire'[i].kind = "Document" => [v |-> wire'[i].v, doc |-> wire'[i].doc] \in committed
  BY ZenonT(40), <1>2, <1>5
<1> QED BY Zenon, <1>3, <1>6, <1>7, <1>9, <1>10 DEF M

\* The document an accepted message confirms.
LEMMA ConfirmedType ==
  ASSUME DistInv, edge # "down", wire # <<>>, wire' = Tail(wire), Acceptable(Head(wire))
  PROVE  /\ Confirmed(Head(wire)) \in Version /\ Confirmed(Head(wire)).v = Head(wire).v
         /\ kind = "snapshot" => Confirmed(Head(wire)) \in committed
         /\ kind = "snapshot" /\ Head(wire).kind # "Document" => edge = "up"
<1>1. DistType /\ HeldInv BY DEF DistInv
<1>2. Head(wire) \in [kind : {"UpToDate", "Document", "ClientAhead"}, v : Nat, doc : Docs \cup {None}] BY Zenon, TakesHead
<1>3. CASE Head(wire).kind = "Document"
  <2>1. Confirmed(Head(wire)) = [v |-> Head(wire).v, doc |-> Head(wire).doc] BY Zenon, <1>3 DEF Confirmed
  <2>2. kind = "snapshot" => Confirmed(Head(wire)) \in committed BY Zenon, <1>3, <2>1, TakesHead
  <2>3. Head(wire).v \in Nat /\ Head(wire).doc \in Docs \cup {None} BY Zenon, <1>2
  <2>4. Confirmed(Head(wire)) \in Version /\ Confirmed(Head(wire)).v = Head(wire).v BY SMTT(30), <2>1, <2>3 DEF Version
  <2> QED BY <1>3, <2>2, <2>4
<1>4. CASE Head(wire).kind # "Document"
  <2>1. edge = "up" /\ Head(wire).v = app.v /\ Confirmed(Head(wire)) = app
    BY <1>4 DEF Acceptable, Confirmed, Running
  <2> QED BY Zenon, <1>1, <2>1 DEF DistType, HeldInv
<1> QED BY <1>3, <1>4

LEMMA ReceiveKeeps ==
  ASSUME DistInv, Receive
  PROVE  DistInv'
<1>1. DistType /\ HeldInv /\ CacheInv /\ TaskInv BY DEF DistInv
<1>2. /\ edge # "down" /\ link \in {"subscribed", "open"} /\ wire # <<>>
      /\ ReceiveSnapshot \/ ReceiveCatalog \/ ReceiveRejected
      /\ UNCHANGED <<kind, store, daemon, names>>
  BY DEF Receive
<1>3. /\ StoreInv' /\ LoadInv' /\ AnswerInv' /\ UNCHANGED <<db, committed, cp, pub, loading, ask, answer>>
  BY <1>2, ControlPlaneKept
<1>4. task.st # "request" BY Zenon, <1>1, <1>2 DEF TaskInv
<1> DEFINE d == Confirmed(Head(wire))
<1>5. CASE ReceiveSnapshot
  <2>1. /\ kind = "snapshot" /\ Acceptable(Head(wire)) /\ hand' = d /\ link' = "store" /\ wire' = Tail(wire)
        /\ UNCHANGED <<edge, app, health, gens, high, task>>
    BY <1>5 DEF ReceiveSnapshot
  <2>2. d \in Version /\ d.v = Head(wire).v /\ d \in committed BY Zenon, <1>2, <2>1, ConfirmedType
  <2> HIDE DEF d
  <2>3. DistType'
    <3>1. wire' \in Seq([kind : {"UpToDate", "Document", "ClientAhead"}, v : Nat, doc : Docs \cup {None}])
      BY Zenon, <1>2, <2>1, TakesHead
    <3>2. link' \in {"none", "subscribed", "open"} \cup Storing BY Zenon, <2>1 DEF Storing
    <3> QED BY ZenonT(40), <1>1, <1>2, <1>3, <2>1, <2>2, <3>1, <3>2, SameKind DEF DistType
  <2>4. HeldInv'
    <3>1. kind = "snapshot" => \A i \in 1 .. Len(wire') :
            wire'[i].kind = "Document" => [v |-> wire'[i].v, doc |-> wire'[i].doc] \in committed
      BY Zenon, <1>2, <2>1, TakesHead
    <3>2. HealthHonest' BY Zenon, <1>1, <2>1 DEF HeldInv, HealthHonest, Running
    <3>3. link' \in Storing BY <2>1 DEF Storing
    <3> QED BY Zenon, <1>1, <1>2, <1>3, <2>1, <2>2, <3>1, <3>2, <3>3 DEF HeldInv
  <2>5. CacheInv' BY Zenon, <1>1, <1>2, <2>1 DEF CacheInv
  <2>6. TaskInv'
    <3>1. /\ wire' = <<>> => wire[Len(wire)] = Head(wire)
          /\ wire' # <<>> => wire'[Len(wire')] = wire[Len(wire)]
      BY Zenon, <1>2, <2>1, TakesHead
    <3> QED BY Zenon, <1>1, <1>2, <1>3, <1>4, <2>1, <2>2, <3>1 DEF TaskInv
  <2> QED BY Zenon, <1>3, <2>3, <2>4, <2>5, <2>6 DEF DistInv
<1>6. CASE ReceiveCatalog
  <2>1. /\ kind = "route" /\ Acceptable(Head(wire)) /\ wire' = Tail(wire)
        /\ app' = d /\ edge' = "up" /\ link' = "open" /\ health' = "Live" /\ high' = high
        /\ UNCHANGED <<hand, gens, task>>
    BY <1>6 DEF ReceiveCatalog, Apply
  <2>2. d \in Version /\ d.v = Head(wire).v BY ZenonT(40), <1>2, <2>1, ConfirmedType
  <2> HIDE DEF d
  <2>3. DistType'
    <3>1. wire' \in Seq([kind : {"UpToDate", "Document", "ClientAhead"}, v : Nat, doc : Docs \cup {None}])
      BY Zenon, <1>2, <2>1, TakesHead
    <3> QED BY ZenonT(40), <1>1, <1>2, <1>3, <2>1, <2>2, <3>1, SameKind DEF DistType
  <2>4. HeldInv'
    <3>1. HealthHonest' BY <2>1 DEF HealthHonest, Running
    <3>2. link' \notin Storing /\ link \notin Storing BY <1>2, <2>1 DEF Storing
    <3> QED BY <1>1, <1>2, <1>3, <2>1, <3>1, <3>2, Zenon DEF HeldInv
  <2>5. CacheInv' BY <1>1, <1>2, <2>1 DEF CacheInv
  <2>6. TaskInv'
    <3>1. /\ wire' = <<>> => wire[Len(wire)] = Head(wire)
          /\ wire' # <<>> => wire'[Len(wire')] = wire[Len(wire)]
      BY Zenon, <1>2, <2>1, TakesHead
    <3>2. link' \notin Storing BY <2>1 DEF Storing
    <3> QED BY ZenonT(40), <1>1, <1>2, <1>3, <1>4, <2>1, <2>2, <3>1, <3>2 DEF TaskInv
  <2> QED BY <1>3, <2>3, <2>4, <2>5, <2>6 DEF DistInv
<1>7. CASE ReceiveRejected
  <2>1. StopEdge BY <1>7 DEF ReceiveRejected
  <2> QED BY <1>2, <2>1, StopEdgeKeeps
<1> QED BY <1>2, <1>5, <1>6, <1>7

LEMMA StoreStepKeeps ==
  ASSUME DistInv, Store
  PROVE  DistInv'
<1>1. DistType /\ HeldInv /\ CacheInv /\ TaskInv BY DEF DistInv
<1>2. /\ link = "store" /\ (StopEdge \/ (~StoreError /\ Persist)) /\ UNCHANGED <<kind, store, daemon, names>>
  BY DEF Store
<1>3. CASE StopEdge BY Zenon, <1>2, <1>3, StopEdgeKeeps
<1>4. CASE ~StoreError /\ Persist
  <2>1. /\ link' = "sweep" /\ gens' = gens \cup {hand}
        /\ UNCHANGED <<edge, hand, app, health, high, task, wire>>
    BY <1>4 DEF Persist, net
  <2>2. /\ StoreInv' /\ LoadInv' /\ AnswerInv' /\ UNCHANGED <<db, committed, cp, pub, loading, ask, answer>>
    BY Zenon, <1>2, ControlPlaneKept
  <2>3. kind = "snapshot" /\ hand \in committed /\ hand \in Version /\ hand.v \in Nat
    <3>1. link \in Storing BY <1>2 DEF Storing
    <3> QED BY <1>1, <3>1, Fields DEF HeldInv
  <2>4. \A g \in gens' : g.v \in Nat /\ g.v <= hand.v
    <3> SUFFICES ASSUME NEW g \in gens' PROVE g.v \in Nat /\ g.v <= hand.v OBVIOUS
    <3>1. CASE g \in gens
      <4>1. g.v \in Nat BY <1>1, <3>1, Fields
      <4>2. ~(hand.v < g.v) BY <1>4, <3>1 DEF StoreError, PublishError
      <4> QED BY <2>3, <4>1, <4>2
    <3>2. CASE g = hand BY <2>3, <3>2
    <3> QED BY <2>1, <3>1, <3>2
  <2>5. hand \in gens' BY ZenonT(40), <2>1
  <2>6. DistType'
    <3>1. link' \in {"none", "subscribed", "open"} \cup Storing BY Zenon, <2>1 DEF Storing
    <3>2. gens' \subseteq Version /\ hand' \in Version BY <1>1, <2>1, <2>3 DEF DistType
    <3> QED BY <1>1, <1>2, <2>1, <2>2, <3>1, <3>2, SameKind DEF DistType
  <2>7. HeldInv'
    <3>1. link' \in Storing BY <2>1 DEF Storing
    <3>2. HealthHonest' BY ZenonT(40), <1>1, <1>2, <2>1 DEF HeldInv, HealthHonest, Running
    <3>3. edge # "down" BY Zenon, <1>1, <1>2 DEF HeldInv
    <3> QED BY Zenon, <1>1, <1>2, <2>1, <2>2, <2>3, <3>1, <3>2, <3>3 DEF HeldInv
  <2>8. CacheInv'
    <3>1. high > 0 => \E g \in gens' : high <= g.v BY Zenon, <1>1, <2>1 DEF CacheInv
    <3> QED BY <1>1, <1>2, <2>1, <2>4, <2>5, <3>1 DEF CacheInv
  <2>9. TaskInv'
    <3>1. link \in Storing /\ link' \in Storing BY Zenon, <1>2, <2>1 DEF Storing
    <3> QED BY Zenon, <1>1, <1>2, <2>1, <2>2, <3>1 DEF TaskInv
  <2> QED BY <2>2, <2>6, <2>7, <2>8, <2>9 DEF DistInv
<1> QED BY <1>2, <1>3, <1>4

LEMMA SweepKeeps ==
  ASSUME DistInv, Sweep
  PROVE  DistInv'
<1>1. DistType /\ HeldInv /\ CacheInv /\ TaskInv BY DEF DistInv
<1>2. /\ link = "sweep" /\ link' = "publish" /\ gens' = {hand} /\ UNCHANGED <<kind, store, daemon, names>>
      /\ UNCHANGED <<edge, hand, app, health, high, task, wire>>
  BY Zenon DEF Sweep, net
<1>3. /\ StoreInv' /\ LoadInv' /\ AnswerInv' /\ UNCHANGED <<db, committed, cp, pub, loading, ask, answer>>
  BY <1>2, ControlPlaneKept
<1>4. link \in Storing /\ link' \in Storing BY <1>2 DEF Storing
<1>5. kind = "snapshot" /\ hand \in committed /\ hand \in Version /\ hand.v \in Nat
  BY <1>1, <1>4, Fields DEF HeldInv
<1>6. \A g \in gens : g.v \in Nat /\ g.v <= hand.v BY Zenon, <1>1, <1>2, Fields DEF CacheInv
<1>7. DistType' BY ZenonT(40), <1>1, <1>2, <1>3, <1>4, <1>5, SameKind DEF DistType
<1>8. HeldInv'
  <2>1. HealthHonest' BY ZenonT(40), <1>1, <1>2 DEF HeldInv, HealthHonest, Running
  <2>2. edge # "down" BY Zenon, <1>1, <1>2 DEF HeldInv
  <2> QED BY Zenon, <1>1, <1>2, <1>3, <1>4, <1>5, <2>1, <2>2 DEF HeldInv
<1>9. CacheInv'
  <2>1. hand.v <= hand.v BY <1>5
  <2>2. high > 0 => high <= hand.v
    <3> HAVE high > 0
    <3>1. PICK g \in gens : high <= g.v BY <1>1 DEF CacheInv
    <3>2. high \in Nat BY ZenonT(40), <1>1 DEF DistType
    <3> QED BY <1>5, <1>6, <3>1, <3>2
  <2> QED BY <1>1, <1>2, <2>1, <2>2 DEF CacheInv
<1>10. TaskInv' BY <1>1, <1>2, <1>3, <1>4 DEF TaskInv
<1> QED BY <1>3, <1>7, <1>8, <1>9, <1>10 DEF DistInv

\* Only what is in the cache is applied, and nothing newer was before.
LEMMA PublishStoredKeeps ==
  ASSUME DistInv, PublishStored
  PROVE  DistInv'
<1>1. DistType /\ HeldInv /\ CacheInv /\ TaskInv BY DEF DistInv
<1>2. /\ link = "publish" /\ (StopEdge \/ (Apply(hand) /\ hand' = None /\ UNCHANGED <<gens, net>>))
      /\ UNCHANGED <<kind, store, daemon, names>>
  BY DEF PublishStored
<1>3. CASE StopEdge BY <1>2, <1>3, StopEdgeKeeps
<1>4. CASE Apply(hand) /\ hand' = None /\ UNCHANGED <<gens, net>>
  <2>1. link \in Storing BY Zenon, <1>2 DEF Storing
  <2>2. kind = "snapshot" /\ hand \in committed /\ hand \in Version /\ hand.v \in Nat /\ high \in Nat
    BY Zenon, <1>1, <2>1, Fields DEF HeldInv, DistType
  <2>3. /\ app' = hand /\ edge' = "up" /\ link' = "open" /\ health' = "Live" /\ high' = Max({high, hand.v})
        /\ hand' = None /\ UNCHANGED <<gens, task, wire>>
    BY <1>4, <2>2 DEF Apply, net
  <2>4. /\ StoreInv' /\ LoadInv' /\ AnswerInv' /\ UNCHANGED <<db, committed, cp, pub, loading, ask, answer>>
    BY Zenon, <1>2, ControlPlaneKept
  <2>5. hand \in gens /\ \A g \in gens : g.v \in Nat /\ g.v <= hand.v BY <1>1, <1>2, Fields DEF CacheInv
  <2>6. high <= hand.v
    <3>1. CASE high > 0
      <4>1. PICK g \in gens : high <= g.v BY <1>1, <3>1 DEF CacheInv
      <4> QED BY <2>2, <2>5, <4>1
    <3>2. CASE ~(high > 0) BY <2>2, <3>2
    <3> QED BY <3>1, <3>2
  <2>7. high' = hand.v BY <2>2, <2>3, <2>6, MaxOfTwo
  <2>8. DistType' BY ZenonT(40), <1>1, <1>2, <2>2, <2>3, <2>4, <2>7, SameKind DEF DistType
  <2>9. link' \notin Storing BY <2>3 DEF Storing
  <2>10. HeldInv'
    <3>1. HealthHonest' BY Zenon, <2>3 DEF HealthHonest, Running
    <3> QED BY Zenon, <1>1, <1>2, <2>2, <2>3, <2>4, <2>9, <3>1 DEF HeldInv
  <2>11. CacheInv'
    <3>1. hand.v <= hand.v BY <2>2
    <3> QED BY <1>1, <1>2, <2>3, <2>5, <2>7, <3>1 DEF CacheInv
  <2>12. TaskInv' BY Zenon, <1>1, <1>2, <2>1, <2>3, <2>4, <2>9 DEF TaskInv
  <2> QED BY <2>4, <2>8, <2>10, <2>11, <2>12 DEF DistInv
<1> QED BY <1>2, <1>3, <1>4

LEMMA StreamEndsKeeps ==
  ASSUME DistInv, StreamEnds
  PROVE  DistInv'
<1>1. DistType /\ TaskInv BY DEF DistInv
<1>2. /\ task.st = "none" /\ ((link = "open" /\ Disconnected) \/ StopEdge) /\ edge # "down"
      /\ UNCHANGED <<kind, store, daemon, names>>
  BY DEF StreamEnds
<1>3. CASE StopEdge BY Zenon, <1>2, <1>3, StopEdgeKeeps
<1>4. CASE link = "open" /\ Disconnected
  <2>1. /\ link' = "none" /\ health' = "Stale" /\ task' = task /\ wire' = wire
        /\ UNCHANGED <<edge, hand, app, gens, high>>
    BY Zenon, <1>4 DEF Disconnected, net
  <2>2. TaskInv' BY <1>2, <2>1 DEF TaskInv
  <2>3. link \notin Storing BY Zenon, <1>4 DEF Storing
  <2>4. task' \in [st : {"none", "request", "push"}, asked : Nat, dirty : BOOLEAN] BY Zenon, <1>1, <2>1 DEF DistType
  <2> QED BY <1>2, <2>1, <2>2, <2>3, <2>4, LinkKeeps
<1> QED BY <1>2, <1>3, <1>4

LEMMA BootFailsKeeps ==
  ASSUME DistInv, Unreachable \/ SubscribeTimeout
  PROVE  DistInv'
<1>1. UNCHANGED <<kind, store, daemon, names>> BY DEF Unreachable, SubscribeTimeout
<1>2. \/ StopEdge
      \/ Booting /\ link = "none" /\ Fallback /\ UNCHANGED net
      \/ Booting /\ link = "subscribed" /\ Fallback /\ Abandon
      \/ link = "subscribed" /\ Running /\ link' = "none" /\ Abandon /\ UNCHANGED <<edge, hand, app, health, gens, high>>
  BY DEF Unreachable, SubscribeTimeout
<1>3. CASE StopEdge BY <1>1, <1>3, StopEdgeKeeps
<1>4. CASE Booting /\ link = "none" /\ Fallback /\ UNCHANGED net BY <1>1, <1>4, FallbackKeeps
<1>5. CASE Booting /\ link = "subscribed" /\ Fallback /\ Abandon BY <1>1, <1>5, FallbackKeeps
<1>6. CASE /\ link = "subscribed" /\ Running /\ link' = "none" /\ Abandon
           /\ UNCHANGED <<edge, hand, app, health, gens, high>>
  <2>1. health' # "Live" BY <1>6 DEF DistInv, HeldInv, HealthHonest
  <2>2. link \notin Storing BY <1>6 DEF Storing
  <2> QED BY Zenon, <1>1, <1>6, <2>1, <2>2, Abandoned, LinkKeeps
<1> QED BY Zenon, <1>2, <1>3, <1>4, <1>5, <1>6

LEMMA AgesKeeps ==
  ASSUME DistInv, Ages \/ Expire
  PROVE  DistInv'
<1>1. UNCHANGED <<kind, store, daemon, names>> BY DEF Ages, Expire
<1>2. CASE Ages
  <2>1. UNCHANGED <<edge, link, hand, app, health, gens, high, task, wire, cp, pub>> BY <1>2 DEF Ages, net, daemon
  <2>2. DistType /\ HeldInv /\ TaskInv BY Zenon DEF DistInv
  <2>3. TaskInv' BY <2>1, <2>2 DEF TaskInv
  <2>4. task' \in [st : {"none", "request", "push"}, asked : Nat, dirty : BOOLEAN] BY Zenon, <2>1, <2>2 DEF DistType
  <2>5. edge' = "down" => link' = "none" BY <2>1, <2>2 DEF HeldInv
  <2> QED BY Zenon, <1>1, <2>1, <2>3, <2>4, <2>5, LinkKeeps
<1>3. CASE Expire
  <2>1. StopEdge \/ (Running /\ link \in {"none", "subscribed"} /\ ExpireCatalog) BY Zenon, <1>3 DEF Expire
  <2>2. CASE StopEdge BY <1>1, <2>2, StopEdgeKeeps
  <2>3. CASE Running /\ link \in {"none", "subscribed"} /\ ExpireCatalog
    <3>1. link' = "none" /\ Abandon /\ health' = "Expired" /\ UNCHANGED <<edge, hand, app, gens, high>>
      BY <2>3 DEF ExpireCatalog
    <3>2. link \notin Storing BY <2>3 DEF Storing
    <3> QED BY <1>1, <3>1, <3>2, Abandoned, LinkKeeps
  <2> QED BY <2>1, <2>2, <2>3
<1> QED BY <1>2, <1>3

-----------------------------------------------------------------------------
(* The specification.                                                      *)

LEMMA Init_DistInv ==
  ASSUME None \notin Tunnels, Init
  PROVE  DistInv
<1>1. /\ kind \in {"snapshot", "route"} /\ committed = {[v |-> 1, doc |-> Document(db.rows)]}
      /\ cp = "down" /\ pub = NoDocument /\ loading = NoLoad /\ task = NoTask /\ wire = <<>>
      /\ edge = "down" /\ link = "none" /\ hand = None /\ app = NoDocument /\ health = "Stale"
      /\ gens = {} /\ high = 0 /\ ask = None /\ answer = None
  BY Zenon DEF Init
<1>2. ASSUME kind = "route"
      PROVE  db \in [v : Nat, rows : Rows] /\ db.v = 1 /\ Document(db.rows) \in Docs /\ ManagedRouted
  <2> DEFINE routes == [h \in Hosts |-> None]
             managed == [t \in Tunnels |-> None]
  <2>1. db = [v |-> 1, rows |-> [routes |-> routes, managed |-> managed]] BY Zenon, <1>2 DEF Init
  <2>2. /\ routes \in [Hosts -> Tunnels \cup {None}] /\ managed \in [Tunnels -> Hosts \cup {None}]
        /\ \A t \in Tunnels : managed[t] = None
    OBVIOUS
  <2> HIDE DEF routes, managed
  <2>3. db.v = 1 /\ db.rows = [routes |-> routes, managed |-> managed] BY Zenon, <2>1
  <2>4. db.rows.routes = routes /\ db.rows.managed = managed BY <2>3
  <2>5. Docs = [Hosts -> Tunnels \cup {None}] /\ Document(db.rows) = routes BY <1>2, <2>4 DEF Docs, Document
  <2>6. Rows = [routes : [Hosts -> Tunnels \cup {None}], managed : [Tunnels -> Hosts \cup {None}]]
    BY Zenon, <1>2 DEF Rows
  <2>7. db.rows \in Rows BY <2>2, <2>3, <2>6
  <2>8. ManagedRouted BY Zenon, <2>2, <2>4 DEF ManagedRouted, Managed
  <2>9. db \in [v : Nat, rows : Rows] BY <2>1, <2>3, <2>7
  <2> QED BY <2>2, <2>3, <2>5, <2>8, <2>9
<1>3. ASSUME kind = "snapshot"
      PROVE  db \in [v : Nat, rows : Rows] /\ db.v = 1 /\ Document(db.rows) \in Docs /\ ManagedRouted
  <2>1. db = [v |-> 1, rows |-> Tunnels] BY ZenonT(40), <1>3 DEF Init
  <2>2. Docs = SUBSET Tunnels /\ Rows = SUBSET Tunnels BY Zenon, <1>3 DEF Docs, Rows
  <2>3. Document(db.rows) = Tunnels BY <1>3, <2>1 DEF Document
  <2>4. ManagedRouted BY <1>3 DEF ManagedRouted
  <2>5. db \in [v : Nat, rows : Rows] /\ db.v = 1 BY <2>1, <2>2
  <2> QED BY <2>2, <2>3, <2>4, <2>5
<1>4. db \in [v : Nat, rows : Rows] /\ db.v = 1 /\ Document(db.rows) \in Docs /\ ManagedRouted BY Zenon, <1>1, <1>2, <1>3
<1>5. DistType
  <2>1. wire \in Seq([kind : {"UpToDate", "Document", "ClientAhead"}, v : Nat, doc : Docs \cup {None}])
    BY <1>1, EmptySeq
  <2>2. committed \subseteq [v : Nat, doc : Docs] BY SMTT(30), <1>1, <1>4
  <2>3. hand \in Version \cup {None} /\ gens \subseteq Version /\ high \in Nat BY Zenon, <1>1
  <2>4. /\ pub \in Version /\ app \in Version
        /\ task \in [st : {"none", "request", "push"}, asked : Nat, dirty : BOOLEAN]
        /\ loading \in [by : {"none", "start", "up", "enrollment", "hostname"}, at : {"none", "rows", "head"},
                        v : Nat, digest : Docs \cup {None}, committed : Nat]
    BY Zenon, <1>1, EmptyRecords
  <2> QED BY <1>1, <1>4, <2>1, <2>2, <2>3, <2>4 DEF DistType
<1>6. StoreInv BY SMTT(30), <1>1, <1>4 DEF StoreInv
<1>7. LoadInv BY <1>1, EmptyRecords DEF LoadInv
<1>8. AnswerInv BY Zenon, <1>1 DEF AnswerInv
<1>9. HeldInv
  <2>1. HealthHonest BY <1>1 DEF HealthHonest
  <2>2. link \notin Storing BY <1>1 DEF Storing
  <2>3. 1 .. Len(wire) = {} BY SMTT(30), <1>1
  <2> QED BY <1>1, <2>1, <2>2, <2>3 DEF HeldInv
<1>10. CacheInv BY SMTT(30), <1>1 DEF CacheInv
<1>11. TaskInv BY <1>1, EmptyRecords DEF TaskInv
<1> QED BY <1>5, <1>6, <1>7, <1>8, <1>9, <1>10, <1>11 DEF DistInv

\* The flag of the watch channel.
LEMMA TouchedBoolean ==
  ASSUME touched \in BOOLEAN, [Next]_vars
  PROVE  touched' \in BOOLEAN
<1>1. ASSUME UNCHANGED daemon PROVE touched' \in BOOLEAN BY <1>1 DEF daemon
<1>2. CASE UNCHANGED vars BY <1>1, <1>2 DEF vars
<1>3. CASE ControlPlane
  <2>1. CASE StartControlPlane \/ RefreshLoad \/ EnrollmentLoad \/ HostnameLoad \/ HostnameCommit
    BY <2>1 DEF StartControlPlane, RefreshLoad, EnrollmentLoad, HostnameLoad, HostnameCommit
  <2>2. CASE FinishLoad
    BY Zenon, <2>2 DEF FinishLoad, LoadFails, LoadSucceeds, StopControlPlane, Publish
  <2>3. CASE Unauthorized \/ HostnameRefused \/ Respond \/ Push
    BY <1>1, <2>3 DEF Unauthorized, HostnameRefused, Respond, Push
  <2> QED BY <1>3, <2>1, <2>2, <2>3 DEF ControlPlane
<1>4. CASE Edge
  BY Zenon, <1>1, <1>4 DEF Edge, StartEdge, Connect, Refused, Unreachable, Receive, Store, Sweep, PublishStored,
                    StreamEnds, Expire
<1>5. CASE Environment
  <2>1. CASE ControlPlaneCrash BY Zenon, <2>1 DEF ControlPlaneCrash, StopControlPlane
  <2>2. CASE \E t \in Tunnels : OperatorHostname(t) \/ Request("allocate", t) \/ Request("release", t)
    BY <1>1, <2>2 DEF OperatorHostname, Request
  <2>3. CASE \E h \in Hosts : Remove(h) \/ \E t \in Tunnels : Upsert(h, t) BY Zenon, <1>1, <2>3 DEF Remove, Upsert
  <2>4. CASE CommitSnapshot \/ EdgeCrash \/ PushTimeout \/ SubscribeTimeout \/ ConnectionLost \/ Ages
    BY <1>1, <2>4 DEF CommitSnapshot, EdgeCrash, PushTimeout, SubscribeTimeout, ConnectionLost, Ages
  <2> QED BY <1>5, <2>1, <2>2, <2>3, <2>4 DEF Environment
<1> QED BY <1>2, <1>3, <1>4, <1>5 DEF Next

LEMMA Next_DistInv ==
  ASSUME None \notin Tunnels, DistInv, touched \in BOOLEAN, [Next]_vars
  PROVE  DistInv'
<1>1. CASE UNCHANGED vars
  <2>1. /\ UNCHANGED <<kind, store, daemon, names>> /\ UNCHANGED <<hand, app, gens, high>>
        /\ UNCHANGED <<edge, link, health, task, wire, cp, pub>>
    BY <1>1 DEF vars, net, client, daemon
  <2>2. DistType /\ HeldInv /\ TaskInv BY DEF DistInv
  <2>3. TaskInv' BY Zenon, <2>1, <2>2 DEF TaskInv
  <2>4. task' \in [st : {"none", "request", "push"}, asked : Nat, dirty : BOOLEAN] BY Zenon, <2>1, <2>2 DEF DistType
  <2>5. edge' = "down" => link' = "none" BY Zenon, <2>1, <2>2 DEF HeldInv
  <2> QED BY ZenonT(40), <2>1, <2>3, <2>4, <2>5, LinkKeeps
<1>2. CASE ControlPlane
  BY <1>2, StartControlPlaneKeeps, LoadsKeep, FinishLoadKeeps, NamesKeep, RespondKeeps, PushKeeps DEF ControlPlane
<1>3. CASE Edge
  <2>1. CASE Refused BY <2>1, StopEdgeKeeps DEF Refused
  <2> QED BY <1>3, <2>1, StartEdgeKeeps, ConnectKeeps, BootFailsKeeps, ReceiveKeeps, StoreStepKeeps, SweepKeeps,
             PublishStoredKeeps, StreamEndsKeeps, AgesKeeps DEF Edge
<1>4. CASE Environment
  <2>1. CASE EdgeCrash BY <2>1, StopEdgeKeeps DEF EdgeCrash
  <2>2. CASE ControlPlaneCrash BY <2>2, StopControlPlaneKeeps DEF ControlPlaneCrash
  <2>3. CASE \E h \in Hosts : Remove(h) \/ \E t \in Tunnels : Upsert(h, t) BY <2>3, CommitsKeep
  <2>4. CASE \E t \in Tunnels : OperatorHostname(t) \/ Request("allocate", t) \/ Request("release", t)
    BY <2>4, CommitsKeep, NamesKeep
  <2>5. CASE CommitSnapshot BY <2>5, CommitsKeep
  <2> QED BY <1>4, <2>1, <2>2, <2>3, <2>4, <2>5, ConnectionEnds, BootFailsKeeps, AgesKeeps DEF Environment
<1> QED BY <1>1, <1>2, <1>3, <1>4 DEF Next

LEMMA Spec_DistInv ==
  ASSUME None \notin Tunnels
  PROVE  Spec => []DistInv
<1>1. Init => DistInv /\ touched \in BOOLEAN
  <2> HAVE Init
  <2>1. DistInv BY Init_DistInv
  <2>2. touched \in BOOLEAN BY Zenon DEF Init
  <2> QED BY <2>1, <2>2
<1>2. (DistInv /\ touched \in BOOLEAN) /\ [Next]_vars => (DistInv /\ touched \in BOOLEAN)'
  BY Next_DistInv, TouchedBoolean
<1> QED BY <1>1, <1>2, PTL DEF Spec

\* What is published, applied, in hand or cached was committed; two documents
\* committed under one version are one.
LEMMA DistInvImplies ==
  ASSUME None \notin Tunnels, DistInv
  PROVE  EdgeFollows /\ ReportsHold
<1>1. DistType /\ StoreInv /\ LoadInv /\ AnswerInv /\ HeldInv /\ CacheInv /\ TaskInv BY DEF DistInv
<1>2. AppliedCommitted
  <2> SUFFICES ASSUME kind = "snapshot"
               PROVE  (({pub, app, hand} \ {NoDocument, None}) \cup gens) \subseteq committed
    BY ZenonT(40) DEF AppliedCommitted
  <2>1. pub = NoDocument \/ pub \in committed BY <1>1 DEF LoadInv
  <2>2. app = NoDocument \/ app \in committed BY ZenonT(40), <1>1 DEF HeldInv
  <2>3. hand = None \/ hand \in committed BY ZenonT(40), <1>1 DEF HeldInv
  <2>4. gens \subseteq committed BY Zenon, <1>1 DEF HeldInv
  <2> QED BY <2>1, <2>2, <2>3, <2>4
<1>3. NoRollback
  <2>1. high \in Nat /\ app.v \in Nat BY <1>1, Fields DEF DistType
  <2> QED BY ZenonT(40), <1>1, <2>1 DEF NoRollback, Running, CacheInv
<1>4. LiveIsCurrent
  <2> SUFFICES ASSUME Running, health = "Live", link = "open", task.st = "push", ~task.dirty, wire = <<>>
               PROVE  app.v = pub.v /\ (kind = "snapshot" => app = pub)
    BY DEF LiveIsCurrent
  <2>1. app.v = pub.v /\ cp = "up" BY Zenon, <1>1 DEF TaskInv
  <2>2. kind = "snapshot" => app \in committed /\ pub \in committed BY Zenon, <1>1, <2>1 DEF HeldInv, LoadInv, Running
  <2> QED BY <1>1, <2>1, <2>2 DEF StoreInv
<1>5. AnswerPublished
  <2> SUFFICES ASSUME answer # None, cp = "up", answer.kind = "ok" PROVE pub.v >= answer.v BY DEF AnswerPublished
  <2>1. answer.v \in Nat /\ answer.v <= pub.v BY <1>1 DEF AnswerInv
  <2> QED BY <1>1, <2>1, Fields
<1> QED BY Zenon, <1>1, <1>2, <1>3, <1>4, <1>5 DEF EdgeFollows, ReportsHold, HeldInv, StoreInv

\* Whatever crashes, races and lost connections there are: an Edge authorizes
\* only by documents that were committed, never by an older one than before,
\* and a Live Edge with nothing under way holds what the Control Plane
\* publishes (serve_edge, persist_and_publish, SnapshotPublisher::publish).
THEOREM EdgeFollowsProved ==
  ASSUME None \notin Tunnels
  PROVE  Spec => []EdgeFollows
<1>1. DistInv => EdgeFollows BY DistInvImplies
<1> QED BY <1>1, Spec_DistInv, PTL

\* A Live Edge has a connection, success told to an Agent is published, and a
\* managed hostname stays routed to its tunnel, under any interleaving of
\* operators, Agents and refreshes (SnapshotHealth, allocate_managed_hostname,
\* is_managed_hostname).
THEOREM ReportsHoldProved ==
  ASSUME None \notin Tunnels
  PROVE  Spec => []ReportsHold
<1>1. DistInv => ReportsHold BY DistInvImplies
<1> QED BY <1>1, Spec_DistInv, PTL

=============================================================================
