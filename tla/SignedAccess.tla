---------------------------- MODULE SignedAccess -----------------------------
(***************************************************************************)
(* Signed access links: issuing (SignedAccessSigner), the Edge's decision  *)
(* on a request (authorize_signed_access, SignedAccessKeyRing::verify) and *)
(* the reload of the public-key ring from two files that the operator      *)
(* replaces one after the other, the ring and the manifest that declares   *)
(* its generation and digest.  A digest is modelled by the content it is   *)
(* taken of, a signature by the key material that made it.                 *)
(***************************************************************************)
EXTENDS Integers, Sequences, FiniteSets, SequencesExt

CONSTANTS Keys,       \* key pairs: records [id, mat]
          MaxKeys,    \* MAX_SIGNED_ACCESS_KEYS
          Hostnames,
          MaxTtl,     \* maximum_ttl
          Skew,       \* clock_skew
          MaxTime,    \* the largest u64
          MaxGen,     \* bound: generations the operator uses
          MaxWrites   \* bound: file replacements of a behaviour

VARIABLES ring,      \* content of the key-ring file
          manifest,  \* content of the manifest file
          reading,   \* the manifest a reload has read, NoManifest between reloads
          active,    \* SignedAccessKeyRingState
          published, \* every manifest that was ever in place (history variable)
          writes     \* file replacements so far, for MaxWrites

vars == <<ring, manifest, reading, active, published, writes>>

NoManifest == [gen |-> 0, digest |-> {}]

(* validate_key_id, load_signed_access_key_ring. *)
KeyIdValid(k) == k.id # 0

RingValid(r) ==
    /\ r # {} /\ Cardinality(r) <= MaxKeys
    /\ \A k \in r : KeyIdValid(k)
    /\ \A k, l \in r : k.id = l.id => k = l

(* load_generation_sync: the checks on the manifest, then on the file. *)
ManifestValid(m) == m.gen # 0

MutMatches(m, content) == TRUE
Matches(m, content) == m.digest = content

(***************************************************************************)
(* SignedAccessKeyRingReloadRuntime::bootstrap over a published pair.      *)
(***************************************************************************)
Init ==
    /\ writes = 0 /\ reading = NoManifest
    /\ \E k \in {l \in Keys : KeyIdValid(l)} :
         /\ ring = {k}
         /\ manifest = [gen |-> 1, digest |-> {k}]
         /\ active = [gen |-> 1, manifest |-> [gen |-> 1, digest |-> {k}], keys |-> {k}, failed |-> FALSE]
    /\ published = {manifest}

(* The operator replaces one of the two files. *)
WriteRing(r) ==
    /\ writes < MaxWrites /\ r # ring
    /\ ring' = r /\ writes' = writes + 1
    /\ UNCHANGED <<manifest, reading, active, published>>

WriteManifest(g) ==
    /\ writes < MaxWrites
    /\ manifest' = [gen |-> g, digest |-> ring] /\ writes' = writes + 1
    /\ published' = published \cup {manifest'}
    /\ UNCHANGED <<ring, reading, active>>

(***************************************************************************)
(* reload_once.  The manifest is read first, the ring file later.          *)
(***************************************************************************)
ReadManifest ==
    /\ reading = NoManifest
    /\ IF ManifestValid(manifest)
       THEN reading' = manifest /\ UNCHANGED active
       ELSE active' = [active EXCEPT !.failed = TRUE] /\ UNCHANGED reading
    /\ UNCHANGED <<ring, manifest, published, writes>>

(* activate_reload_candidate, and mark_reload_failed for what it refuses. *)
MutActivated(st, m, keys) == [gen |-> m.gen, manifest |-> m, keys |-> keys, failed |-> FALSE]

Activated(st, m, keys) ==
    IF m.gen > st.gen THEN [gen |-> m.gen, manifest |-> m, keys |-> keys, failed |-> FALSE]
    ELSE IF m = st.manifest THEN st
    ELSE [st EXCEPT !.failed = TRUE]

ReadRing ==
    /\ reading # NoManifest
    /\ reading' = NoManifest
    /\ active' = IF Matches(reading, ring) /\ RingValid(ring) THEN Activated(active, reading, ring)
                 ELSE [active EXCEPT !.failed = TRUE]
    /\ UNCHANGED <<ring, manifest, published, writes>>

(***************************************************************************)
(* A link is any text with a valid signature; SignedAccessSigner::sign     *)
(* makes the ones with a positive lifetime.                                *)
(***************************************************************************)
Times == 0..MaxTime
Links == [key : Keys, host : Hostnames, issued : Times, expires : Times]

Signs(t) == KeyIdValid(t.key) /\ t.issued < t.expires

(***************************************************************************)
(* verify: u64 additions saturate at MaxTime.                              *)
(***************************************************************************)
SaturatingAdd(a, b) == IF a + b > MaxTime THEN MaxTime ELSE a + b

KeyFor(t) == {k \in active.keys : k.id = t.key.id}

Lifetime(t, now) ==
    IF t.expires < t.issued THEN "invalid_lifetime"
    ELSE IF t.expires - t.issued = 0 \/ t.expires - t.issued > MaxTtl THEN "lifetime_too_long"
    ELSE IF SaturatingAdd(now, Skew) < t.issued THEN "not_yet_valid"
    ELSE IF now > SaturatingAdd(t.expires, Skew) THEN "expired"
    ELSE "ok"

Verify(t, host, now) ==
    IF KeyFor(t) = {} THEN "unknown_key"
    ELSE IF t.key \notin KeyFor(t) THEN "invalid_signature"
    ELSE IF t.host # host THEN "wrong_hostname"
    ELSE Lifetime(t, now)

(***************************************************************************)
(* authorize_signed_access on the query's parameters: another, the access  *)
(* parameter with no value, or a link.  `retained` is what goes upstream.  *)
(***************************************************************************)
IsAccess(x) == x # [other |-> TRUE]

EmptyAccess == [empty |-> TRUE]

RejectionReason(v) ==
    CASE v \in {"expired", "not_yet_valid", "lifetime_too_long", "invalid_lifetime"} -> "signed_access_expired"
      [] OTHER -> "signed_access_invalid"

Authorize(query, host, now) ==
    LET access == SelectSeq(query, IsAccess)
        verdict == Verify(access[1], host, now)
    IN  IF access = <<>> THEN [ok |-> FALSE, why |-> "signed_access_missing", retained |-> <<>>]
        ELSE IF Len(access) > 1 \/ access[1] = EmptyAccess
             THEN [ok |-> FALSE, why |-> "signed_access_malformed", retained |-> <<>>]
        ELSE IF verdict # "ok" THEN [ok |-> FALSE, why |-> RejectionReason(verdict), retained |-> <<>>]
        ELSE [ok |-> TRUE, why |-> "ok",
              retained |-> SelectSeq(query, LAMBDA x : ~IsAccess(x))]

Next ==
    \/ \E r \in SUBSET Keys : WriteRing(r)
    \/ \E g \in 0..MaxGen : WriteManifest(g)
    \/ ReadManifest
    \/ ReadRing

(* The reload loop is a task of its own on an interval timer. *)
Fairness == WF_vars(ReadManifest) /\ WF_vars(ReadRing)

Spec == Init /\ [][Next]_vars /\ Fairness

-----------------------------------------------------------------------------
(* The ring in force is one the operator declared, under that generation:  *)
(* reading the manifest of one publication and the ring of another never   *)
(* puts a ring in force that no manifest described (digest check).         *)
ActivePublished ==
    /\ RingValid(active.keys)
    /\ \E m \in published : m.gen = active.gen /\ m.digest = active.keys

(* The keys in force change only by moving to a higher generation, so a    *)
(* retired key does not come back with an older or a rewritten manifest    *)
(* (activate_reload_candidate).                                            *)
RingMovesForward ==
    [][active'.keys # active.keys => active'.gen > active.gen]_vars

Other == [other |-> TRUE]
Queries == {<<Other, Other>>, <<EmptyAccess, Other>>}
             \cup UNION {{<<t>>, <<t, Other>>, <<t, EmptyAccess>>, <<t, t>>} : t \in Links}

(* A request is let through exactly when it carries one link, signed by a  *)
(* key in force, for this hostname, of a permitted lifetime, inside that   *)
(* lifetime widened by the skew, whatever u64 saturation does; and the     *)
(* link itself is not passed upstream (authorize_signed_access, verify).   *)
AccessExact ==
    \A q \in Queries, h \in Hostnames, now \in Times :
        LET found == {i \in 1..Len(q) : q[i] # Other}
            good(t) == /\ t.key \in active.keys /\ t.host = h
                       /\ t.expires - t.issued \in 1..MaxTtl
                       /\ now \in (t.issued - Skew)..(t.expires + Skew)
            a == Authorize(q, h, now)
        IN  /\ a.ok <=> \E i \in found : found = {i} /\ q[i] # EmptyAccess /\ good(q[i])
            /\ \A i \in 1..Len(a.retained) : a.retained[i] = Other

(* A link whose key is in every ring the operator ever declared is never   *)
(* refused inside its lifetime, whatever the state of the files or of a    *)
(* reload in progress: rotation with overlap does not interrupt access.    *)
OverlapServes ==
    \A t \in Links :
        (Signs(t) /\ t.expires - t.issued <= MaxTtl /\ \A m \in published : t.key \in m.digest)
            => \A now \in t.issued..t.expires : Authorize(<<t>>, t.host, now).ok

(* A newer generation whose files stay in place comes into force.          *)
NewRingActivates ==
    \A g \in 2..MaxGen :
        []<>(~(manifest.gen = g /\ manifest.digest = ring /\ RingValid(ring)
               /\ g > active.gen))
=============================================================================
