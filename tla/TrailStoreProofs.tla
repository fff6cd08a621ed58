-------------------------- MODULE TrailStoreProofs --------------------------
(***************************************************************************)
(* Theorems about TrailStore: what the hash chain, the anchor and the      *)
(* digests of an approval say of a trail, for every number of entries,     *)
(* keys and changes made outside.                                          *)
(*                                                                         *)
(* The argument is that two trails whose chains verify and which agree on  *)
(* the hash of one entry agree on everything up to it (ChainsAgree).  It   *)
(* is an induction along the chain, from the entry backwards, and is given *)
(* here as a last place where the trails differ.                           *)
(***************************************************************************)
EXTENDS TrailStore, SequenceTheorems, WellFoundedInduction, TLAPS

---------------------------------------------------------------------------
(* Sets of positions.                                                      *)

\* Numbers that are not none have a least one.
LEMMA LeastNumber ==
    ASSUME NEW S \in SUBSET Nat, S # {}
    PROVE  \E m \in S : \A k \in S : m <= k
<1> DEFINE R == {ss \in Nat \X Nat : ss[1] < ss[2]}
<1>1. IsWellFoundedOn(R, Nat)
    BY NatLessThanWellFounded DEF OpToRel
<1>2. PICK m \in S : \A k \in S : ~ (<<k, m>> \in R)
    <2> HIDE DEF R
    <2> QED
        BY <1>1, WFMin, Zenon
<1>3. ASSUME NEW k \in S PROVE m <= k
    <2>1. k \in Nat /\ m \in Nat
        OBVIOUS
    <2>2. k < m => <<k, m>> \in R
        BY <2>1
    <2> QED
        BY <2>1, <2>2, <1>2
<1> QED
    BY <1>3

\* Positions that are not none have a last one.
LEMMA LastPosition ==
    ASSUME NEW n \in Nat, NEW S \in SUBSET (1..n), S # {}
    PROVE  \E m \in S : \A k \in S : k <= m
<1> DEFINE T == {n - i : i \in S}
<1>1. T \subseteq Nat
    <2> SUFFICES ASSUME NEW i \in S PROVE n - i \in Nat
        OBVIOUS
    <2> i \in 1..n
        OBVIOUS
    <2> QED
        OBVIOUS
<1>2. T # {}
    OBVIOUS
<1> HIDE DEF T
<1>3. PICK d \in T : \A k \in T : d <= k
    BY <1>1, <1>2, LeastNumber
<1>4. PICK m \in S : d = n - m
    BY DEF T
<1>5. ASSUME NEW k \in S PROVE k <= m
    <2>1. n - k \in T /\ k \in 1..n /\ m \in 1..n
        BY DEF T
    <2>2. d <= n - k
        BY <1>3, <2>1
    <2> QED
        BY <1>4, <2>1, <2>2
<1> QED
    BY <1>5

---------------------------------------------------------------------------
(* Trails.                                                                 *)

\* An entry has the fields of an entry, and a trail is a sequence of entries.
IsEntry(e) ==
    e = [body |-> e.body, hash_alg |-> e.hash_alg, prev_hash |-> e.prev_hash,
         entry_hash |-> e.entry_hash]

IsTrail(t) ==
    /\ t \in Seq({t[i] : i \in DOMAIN t})
    /\ \A i \in DOMAIN t : IsEntry(t[i])

\* A sequence is what it has at each place.
LEMMA TrailFacts ==
    ASSUME NEW t, IsTrail(t)
    PROVE  /\ Len(t) \in Nat
           /\ DOMAIN t = 1..Len(t)
           /\ t = [i \in 1..Len(t) |-> t[i]]
    BY LenProperties DEF IsTrail

\* A sequence of entries is a trail.
LEMMA IsTrailIfEntries ==
    ASSUME NEW n \in Nat, NEW t, t = [i \in 1..n |-> t[i]], \A i \in 1..n : IsEntry(t[i])
    PROVE  IsTrail(t) /\ Len(t) = n
<1> DEFINE S == {t[i] : i \in DOMAIN t}
<1>1. DOMAIN t = 1..n
    OBVIOUS
<1>2. \A i \in 1..n : t[i] \in S
    BY <1>1
<1> HIDE DEF S
<1>3. t \in [1..n -> S]
    BY <1>2
<1>4. t \in Seq(S) /\ Len(t) = n
    BY <1>3
<1> QED
    BY <1>1, <1>4 DEF IsTrail, S

\* A prefix of a trail.
LEMMA PrefixOfTrail ==
    ASSUME NEW t, IsTrail(t), NEW n \in 0..Len(t)
    PROVE  /\ SubSeq(t, 1, n) = [i \in 1..n |-> t[i]]
           /\ IsTrail(SubSeq(t, 1, n))
           /\ Len(SubSeq(t, 1, n)) = n
           /\ \A i \in 1..n : SubSeq(t, 1, n)[i] = t[i]
<1> DEFINE S == {t[i] : i \in DOMAIN t}
           p == SubSeq(t, 1, n)
<1>1. t \in Seq(S) /\ Len(t) \in Nat /\ DOMAIN t = 1..Len(t)
    BY TrailFacts DEF IsTrail
<1> HIDE DEF S
<1>2. /\ p \in Seq(S) /\ Len(p) = n
      /\ \A i \in 1..n : p[i] = t[i]
    BY <1>1
<1>3. p = [i \in 1..n |-> p[i]]
    BY <1>2, LenProperties
<1>4. p = [i \in 1..n |-> t[i]]
    BY <1>2, <1>3
<1> HIDE DEF p
<1>5. \A i \in 1..n : IsEntry(p[i])
    BY <1>1, <1>2 DEF IsTrail
<1>6. IsTrail(p)
    <2>1. n \in Nat
        BY <1>1
    <2> QED
        BY <2>1, <1>3, <1>5, IsTrailIfEntries
<1> QED
    BY <1>2, <1>4, <1>6 DEF p

\* One entry more.
LEMMA OneMore ==
    ASSUME NEW t, IsTrail(t), NEW e, IsEntry(e)
    PROVE  /\ IsTrail(Append(t, e))
           /\ Len(Append(t, e)) = Len(t) + 1
           /\ Append(t, e)[Len(t) + 1] = e
           /\ \A i \in 1..Len(t) : Append(t, e)[i] = t[i]
<1> DEFINE S == {t[i] : i \in DOMAIN t}
           S2 == S \cup {e}
           p == Append(t, e)
           n == Len(t)
<1>1. t \in Seq(S) /\ n \in Nat /\ DOMAIN t = 1..n
    BY TrailFacts DEF IsTrail
<1> HIDE DEF S
<1>2. t \in Seq(S2) /\ e \in S2
    BY <1>1
<1> HIDE DEF S2
<1>3. /\ p \in Seq(S2) /\ Len(p) = n + 1
      /\ \A i \in 1..n : p[i] = t[i]
      /\ p[n + 1] = e
    BY <1>1, <1>2, AppendProperties
<1>4. p = [i \in 1..(n + 1) |-> p[i]]
    BY <1>3, LenProperties
<1> HIDE DEF p, n
<1>5. \A i \in 1..(n + 1) : IsEntry(p[i])
    BY <1>1, <1>3 DEF IsTrail
<1>6. IsTrail(p)
    BY <1>1, <1>4, <1>5, IsTrailIfEntries
<1> QED
    BY <1>1, <1>3, <1>6 DEF p, n

\* Two trails of one length with the same entries are one.
LEMMA SameTrail ==
    ASSUME NEW t, NEW u, IsTrail(t), IsTrail(u), Len(t) = Len(u),
           \A i \in 1..Len(t) : t[i] = u[i]
    PROVE  t = u
    BY TrailFacts

---------------------------------------------------------------------------
(* Chains.                                                                 *)

\* A trail with a chained entry has a first one.
LEMMA FirstIsFirst ==
    ASSUME NEW t, IsTrail(t), ChainedAt(t) # {}
    PROVE  /\ FirstChained(t) \in 1..Len(t)
           /\ IsChained(t[FirstChained(t)])
           /\ \A i \in 1..Len(t) : IsChained(t[i]) => FirstChained(t) <= i
<1>1. Len(t) \in Nat /\ DOMAIN t = 1..Len(t)
    BY TrailFacts
<1>2. ChainedAt(t) \in SUBSET Nat
    BY <1>1 DEF ChainedAt
<1>3. PICK m \in ChainedAt(t) : \A k \in ChainedAt(t) : m <= k
    BY <1>2, LeastNumber
<1>4. FirstChained(t) \in ChainedAt(t) /\ \A k \in ChainedAt(t) : FirstChained(t) <= k
    BY <1>3 DEF FirstChained
<1> QED
    BY <1>1, <1>4 DEF ChainedAt

\* What is left of the chain when nobody knows the key any more.
LinkedAt(t, i) ==
    /\ t[i].entry_hash # None
    /\ \E key \in Keys :
          /\ t[i].prev_hash = ExpectedPrev(t, i, key)
          /\ t[i].entry_hash = Digest(CanonicalEntry(t[i]), t[i].hash_alg, key)

\* Every entry from the first chained one on is.
Linked(t) ==
    /\ ChainedAt(t) # {}
    /\ \A i \in FirstChained(t)..Len(t) : LinkedAt(t, i)

\* A digest is of one value: SHA-256 is taken to have no collisions.
LEMMA DigestIsOfOneValue ==
    ASSUME NEW v, NEW w, NEW alg, NEW alg2, NEW key, NEW key2,
           Digest(v, alg, key) = Digest(w, alg2, key2)
    PROVE  v = w
<1>1. Digest(v, alg, key)[3] = v /\ Digest(w, alg2, key2)[3] = w
    BY DEF Digest
<1> QED
    BY <1>1

\* Equal digests are of equal entries: entry_hash covers every field but itself.
LEMMA HashIsOfOneEntry ==
    ASSUME NEW t, NEW u, IsTrail(t), IsTrail(u),
           NEW i \in 1..Len(t), NEW j \in 1..Len(u), LinkedAt(t, i), LinkedAt(u, j),
           t[i].entry_hash = u[j].entry_hash
    PROVE  t[i] = u[j]
<1>1. IsEntry(t[i]) /\ IsEntry(u[j])
    BY TrailFacts DEF IsTrail
<1>2. PICK k : t[i].entry_hash = Digest(CanonicalEntry(t[i]), t[i].hash_alg, k)
    BY DEF LinkedAt
<1>3. PICK l : u[j].entry_hash = Digest(CanonicalEntry(u[j]), u[j].hash_alg, l)
    BY DEF LinkedAt
<1>4. CanonicalEntry(t[i]) = CanonicalEntry(u[j])
    <2>1. Digest(CanonicalEntry(t[i]), t[i].hash_alg, k)
            = Digest(CanonicalEntry(u[j]), u[j].hash_alg, l)
        BY <1>2, <1>3
    <2> QED
        BY <2>1, DigestIsOfOneValue
<1>5. /\ t[i].body = u[j].body
      /\ t[i].hash_alg = u[j].hash_alg
      /\ t[i].prev_hash = u[j].prev_hash
    BY <1>4 DEF CanonicalEntry
<1> QED
    BY <1>1, <1>5 DEF IsEntry

\* The seal of the entries before the chain is no digest of an entry.
LEMMA SealIsNoEntryHash ==
    ASSUME NEW prefix, NEW alg, NEW key, NEW e, NEW alg2, NEW key2
    PROVE  LegacySeal(prefix, alg, key) # Digest(CanonicalEntry(e), alg2, key2)
<1>1. Genesis # Digest(CanonicalEntry(e), alg2, key2)
    BY DEF Genesis, Digest
<1>2. <<"entries", prefix>> # CanonicalEntry(e)
    BY DEF CanonicalEntry
<1>3. Digest(<<"entries", prefix>>, alg, key) # Digest(CanonicalEntry(e), alg2, key2)
    BY <1>2 DEF Digest
<1> QED
    BY <1>1, <1>3 DEF LegacySeal

\* Where two trails with the same entries from m + 1 to n differ at m, neither chain
\* begins after m: the first entry of a chain seals what comes before.
LEMMA ChainsReachBack ==
    ASSUME NEW t, NEW u, IsTrail(t), IsTrail(u), Linked(t), Linked(u),
           NEW n \in 1..Len(t), n <= Len(u), FirstChained(t) <= n, FirstChained(u) <= n,
           NEW m \in 1..n, t[m] # u[m], \A i \in 1..n : i > m => t[i] = u[i]
    PROVE  FirstChained(t) <= m
<1> DEFINE a == FirstChained(t)
           b == FirstChained(u)
<1>1. /\ Len(t) \in Nat /\ Len(u) \in Nat
      /\ a \in 1..n /\ b \in 1..n
      /\ IsChained(t[a]) /\ IsChained(u[b])
      /\ \A i \in 1..Len(t) : IsChained(t[i]) => a <= i
      /\ \A i \in 1..Len(u) : IsChained(u[i]) => b <= i
    BY TrailFacts, FirstIsFirst DEF Linked
<1>2. LinkedAt(t, a) /\ \A i \in b..n : LinkedAt(u, i)
    BY <1>1 DEF Linked
<1> HIDE DEF a, b
<1> SUFFICES ASSUME a > m PROVE FALSE
    BY <1>1 DEF a
<1>3. t[a] = u[a] /\ b <= a
    BY <1>1
<1>4. PICK k : t[a].prev_hash = LegacySeal(SubSeq(t, 1, a - 1), t[a].hash_alg, k)
    BY <1>2 DEF LinkedAt, ExpectedPrev, a
<1>5. CASE b = a
    <2>1. PICK l : u[a].prev_hash = LegacySeal(SubSeq(u, 1, a - 1), u[a].hash_alg, l)
        <3>1. LinkedAt(u, a)
            BY <1>1, <1>2, <1>5
        <3> QED
            BY <3>1, <1>5 DEF LinkedAt, ExpectedPrev, b
    <2>2. /\ a - 1 \in 0..Len(t) /\ a - 1 \in 0..Len(u) /\ m \in 1..(a - 1)
        BY <1>1
    <2>3. SubSeq(t, 1, a - 1)[m] = t[m] /\ SubSeq(u, 1, a - 1)[m] = u[m]
        BY <2>2, PrefixOfTrail
    <2>4. SubSeq(t, 1, a - 1) # <<>> /\ SubSeq(u, 1, a - 1) # <<>>
        <3>1. Len(SubSeq(t, 1, a - 1)) = a - 1 /\ Len(SubSeq(u, 1, a - 1)) = a - 1
            BY <2>2, PrefixOfTrail
        <3> QED
            BY <3>1, <2>2
    <2>5. SubSeq(t, 1, a - 1) = SubSeq(u, 1, a - 1)
        <3>1. /\ t[a].prev_hash = Digest(<<"entries", SubSeq(t, 1, a - 1)>>, t[a].hash_alg, k)
              /\ u[a].prev_hash = Digest(<<"entries", SubSeq(u, 1, a - 1)>>, u[a].hash_alg, l)
            BY <1>4, <2>1, <2>4 DEF LegacySeal
        <3>2. <<"entries", SubSeq(t, 1, a - 1)>> = <<"entries", SubSeq(u, 1, a - 1)>>
            <4>1. Digest(<<"entries", SubSeq(t, 1, a - 1)>>, t[a].hash_alg, k)
                    = Digest(<<"entries", SubSeq(u, 1, a - 1)>>, u[a].hash_alg, l)
                BY <1>3, <3>1
            <4> QED
                BY <4>1, DigestIsOfOneValue
        <3> QED
            BY <3>2
    <2> QED
        BY <2>3, <2>5
<1>6. CASE b # a
    <2>1. a - 1 \in b..n /\ a \in b..n /\ b < a
        BY <1>1, <1>3, <1>6
    <2>2. PICK l : u[a - 1].entry_hash = Digest(CanonicalEntry(u[a - 1]), u[a - 1].hash_alg, l)
        BY <2>1, <1>2 DEF LinkedAt
    <2>3. u[a].prev_hash = u[a - 1].entry_hash
        <3>1. LinkedAt(u, a) /\ a # FirstChained(u)
            BY <2>1, <1>2, <1>6 DEF b
        <3> QED
            BY <3>1 DEF LinkedAt, ExpectedPrev
    <2> QED
        BY <1>3, <1>4, <2>2, <2>3, SealIsNoEntryHash
<1> QED
    BY <1>5, <1>6

\* Two chains that agree on the hash of their n-th entry agree up to it.
LEMMA ChainsAgree ==
    ASSUME NEW t, NEW u, IsTrail(t), IsTrail(u), Linked(t), Linked(u),
           NEW n \in 1..Len(t), n <= Len(u), FirstChained(t) <= n, FirstChained(u) <= n,
           t[n].entry_hash = u[n].entry_hash
    PROVE  \A i \in 1..n : t[i] = u[i]
<1> DEFINE D == {i \in 1..n : t[i] # u[i]}
<1> SUFFICES ASSUME D # {} PROVE FALSE
    OBVIOUS
<1>1. /\ Len(t) \in Nat /\ Len(u) \in Nat /\ n \in Nat
      /\ FirstChained(t) \in Nat /\ FirstChained(u) \in Nat
    BY TrailFacts, FirstIsFirst DEF Linked
<1>2. PICK m \in D : \A k \in D : k <= m
    BY <1>1, LastPosition
<1>3. m \in 1..n /\ t[m] # u[m] /\ \A i \in 1..n : i > m => t[i] = u[i]
    BY <1>2
<1>4. FirstChained(t) <= m
    BY <1>1, <1>3, ChainsReachBack
<1>5. FirstChained(u) <= m
    <2>1. n \in 1..Len(u) /\ n <= Len(t)
        BY <1>1
    <2>2. u[m] # t[m] /\ \A i \in 1..n : i > m => u[i] = t[i]
        BY <1>3
    <2> QED
        BY <1>1, <1>3, <2>1, <2>2, ChainsReachBack
<1>6. LinkedAt(t, m) /\ LinkedAt(u, m)
    BY <1>1, <1>3, <1>4, <1>5 DEF Linked
<1>7. t[m].entry_hash = u[m].entry_hash
    <2>1. CASE m = n
        BY <2>1
    <2>2. CASE m < n
        <3>1. t[m + 1] = u[m + 1]
            BY <2>2, <1>1, <1>3
        <3>2. LinkedAt(t, m + 1) /\ LinkedAt(u, m + 1)
            BY <2>2, <1>1, <1>3, <1>4, <1>5 DEF Linked
        <3>3. m + 1 # FirstChained(t) /\ m + 1 # FirstChained(u) /\ (m + 1) - 1 = m
            BY <1>1, <1>3, <1>4, <1>5
        <3>4. t[m + 1].prev_hash = t[m].entry_hash /\ u[m + 1].prev_hash = u[m].entry_hash
            BY <3>2, <3>3 DEF LinkedAt, ExpectedPrev
        <3> QED
            BY <3>1, <3>4
    <2> QED
        BY <2>1, <2>2, <1>1, <1>3
<1>8. m \in 1..Len(t) /\ m \in 1..Len(u)
    BY <1>1, <1>3
<1> QED
    BY <1>3, <1>6, <1>7, <1>8, HashIsOfOneEntry

---------------------------------------------------------------------------
(* What verify_trail says.                                                 *)

\* A chain that verifies is linked.
LEMMA VerifiedIsLinked ==
    ASSUME NEW t, IsTrail(t), ChainedAt(t) # {}, NEW key \in Keys
    PROVE  /\ ChainVerdict(t, key) \in {"ok", "broken", "key_unavailable"}
           /\ ChainVerdict(t, key) = "ok" => Linked(t)
<1> DEFINE bad == {i \in FirstChained(t)..Len(t) : EntryVerdict(t, i, key) # "ok"}
<1>1. FirstChained(t) \in 1..Len(t) /\ Len(t) \in Nat
    BY FirstIsFirst, TrailFacts
<1>2. \A i : EntryVerdict(t, i, key) \in {"ok", "broken", "key_unavailable"}
    BY DEF EntryVerdict
<1>3. CASE bad = {}
    <2>1. ChainVerdict(t, key) = "ok"
        BY <1>3 DEF ChainVerdict
    <2>2. ASSUME NEW i \in FirstChained(t)..Len(t) PROVE LinkedAt(t, i)
        <3>1. EntryVerdict(t, i, key) = "ok"
            BY <1>3
        <3>2. /\ t[i].entry_hash # None
              /\ t[i].prev_hash = ExpectedPrev(t, i, key)
              /\ t[i].entry_hash = Digest(CanonicalEntry(t[i]), t[i].hash_alg, key)
            BY <3>1 DEF EntryVerdict
        <3> QED
            BY <3>2 DEF LinkedAt
    <2> QED
        BY <2>1, <2>2 DEF Linked
<1>4. CASE bad # {}
    <2>1. bad \in SUBSET Nat
        BY <1>1
    <2>2. PICK m \in bad : \A k \in bad : m <= k
        BY <1>4, <2>1, LeastNumber
    <2>3. PICK m2 \in bad : m2 = CHOOSE i \in bad : \A j \in bad : i <= j
        BY <2>2
    <2>4. ChainVerdict(t, key) = EntryVerdict(t, m2, key)
        BY <1>4, <2>3 DEF ChainVerdict
    <2>5. EntryVerdict(t, m2, key) # "ok"
        BY <2>3
    <2> QED
        BY <2>4, <2>5, <1>2
<1> QED
    BY <1>3, <1>4

\* The first problem of five checks.
LEMMA FirstOfFive ==
    ASSUME NEW a, NEW b, NEW c, NEW d, NEW e
    PROVE  LET first == FirstProblem(<<a, b, c, d, e>>)
           IN  /\ first \in {"ok", a, b, c, d, e}
               /\ a # "ok" => first = a
               /\ a = "ok" /\ b # "ok" => first = b
               /\ first = "ok" => a = "ok" /\ b = "ok" /\ c = "ok" /\ d = "ok" /\ e = "ok"
<1> DEFINE v == <<a, b, c, d, e>>
           problems == {i \in DOMAIN v : v[i] # "ok"}
           least == CHOOSE i \in problems : \A j \in problems : i <= j
<1>1. DOMAIN v = 1..5 /\ v[1] = a /\ v[2] = b /\ v[3] = c /\ v[4] = d /\ v[5] = e
    OBVIOUS
<1>2. FirstProblem(v) = IF problems = {} THEN "ok" ELSE v[least]
    BY DEF FirstProblem
<1> HIDE DEF v
<1>3. ASSUME problems # {} PROVE least \in problems /\ \A j \in problems : least <= j
    <2>1. problems \in SUBSET Nat
        BY <1>1
    <2> HIDE DEF problems
    <2>2. \E m \in problems : \A k \in problems : m <= k
        BY <1>3, <2>1, LeastNumber
    <2> QED
        BY <2>2
<1> HIDE DEF least
<1>4. CASE problems = {}
    <2>1. a = "ok" /\ b = "ok" /\ c = "ok" /\ d = "ok" /\ e = "ok"
        BY <1>1, <1>4
    <2> QED
        BY <1>2, <1>4, <2>1 DEF v
<1>5. CASE problems # {}
    <2>1. least \in 1..5 /\ v[least] # "ok" /\ FirstProblem(v) = v[least]
        BY <1>1, <1>2, <1>3, <1>5
    <2>2. a # "ok" => least = 1
        BY <1>1, <1>3, <1>5, <2>1
    <2>3. a = "ok" /\ b # "ok" => least = 2
        BY <1>1, <1>3, <1>5, <2>1
    <2>4. v[least] \in {a, b, c, d, e}
        BY <1>1, <2>1
    <2> QED
        BY <1>1, <2>1, <2>2, <2>3, <2>4 DEF v
<1> QED
    BY <1>4, <1>5

\* A verdict that finds nothing wrong with chain and anchor.
LEMMA ChainAndAnchorHold ==
    ASSUME NEW t, IsTrail(t), NEW anc, anc.count > 0, NEW arts, NEW decs, NEW key \in Keys,
           VerifyTrail(t, anc, arts, decs, key)
                \in {"ok", "unkeyed", "artifact_changed", "decision_changed"}
    PROVE  /\ Linked(t)
           /\ AnchorVerdict(t, anc) = "ok"
           /\ VerifyTrail(t, anc, arts, decs, key) = "ok" =>
                ArtifactVerdict(t, arts, decs) = "ok" /\ DecisionVerdict(t, decs) = "ok"
<1>1. ChainedAt(t) # {}
    BY DEF VerifyTrail, UnchainedVerdict
<1> DEFINE a == ChainVerdict(t, key)
           b == AnchorVerdict(t, anc)
           c == KeyVerdict(t, key)
           d == ArtifactVerdict(t, arts, decs)
           e == DecisionVerdict(t, decs)
<1>2. VerifyTrail(t, anc, arts, decs, key) = FirstProblem(<<a, b, c, d, e>>)
    BY <1>1 DEF VerifyTrail
<1>3. a \in {"ok", "broken", "key_unavailable"} /\ (a = "ok" => Linked(t))
    BY <1>1, VerifiedIsLinked
<1>4. b \in {"ok", "truncated", "anchor_mismatch"}
    BY DEF AnchorVerdict
<1> HIDE DEF a, b, c, d, e
<1>5. /\ a # "ok" => VerifyTrail(t, anc, arts, decs, key) = a
      /\ a = "ok" /\ b # "ok" => VerifyTrail(t, anc, arts, decs, key) = b
      /\ VerifyTrail(t, anc, arts, decs, key) = "ok" => d = "ok" /\ e = "ok"
    BY <1>2, FirstOfFive
<1> QED
    BY <1>3, <1>4, <1>5 DEF b, d, e

---------------------------------------------------------------------------
(* Trails that are written, and trails that are edited.                    *)

\* A trail whose approvals have sealed their decisions, and that has one at most.
IsAuditTrail(t) ==
    /\ IsTrail(t)
    /\ \A i \in DOMAIN t : t[i].body.action = "gate_approval" => t[i].body.sealed # {}
    /\ \A i, j \in Positions(t, "gate_approval", 1) : i = j

\* A trail made of entries of another, each used once at most, is no less one, whatever
\* is done to the hashes, and with notes in the place of some.
LEMMA MadeOfEntries ==
    ASSUME NEW t, IsAuditTrail(t), NEW u, IsTrail(u),
           NEW source \in [1..Len(u) -> 1..Len(t)],
           \A i, j \in 1..Len(u) : source[i] = source[j] => i = j,
           \A i \in 1..Len(u) : u[i].body \in {Note, t[source[i]].body}
    PROVE  IsAuditTrail(u)
<1>1. DOMAIN u = 1..Len(u) /\ DOMAIN t = 1..Len(t) /\ IsTrail(t)
    BY TrailFacts DEF IsAuditTrail
<1>2. ASSUME NEW i \in 1..Len(u), u[i].body.action = "gate_approval"
      PROVE  u[i].body = t[source[i]].body
    BY <1>2 DEF Note
<1>3. ASSUME NEW i \in 1..Len(u), u[i].body.action = "gate_approval"
      PROVE  u[i].body.sealed # {}
    BY <1>1, <1>2, <1>3 DEF IsAuditTrail
<1>4. ASSUME NEW i \in Positions(u, "gate_approval", 1),
             NEW j \in Positions(u, "gate_approval", 1)
      PROVE  i = j
    <2>1. i \in 1..Len(u) /\ j \in 1..Len(u)
        BY <1>1, <1>4 DEF Positions
    <2>2. /\ source[i] \in Positions(t, "gate_approval", 1)
          /\ source[j] \in Positions(t, "gate_approval", 1)
        BY <1>1, <1>2, <1>4, <2>1 DEF Positions
    <2> QED
        BY <2>1, <2>2 DEF IsAuditTrail
<1> QED
    BY <1>1, <1>3, <1>4 DEF IsAuditTrail

\* The trail is cut.
LEMMA CutTrail ==
    ASSUME NEW t, IsAuditTrail(t), NEW n \in 0..Len(t)
    PROVE  IsAuditTrail(SubSeq(t, 1, n))
<1> DEFINE u == SubSeq(t, 1, n)
           source == [i \in 1..n |-> i]
<1>1. IsTrail(t) /\ Len(t) \in Nat
    BY TrailFacts DEF IsAuditTrail
<1>2. IsTrail(u) /\ Len(u) = n /\ \A i \in 1..n : u[i] = t[i]
    BY <1>1, PrefixOfTrail
<1>3. source \in [1..n -> 1..Len(t)] /\ \A i \in 1..n : source[i] = i
    BY <1>1
<1> HIDE DEF u, source
<1>4. /\ source \in [1..Len(u) -> 1..Len(t)]
      /\ \A i, j \in 1..Len(u) : source[i] = source[j] => i = j
      /\ \A i \in 1..Len(u) : u[i].body \in {Note, t[source[i]].body}
    BY <1>2, <1>3
<1>5. IsAuditTrail(u)
    BY <1>2, <1>4, MadeOfEntries
<1> QED
    BY <1>5 DEF u

\* An entry is taken out.
LEMMA EntryTakenOut ==
    ASSUME NEW t, IsAuditTrail(t), NEW k \in DOMAIN t
    PROVE  IsAuditTrail(SubSeq(t, 1, k - 1) \o SubSeq(t, k + 1, Len(t)))
<1> DEFINE S == {t[i] : i \in DOMAIN t}
           n == Len(t) - 1
           u == SubSeq(t, 1, k - 1) \o SubSeq(t, k + 1, Len(t))
           source == [i \in 1..n |-> IF i < k THEN i ELSE i + 1]
<1>1. IsTrail(t) /\ Len(t) \in Nat /\ DOMAIN t = 1..Len(t) /\ t \in Seq(S)
    BY TrailFacts DEF IsAuditTrail, IsTrail
<1>2. n \in Nat /\ source \in [1..n -> 1..Len(t)]
    BY <1>1
<1>3. \A i, j \in 1..n : source[i] = source[j] => i = j
    BY <1>1
<1> HIDE DEF S
<1>4. u \in Seq(S) /\ Len(u) = n
    BY <1>1
<1>5. ASSUME NEW i \in 1..n PROVE u[i] = t[source[i]]
    <2> DEFINE p == SubSeq(t, 1, k - 1)
               q == SubSeq(t, k + 1, Len(t))
    <2>1. p \in Seq(S) /\ Len(p) = k - 1 /\ \A j \in 1..(k - 1) : p[j] = t[j]
        BY <1>1
    <2>2. q \in Seq(S) /\ Len(q) = Len(t) - k /\ \A j \in 1..(Len(t) - k) : q[j] = t[k + j]
        BY <1>1
    <2> HIDE DEF p, q
    <2>3. CASE i < k
        <3>1. i \in 1..Len(p) /\ (p \o q)[i] = p[i]
            BY <1>1, <2>1, <2>2, <2>3
        <3> QED
            BY <1>1, <2>1, <2>3, <3>1 DEF p, q
    <2>4. CASE i >= k
        <3>1. i - (k - 1) \in 1..Len(q) /\ (p \o q)[i] = q[i - (k - 1)]
            BY <1>1, <2>1, <2>2, <2>4
        <3>2. q[i - (k - 1)] = t[k + (i - (k - 1))] /\ k + (i - (k - 1)) = i + 1
            BY <1>1, <2>1, <2>2, <2>4, <3>1
        <3>3. source[i] = i + 1
            BY <1>1, <2>4
        <3> QED
            BY <3>1, <3>2, <3>3 DEF p, q
    <2>5. i < k \/ i >= k
        BY <1>1
    <2> QED
        BY <2>3, <2>4, <2>5
<1>6. u = [i \in 1..n |-> u[i]]
    BY <1>4, LenProperties
<1> HIDE DEF u, source, n
<1>7. \A i \in 1..n : IsEntry(u[i])
    BY <1>1, <1>2, <1>5 DEF IsTrail
<1>8. IsTrail(u)
    BY <1>2, <1>6, <1>7, IsTrailIfEntries
<1>9. IsAuditTrail(u)
    <2>1. /\ source \in [1..Len(u) -> 1..Len(t)]
          /\ \A i, j \in 1..Len(u) : source[i] = source[j] => i = j
          /\ \A i \in 1..Len(u) : u[i].body \in {Note, t[source[i]].body}
        BY <1>2, <1>3, <1>4, <1>5
    <2> QED
        BY <1>8, <2>1, MadeOfEntries
<1> QED
    BY <1>9 DEF u

\* Two entries change places.
LEMMA EntriesSwapped ==
    ASSUME NEW t, IsAuditTrail(t), NEW k \in DOMAIN t, NEW l \in DOMAIN t
    PROVE  IsAuditTrail([t EXCEPT ![k] = t[l], ![l] = t[k]])
<1> DEFINE u == [t EXCEPT ![k] = t[l], ![l] = t[k]]
           source == [i \in 1..Len(t) |-> IF i = l THEN k ELSE IF i = k THEN l ELSE i]
<1>1. IsTrail(t) /\ Len(t) \in Nat /\ DOMAIN t = 1..Len(t)
    BY TrailFacts DEF IsAuditTrail
<1>2. \A i \in 1..Len(t) : u[i] = t[source[i]]
    BY <1>1
<1>3. u = [i \in 1..Len(t) |-> u[i]]
    BY <1>1
<1>4. /\ source \in [1..Len(t) -> 1..Len(t)]
      /\ \A i, j \in 1..Len(t) : source[i] = source[j] => i = j
    BY <1>1
<1> HIDE DEF u, source
<1>5. \A i \in 1..Len(t) : IsEntry(u[i])
    BY <1>1, <1>2, <1>4 DEF IsTrail
<1>6. IsTrail(u) /\ Len(u) = Len(t)
    BY <1>1, <1>3, <1>5, IsTrailIfEntries
<1>7. IsAuditTrail(u)
    <2>1. /\ source \in [1..Len(u) -> 1..Len(t)]
          /\ \A i, j \in 1..Len(u) : source[i] = source[j] => i = j
          /\ \A i \in 1..Len(u) : u[i].body \in {Note, t[source[i]].body}
        BY <1>2, <1>4, <1>6
    <2> QED
        BY <1>6, <2>1, MadeOfEntries
<1> QED
    BY <1>7 DEF u

\* Entries keep their places, and lose their contents or their hashes.
LEMMA EntriesRewritten ==
    ASSUME NEW t, IsAuditTrail(t), NEW u, u = [i \in 1..Len(t) |-> u[i]],
           \A i \in 1..Len(t) : IsEntry(u[i]) /\ u[i].body \in {Note, t[i].body}
    PROVE  IsAuditTrail(u)
<1> DEFINE source == [i \in 1..Len(t) |-> i]
<1>1. IsTrail(t) /\ Len(t) \in Nat
    BY TrailFacts DEF IsAuditTrail
<1>2. IsTrail(u) /\ Len(u) = Len(t)
    BY <1>1, IsTrailIfEntries
<1>3. /\ source \in [1..Len(t) -> 1..Len(t)]
      /\ \A i \in 1..Len(t) : source[i] = i
    OBVIOUS
<1> HIDE DEF source
<1>4. /\ source \in [1..Len(u) -> 1..Len(t)]
      /\ \A i, j \in 1..Len(u) : source[i] = source[j] => i = j
      /\ \A i \in 1..Len(u) : u[i].body \in {Note, t[source[i]].body}
    BY <1>2, <1>3
<1> QED
    BY <1>2, <1>4, MadeOfEntries

\* An entry that is appended.
LEMMA EntryAppended ==
    ASSUME NEW t, IsTrail(t), NEW body, NEW key
    PROVE  /\ IsTrail(AppendEntry(t, body, key))
           /\ Len(AppendEntry(t, body, key)) = Len(t) + 1
           /\ \A i \in 1..Len(t) : AppendEntry(t, body, key)[i] = t[i]
           /\ AppendEntry(t, body, key)[Len(t) + 1].body = body
<1>1. PICK prev : AppendEntry(t, body, key) = Append(t, Sealed(body, prev, key))
    BY DEF AppendEntry
<1>2. IsEntry(Sealed(body, prev, key))
    BY DEF IsEntry, Sealed
<1>3. Sealed(body, prev, key).body = body
    BY DEF Sealed
<1> QED
    BY <1>1, <1>2, <1>3, OneMore

\* The chain that is computed anew has the bodies it is given.
LEMMA RechainedTrail ==
    ASSUME NEW n \in Nat, NEW bodies, Len(bodies) = n
    PROVE  /\ IsTrail(Rechained(bodies))
           /\ Len(Rechained(bodies)) = n
           /\ \A i \in 1..n : Rechained(bodies)[i].body = bodies[i]
<1> DEFINE IsChain(c, m) ==
               c = [k \in 0..m |-> IF k = 0 THEN <<>>
                                   ELSE AppendEntry(c[k - 1], bodies[k], NoKey)]
           none == {m \in 0..n : ~ \E c : IsChain(c, m)}
<1>1. none = {}
    <2> SUFFICES ASSUME none # {} PROVE FALSE
        OBVIOUS
    <2>1. PICK m \in none : \A k \in none : m <= k
        <3>1. none \in SUBSET Nat
            OBVIOUS
        <3> QED
            BY <3>1, LeastNumber
    <2>2. CASE m = 0
        <3>1. IsChain([k \in 0..0 |-> <<>>], 0)
            OBVIOUS
        <3> QED
            BY <2>1, <2>2, <3>1
    <2>3. CASE m # 0
        <3>0. m \in 0..n /\ m - 1 \in 0..n
            BY <2>1, <2>3
        <3>1. m \in Nat /\ m - 1 \in 0..n /\ m - 1 \notin none
            <4> HIDE DEF none
            <4> QED
                BY <3>0, <2>1
        <3>2. PICK c : IsChain(c, m - 1)
            BY <3>1
        <3> DEFINE d == [k \in 0..m |-> IF k = m THEN AppendEntry(c[m - 1], bodies[m], NoKey)
                                                 ELSE c[k]]
        <3>3. ASSUME NEW k \in 0..m
              PROVE  d[k] = IF k = 0 THEN <<>> ELSE AppendEntry(d[k - 1], bodies[k], NoKey)
            <4>1. CASE k = m
                BY <4>1, <3>1, <2>3
            <4>2. CASE k # m
                <5>1. k \in 0..(m - 1) /\ (k # 0 => k - 1 \in 0..m /\ k - 1 # m)
                    BY <4>2, <3>1
                <5>2. d[k] = c[k] /\ (k # 0 => d[k - 1] = c[k - 1])
                    BY <4>2, <5>1
                <5> HIDE DEF d
                <5> QED
                    BY <5>1, <5>2, <3>2
            <4> QED
                BY <4>1, <4>2
        <3>4. IsChain(d, m)
            BY <3>3
        <3> QED
            BY <2>1, <3>4
    <2> QED
        BY <2>2, <2>3
<1>2. PICK c : IsChain(c, n) /\ Rechained(bodies) = c[n]
    <2>1. \E c : IsChain(c, n)
        BY <1>1
    <2> QED
        BY <2>1 DEF Rechained
<1> DEFINE Fits(m) == /\ IsTrail(c[m])
                      /\ Len(c[m]) = m
                      /\ \A i \in 1..m : c[m][i].body = bodies[i]
           bad == {m \in 0..n : ~ Fits(m)}
<1>3. bad = {}
    <2> SUFFICES ASSUME bad # {} PROVE FALSE
        OBVIOUS
    <2>1. PICK m \in bad : \A k \in bad : m <= k
        <3>1. bad \in SUBSET Nat
            OBVIOUS
        <3> QED
            BY <3>1, LeastNumber
    <2>2. CASE m = 0
        <3>1. c[m] = <<>>
            BY <1>2, <2>2
        <3>2. IsTrail(<<>>) /\ Len(<<>>) = 0
            <4>1. DOMAIN <<>> = {} /\ Len(<<>>) = 0
                OBVIOUS
            <4> DEFINE S == {<<>>[i] : i \in DOMAIN <<>>}
            <4>2. <<>> \in Seq(S)
                <5> HIDE DEF S
                <5> QED
                    OBVIOUS
            <4> QED
                BY <4>1, <4>2 DEF IsTrail
        <3> QED
            BY <2>1, <2>2, <3>1, <3>2
    <2>3. CASE m # 0
        <3>1. m \in Nat /\ m \in 1..n /\ m - 1 \in 0..n /\ m - 1 \notin bad
            BY <2>1, <2>3
        <3>2. Fits(m - 1)
            BY <3>1
        <3>3. c[m] = AppendEntry(c[m - 1], bodies[m], NoKey)
            BY <1>2, <3>1
        <3>4. /\ IsTrail(c[m]) /\ Len(c[m]) = m
              /\ \A i \in 1..(m - 1) : c[m][i] = c[m - 1][i]
              /\ c[m][m].body = bodies[m]
            <4>1. PICK t : t = c[m - 1]
                OBVIOUS
            <4>2. IsTrail(t) /\ Len(t) = m - 1
                BY <3>2, <4>1
            <4>3. c[m] = AppendEntry(t, bodies[m], NoKey)
                BY <3>3, <4>1
            <4>5. /\ IsTrail(c[m]) /\ Len(c[m]) = Len(t) + 1
                  /\ \A i \in 1..Len(t) : c[m][i] = t[i]
                  /\ c[m][Len(t) + 1].body = bodies[m]
                BY <4>2, <4>3, EntryAppended
            <4>6. Len(t) + 1 = m
                BY <3>1, <4>2
            <4> QED
                BY <4>1, <4>2, <4>5, <4>6
        <3>5. \A i \in 1..m : c[m][i].body = bodies[i]
            BY <3>1, <3>2, <3>4
        <3> QED
            BY <2>1, <3>4, <3>5
    <2> QED
        BY <2>2, <2>3
<1>4. Fits(n)
    BY <1>3
<1> QED
    BY <1>2, <1>4

---------------------------------------------------------------------------
(* What is kept, whatever is done outside.                                 *)

\* What the flow keeps in memory, and what its record in the sessions file holds.
IsSnapshot(f) ==
    /\ f = [trail |-> f.trail, artifact |-> f.artifact, decisions |-> f.decisions]
    /\ IsAuditTrail(f.trail)

\* The anchor is the head of the trail it was taken from, and that trail's chain has
\* verified: save_trail_anchor follows no other.
ChainInv ==
    /\ IsSnapshot(flow) /\ IsSnapshot(disk)
    /\ trail_key \in Keys
    /\ unanchored # None => IsAuditTrail(unanchored)
    /\ IsAuditTrail(anchored)
    /\ anchor = Anchored(anchored)
    /\ anchored # <<>> => Linked(anchored) /\ HeadHash(anchored) # None

\* A trail without entries.
LEMMA EmptyTrail ==
    /\ IsTrail(<<>>) /\ Len(<<>>) = 0 /\ DOMAIN <<>> = {}
    /\ IsAuditTrail(<<>>)
<1>1. DOMAIN <<>> = {} /\ Len(<<>>) = 0
    OBVIOUS
<1>2. IsTrail(<<>>)
    <2> DEFINE S == {<<>>[i] : i \in DOMAIN <<>>}
    <2>1. <<>> \in Seq(S)
        <3> HIDE DEF S
        <3> QED
            OBVIOUS
    <2> QED
        BY <1>1, <2>1 DEF IsTrail
<1> QED
    BY <1>1, <1>2 DEF IsAuditTrail, Positions

\* One entry more, and not a second approval.
LEMMA StampedTrail ==
    ASSUME NEW t, IsAuditTrail(t), NEW body, NEW key,
           body.action = "gate_approval" => ~ IsApproved(t) /\ body.sealed # {}
    PROVE  IsAuditTrail(AppendEntry(t, body, key))
<1> DEFINE u == AppendEntry(t, body, key)
           n == Len(t)
<1>1. IsTrail(t) /\ n \in Nat /\ DOMAIN t = 1..n
    BY TrailFacts DEF IsAuditTrail
<1>2. /\ IsTrail(u) /\ Len(u) = n + 1
      /\ \A i \in 1..n : u[i] = t[i]
      /\ u[n + 1].body = body
    BY <1>1, EntryAppended
<1>3. DOMAIN u = 1..(n + 1)
    BY <1>2, TrailFacts
<1> HIDE DEF u, n
<1>4. ASSUME NEW i \in DOMAIN u, u[i].body.action = "gate_approval"
      PROVE  u[i].body.sealed # {}
    BY <1>1, <1>2, <1>3, <1>4 DEF IsAuditTrail
<1>5. ASSUME NEW i \in Positions(u, "gate_approval", 1),
             NEW j \in Positions(u, "gate_approval", 1)
      PROVE  i = j
    <2>1. i \in 1..(n + 1) /\ j \in 1..(n + 1)
        BY <1>3 DEF Positions
    <2>2. \A k \in 1..n : k \in Positions(u, "gate_approval", 1)
                            => k \in Positions(t, "gate_approval", 1)
        BY <1>1, <1>2 DEF Positions
    <2>3. n + 1 \in Positions(u, "gate_approval", 1) => Positions(t, "gate_approval", 1) = {}
        BY <1>2 DEF Positions, IsApproved
    <2>4. i \in 1..n /\ j \in 1..n => i = j
        BY <2>2 DEF IsAuditTrail
    <2> QED
        BY <1>1, <2>1, <2>2, <2>3, <2>4
<1> QED
    BY <1>2, <1>4, <1>5 DEF IsAuditTrail, u

\* What is done outside leaves a trail a trail, with no approval that was not there.
LEMMA EditedTrailIsTrail ==
    ASSUME NEW t, IsAuditTrail(t), NEW u \in EditedTrails(t)
    PROVE  IsAuditTrail(u)
<1>1. Len(t) \in Nat /\ DOMAIN t = 1..Len(t) /\ t = [i \in 1..Len(t) |-> t[i]]
      /\ \A i \in 1..Len(t) : IsEntry(t[i])
    BY TrailFacts DEF IsAuditTrail, IsTrail
<1>2. CASE \E n \in 0..Len(t) : u = CutOff(t, n)
    BY <1>2, CutTrail DEF CutOff
<1>3. CASE \E i \in DOMAIN t : u = TakenOut(t, i)
    BY <1>3, EntryTakenOut DEF TakenOut
<1>4. CASE \E i, j \in DOMAIN t : u = Swapped(t, i, j)
    <2>1. PICK i \in DOMAIN t, j \in DOMAIN t : u = Swapped(t, i, j)
        BY <1>4
    <2>2. IsAuditTrail(Swapped(t, i, j))
        BY EntriesSwapped DEF Swapped
    <2> QED
        BY <2>1, <2>2
<1>5. CASE \E k \in DOMAIN t : u = Rewritten(t, k)
    <2>1. PICK k \in 1..Len(t) : u = [t EXCEPT ![k].body = Note]
        BY <1>1, <1>5 DEF Rewritten
    <2>2. u = [i \in 1..Len(t) |-> u[i]]
        BY <1>1, <2>1
    <2>3. ASSUME NEW i \in 1..Len(t) PROVE IsEntry(u[i]) /\ u[i].body \in {Note, t[i].body}
        <3>1. CASE i = k
            <4>1. u[i] = [t[i] EXCEPT !.body = Note] /\ IsEntry(t[i])
                BY <1>1, <2>1, <3>1
            <4> QED
                BY <4>1 DEF IsEntry
        <3>2. CASE i # k
            <4>1. u[i] = t[i] /\ IsEntry(t[i])
                BY <1>1, <2>1, <3>2
            <4> QED
                BY <4>1
        <3> QED
            BY <3>1, <3>2
    <2> QED
        BY <2>2, <2>3, EntriesRewritten
<1>6. CASE u = HashesRemoved(t)
    <2>1. u = [i \in 1..Len(t) |-> u[i]]
        BY <1>1, <1>6 DEF HashesRemoved
    <2>2. \A i \in 1..Len(t) : u[i] = Unchained(t[i].body)
        BY <1>1, <1>6 DEF HashesRemoved
    <2>3. ASSUME NEW i \in 1..Len(t) PROVE IsEntry(u[i]) /\ u[i].body \in {Note, t[i].body}
        <3>1. PICK b : b = t[i].body
            OBVIOUS
        <3>2. IsEntry(Unchained(b)) /\ Unchained(b).body = b
            BY DEF Unchained, IsEntry
        <3> QED
            BY <2>2, <3>1, <3>2
    <2> QED
        BY <2>1, <2>3, EntriesRewritten
<1>7. CASE \E k \in DOMAIN t : u = HashesRedone(t, k)
    <2>1. PICK k \in 1..Len(t) : u = Rechained([Bodies(t) EXCEPT ![k] = Note])
        BY <1>1, <1>7 DEF HashesRedone
    <2>2. PICK b : b = [Bodies(t) EXCEPT ![k] = Note]
        OBVIOUS
    <2>3. b = [i \in 1..Len(t) |-> IF i = k THEN Note ELSE t[i].body]
        BY <1>1, <2>2 DEF Bodies
    <2>4. Len(b) = Len(t) /\ \A i \in 1..Len(t) : b[i] \in {Note, t[i].body}
        <3> DEFINE S == {b[i] : i \in 1..Len(t)}
        <3>1. b \in [1..Len(t) -> S]
            BY <2>3
        <3>2. Len(b) = Len(t)
            <4> HIDE DEF S
            <4> QED
                BY <3>1, <1>1
        <3> QED
            BY <2>3, <3>2
    <2>5. IsTrail(u) /\ Len(u) = Len(t) /\ \A i \in 1..Len(t) : u[i].body = b[i]
        <3>1. u = Rechained(b) /\ Len(b) = Len(t) /\ Len(t) \in Nat
            BY <1>1, <2>1, <2>2, <2>4
        <3> QED
            BY <3>1, RechainedTrail
    <2>6. u = [i \in 1..Len(t) |-> u[i]] /\ \A i \in 1..Len(t) : IsEntry(u[i])
        BY <2>5, TrailFacts DEF IsTrail
    <2> QED
        BY <2>4, <2>5, <2>6, EntriesRewritten
<1> QED
    BY <1>2, <1>3, <1>4, <1>5, <1>6, <1>7 DEF EditedTrails

\* What is done outside to the record of a session leaves it a record with such a trail.
LEMMA EditedSnapshotIsSnapshot ==
    ASSUME NEW f, IsSnapshot(f), NEW g \in EditedSnapshots(f)
    PROVE  IsSnapshot(g)
<1>1. CASE \E t \in EditedTrails(f.trail) : g = [f EXCEPT !.trail = t]
    BY <1>1, EditedTrailIsTrail DEF IsSnapshot
<1>2. CASE g = [f EXCEPT !.artifact = Altered]
    BY <1>2 DEF IsSnapshot
<1>3. CASE \E n \in 0..Len(f.decisions) : g = [f EXCEPT !.decisions = SubSeq(@, 1, n)]
    BY <1>3 DEF IsSnapshot
<1>4. CASE \E i \in DOMAIN f.decisions : g = [f EXCEPT !.decisions[i] = Altered]
    BY <1>4 DEF IsSnapshot
<1> QED
    BY <1>1, <1>2, <1>3, <1>4 DEF EditedSnapshots

\* An audit begins without an anchor.
LEMMA ChainInit == ASSUME TrailStoreInit PROVE ChainInv
<1> DEFINE e == Unchained(Note)
<1>1. IsEntry(e) /\ e.body.action = "note"
    BY DEF Unchained, Note, IsEntry
<1>2. IsAuditTrail(<<e>>)
    <2>1. <<e>> = [i \in 1..1 |-> <<e>>[i]] /\ <<e>>[1] = e /\ DOMAIN <<e>> = 1..1
        OBVIOUS
    <2> HIDE DEF e
    <2>2. IsTrail(<<e>>)
        <3>1. \A i \in 1..1 : IsEntry(<<e>>[i])
            BY <1>1, <2>1
        <3>2. 1 \in Nat
            OBVIOUS
        <3> QED
            BY <2>1, <3>1, <3>2, IsTrailIfEntries
    <2> QED
        BY <1>1, <2>1, <2>2 DEF IsAuditTrail, Positions
<1> HIDE DEF e
<1>3. IsSnapshot(flow)
    BY <1>2, EmptyTrail DEF TrailStoreInit, Empty, IsSnapshot, e
<1>4. anchor = Anchored(anchored)
    BY EmptyTrail DEF TrailStoreInit, NoAnchor, Anchored, HeadHash
<1> QED
    BY <1>3, <1>4, EmptyTrail DEF TrailStoreInit, ChainInv

\* A trail that the anchor moves to is one whose chain verifies.
LEMMA AnchorFollowsALink ==
    ASSUME ChainInv, unanchored # None, AnchorMoves(anchor, unanchored, trail_key)
    PROVE  /\ Linked(unanchored)
           /\ HeadHash(unanchored) # None
           /\ unanchored # <<>>
<1>1. IsTrail(unanchored) /\ trail_key \in Keys /\ HeadHash(unanchored) # None
    BY DEF ChainInv, IsAuditTrail, AnchorMoves
<1>2. unanchored # <<>>
    BY <1>1 DEF HeadHash
<1>3. Len(unanchored) \in Nat /\ DOMAIN unanchored = 1..Len(unanchored)
    BY <1>1, TrailFacts
<1>4. Len(unanchored) # 0
    BY <1>1, <1>2, <1>3, EmptyTrail, SameTrail
<1>5. Len(unanchored) \in ChainedAt(unanchored)
    BY <1>1, <1>2, <1>3, <1>4 DEF ChainedAt, IsChained, HeadHash
<1> QED
    BY <1>1, <1>2, <1>5, VerifiedIsLinked DEF AnchorMoves

\* append_entry, save and load keep a trail a trail, and save_trail_anchor only follows a
\* chain that verifies; nothing of it depends on who wrote the sessions file.
LEMMA ChainStep ==
    ASSUME ChainInv, [TrailStoreNext]_trail_vars
    PROVE  ChainInv'
<1>1. ASSUME NEW a, Draft(a) PROVE ChainInv'
    BY <1>1 DEF Draft, ChainInv, IsSnapshot
<1>2. ASSUME NEW body, NEW artifact, NEW decisions, Stamp(body, artifact, decisions),
             body.action = "gate_approval" => ~ IsApproved(flow.trail) /\ body.sealed # {}
      PROVE  ChainInv'
    <2>1. IsAuditTrail(AppendEntry(flow.trail, body, trail_key))
        BY <1>2, StampedTrail DEF ChainInv, IsSnapshot
    <2> QED
        BY <1>2, <2>1 DEF Stamp, ChainInv, IsSnapshot
<1>3. ASSUME NEW c, Decide(c) PROVE ChainInv'
    BY <1>2, <1>3 DEF Decide, Recording
<1>4. CASE Approve
    <2>1. PICK sealed : /\ Stamp(Approval(flow.artifact, {sealed}), flow.artifact, flow.decisions)
                        /\ ~ IsApproved(flow.trail)
        BY <1>4 DEF Approve
    <2>2. Approval(flow.artifact, {sealed}).sealed # {}
        BY DEF Approval
    <2> QED
        BY <1>2, <2>1, <2>2
<1>5. CASE WriteSession
    BY <1>5 DEF WriteSession, ChainInv, IsSnapshot
<1>6. CASE WriteAnchor
    BY <1>6, AnchorFollowsALink DEF WriteAnchor, ChainInv
<1>7. CASE AnchorNotSaved
    BY <1>7 DEF AnchorNotSaved, ChainInv
<1>8. ASSUME NEW key \in Keys, NEW unfit, Reload(key, unfit) PROVE ChainInv'
    BY <1>8 DEF Reload, Load, ChainInv, IsSnapshot
<1>9. CASE EditDisk
    BY <1>9, EditedSnapshotIsSnapshot DEF EditDisk, ChainInv
<1>10. CASE UNCHANGED trail_vars
    BY <1>10 DEF trail_vars, ChainInv
<1> QED
    BY <1>1, <1>3, <1>4, <1>5, <1>6, <1>7, <1>8, <1>9, <1>10 DEF TrailStoreNext

---------------------------------------------------------------------------
(* The anchor.                                                             *)

\* A chain that passes through the head of another one begins with it.
LEMMA ChainThroughTheHead ==
    ASSUME NEW t, NEW u, IsTrail(t), IsTrail(u), Linked(t), Linked(u), t # <<>>,
           Len(t) <= Len(u), HeadHash(t) # None, u[Len(t)].entry_hash = HeadHash(t)
    PROVE  SubSeq(u, 1, Len(t)) = t
<1>1. PICK n : n = Len(t)
    OBVIOUS
<1>2. n \in Nat /\ n # 0 /\ Len(u) \in Nat
    BY <1>1, EmptyTrail, SameTrail, TrailFacts
<1>3. n \in 1..Len(t) /\ n \in 1..Len(u) /\ n <= Len(u)
    BY <1>1, <1>2
<1>4. t[n].entry_hash = HeadHash(t) /\ u[n].entry_hash = HeadHash(t)
    BY <1>1 DEF HeadHash
<1>5. FirstChained(t) <= n /\ FirstChained(u) <= n
    BY <1>3, <1>4, FirstIsFirst DEF Linked, IsChained
<1>6. \A i \in 1..n : t[i] = u[i]
    BY <1>3, <1>4, <1>5, ChainsAgree
<1>7. n \in 0..Len(u)
    BY <1>3
<1>8. /\ IsTrail(SubSeq(u, 1, n)) /\ Len(SubSeq(u, 1, n)) = n
      /\ \A i \in 1..n : SubSeq(u, 1, n)[i] = u[i]
    BY <1>7, PrefixOfTrail
<1>9. PICK p : p = SubSeq(u, 1, n)
    OBVIOUS
<1>10. p = t
    BY <1>1, <1>6, <1>8, <1>9, SameTrail
<1> QED
    BY <1>1, <1>9, <1>10

\* An anchor is the length and the head of a trail with entries.
LEMMA WhatIsAnchored ==
    ASSUME ChainInv, anchor.count > 0
    PROVE  /\ anchor.count = Len(anchored) /\ anchor.head = HeadHash(anchored)
           /\ anchored # <<>> /\ IsTrail(anchored)
           /\ Linked(anchored) /\ HeadHash(anchored) # None
<1>1. anchor.count = Len(anchored) /\ anchor.head = HeadHash(anchored)
    BY DEF ChainInv, Anchored
<1>2. anchored # <<>>
    BY <1>1, EmptyTrail
<1> QED
    BY <1>1, <1>2 DEF ChainInv, IsAuditTrail

\* What passes the chain and the anchor begins with the trail the anchor was taken from.
LEMMA VerifiedIsGenuine ==
    ASSUME ChainInv PROVE AnchoredPartIsGenuine
<1> SUFFICES ASSUME anchor.count > 0,
                    Verdict(disk) \in {"ok", "unkeyed", "artifact_changed", "decision_changed"}
             PROVE  SubSeq(disk.trail, 1, anchor.count) = anchored
    BY DEF AnchoredPartIsGenuine
<1>1. IsTrail(disk.trail) /\ trail_key \in Keys
    BY DEF ChainInv, IsSnapshot, IsAuditTrail
<1>2. Linked(disk.trail) /\ AnchorVerdict(disk.trail, anchor) = "ok"
    BY <1>1, ChainAndAnchorHold DEF Verdict
<1>3. /\ Len(anchored) \in Nat /\ Len(disk.trail) \in Nat
      /\ anchor.count = Len(anchored) /\ anchor.head = HeadHash(anchored)
    BY <1>1, WhatIsAnchored, TrailFacts
<1>4. Len(anchored) <= Len(disk.trail) /\ disk.trail[Len(anchored)].entry_hash = HeadHash(anchored)
    BY <1>2, <1>3 DEF AnchorVerdict
<1> QED
    BY <1>1, <1>2, <1>3, <1>4, WhatIsAnchored, ChainThroughTheHead

\* The inductive invariant holds.
LEMMA ChainAlways == TrailStoreSpec => []ChainInv
    BY ChainInit, ChainStep, PTL DEF TrailStoreSpec

\* verify_trail does not pass a trail whose anchored part was changed: whatever was done to
\* the sessions file, a trail that passes the chain and the anchor begins with the entries
\* that save_trail_anchor saw.
THEOREM AnchorsTellForgeries == TrailStoreSpec => []AnchoredPartIsGenuine
    BY ChainAlways, VerifiedIsGenuine, PTL

\* save_trail_anchor follows the flow only along the chain that the anchor is on: the trail
\* that is anchored only gets longer, and keeps what it had.
THEOREM AnchorsMoveAlongTheChain == TrailStoreSpec => AnchorStaysOnItsChain
<1> DEFINE Longer == anchor.count > 0 =>
                       /\ Len(anchored') >= anchor.count
                       /\ SubSeq(anchored', 1, anchor.count) = anchored
<1>1. ASSUME ChainInv, [TrailStoreNext]_trail_vars PROVE Longer
    <2> SUFFICES ASSUME anchor.count > 0
                 PROVE  /\ Len(anchored') >= anchor.count
                        /\ SubSeq(anchored', 1, anchor.count) = anchored
        OBVIOUS
    <2>1. /\ anchor.count = Len(anchored) /\ Len(anchored) \in Nat
          /\ anchor.head = HeadHash(anchored)
          /\ anchored # <<>> /\ IsTrail(anchored)
          /\ Linked(anchored) /\ HeadHash(anchored) # None
        BY <1>1, WhatIsAnchored, TrailFacts
    <2>2. CASE anchored' = anchored
        <3>1. Len(anchored) \in 0..Len(anchored)
            BY <2>1
        <3>2. /\ IsTrail(SubSeq(anchored, 1, Len(anchored)))
              /\ Len(SubSeq(anchored, 1, Len(anchored))) = Len(anchored)
              /\ \A i \in 1..Len(anchored) : SubSeq(anchored, 1, Len(anchored))[i] = anchored[i]
            BY <2>1, <3>1, PrefixOfTrail
        <3>3. PICK p : p = SubSeq(anchored, 1, Len(anchored))
            OBVIOUS
        <3>4. p = anchored
            BY <2>1, <3>2, <3>3, SameTrail
        <3> QED
            BY <2>1, <2>2, <3>3, <3>4
    <2>3. CASE WriteAnchor /\ AnchorMoves(anchor, unanchored, trail_key)
        <3>1. anchored' = unanchored /\ unanchored # None
            BY <2>3 DEF WriteAnchor
        <3>2. IsTrail(unanchored) /\ Linked(unanchored)
            BY <1>1, <2>3, <3>1, AnchorFollowsALink DEF ChainInv, IsAuditTrail
        <3>3. Len(unanchored) \in Nat
            BY <3>2, TrailFacts
        <3>4. /\ Len(anchored) <= Len(unanchored)
              /\ unanchored[Len(anchored)].entry_hash = HeadHash(anchored)
            BY <2>1, <2>3, <3>3 DEF AnchorMoves
        <3>5. SubSeq(unanchored, 1, Len(anchored)) = anchored
            BY <2>1, <3>2, <3>4, ChainThroughTheHead
        <3> QED
            BY <2>1, <3>1, <3>3, <3>4, <3>5
    <2>4. anchored' = anchored \/ (WriteAnchor /\ AnchorMoves(anchor, unanchored, trail_key))
        BY <1>1 DEF TrailStoreNext, Draft, Decide, Approve, Stamp, WriteSession, WriteAnchor,
                    AnchorNotSaved, Reload, EditDisk, trail_vars
    <2> QED
        BY <2>2, <2>3, <2>4
<1> QED
    BY <1>1, ChainAlways, PTL DEF TrailStoreSpec, AnchorStaysOnItsChain

---------------------------------------------------------------------------
(* The approval.                                                           *)

\* Of a trail with one approval it is the latest.
LEMMA OneApproval ==
    ASSUME NEW t, IsAuditTrail(t), NEW i \in Positions(t, "gate_approval", 1)
    PROVE  LatestApproval(t, 1) = i
<1>1. Positions(t, "gate_approval", 1) = {i} /\ i \in 1..Len(t)
    BY TrailFacts DEF IsAuditTrail, Positions
<1>2. \A j \in {i} : j <= i
    BY <1>1
<1> QED
    BY <1>1, <1>2 DEF LatestApproval

\* A trail and one that begins with it have the same beginnings.
LEMMA SameBeginning ==
    ASSUME NEW t, NEW u, IsTrail(t), IsTrail(u), Len(t) <= Len(u),
           \A i \in 1..Len(t) : t[i] = u[i], NEW n \in 0..Len(t)
    PROVE  SubSeq(t, 1, n) = SubSeq(u, 1, n)
<1>1. Len(t) \in Nat /\ Len(u) \in Nat /\ n \in 0..Len(u)
    BY TrailFacts
<1>2. /\ SubSeq(t, 1, n) = [i \in 1..n |-> t[i]]
      /\ SubSeq(u, 1, n) = [i \in 1..n |-> u[i]]
    BY <1>1, PrefixOfTrail
<1>3. \A i \in 1..n : t[i] = u[i]
    BY <1>1
<1> QED
    BY <1>2, <1>3

\* What verifies is what was approved, in a state in which the chain holds.
LEMMA VerifiedIsApproved ==
    ASSUME ChainInv PROVE VerifiedMeansApproved
<1> SUFFICES ASSUME Verdict(disk) = "ok", IsApproved(anchored),
                    NEW at, at = LatestApproval(anchored, 1),
                    NEW ids, ids = RecordedBefore(anchored, 1, at)
             PROVE  /\ disk.artifact = anchored[at].body.digest
                    /\ \A k \in DOMAIN ids : ids[k] \in DOMAIN disk.decisions
                    /\ DecisionsDigest(ids, disk.decisions) \in anchored[at].body.sealed
    BY DEF VerifiedMeansApproved
<1>1. /\ IsAuditTrail(disk.trail) /\ IsAuditTrail(anchored) /\ trail_key \in Keys
      /\ IsTrail(disk.trail) /\ IsTrail(anchored)
      /\ anchor.count = Len(anchored)
    BY DEF ChainInv, IsSnapshot, IsAuditTrail, Anchored
<1>2. /\ Len(anchored) \in Nat /\ DOMAIN anchored = 1..Len(anchored)
      /\ Len(disk.trail) \in Nat /\ DOMAIN disk.trail = 1..Len(disk.trail)
    BY <1>1, TrailFacts
<1>3. at \in Positions(anchored, "gate_approval", 1)
    <2>1. PICK i : i \in Positions(anchored, "gate_approval", 1)
        BY DEF IsApproved
    <2> QED
        BY <1>1, <2>1, OneApproval
<1>4. at \in 1..Len(anchored) /\ anchor.count > 0
    BY <1>1, <1>2, <1>3 DEF Positions
<1>5. /\ AnchorVerdict(disk.trail, anchor) = "ok"
      /\ ArtifactVerdict(disk.trail, <<disk.artifact>>, disk.decisions) = "ok"
    BY <1>1, <1>4, ChainAndAnchorHold DEF Verdict
<1>6. Len(anchored) <= Len(disk.trail)
    BY <1>1, <1>2, <1>5 DEF AnchorVerdict
<1>7. \A i \in 1..Len(anchored) : anchored[i] = disk.trail[i]
    <2>1. SubSeq(disk.trail, 1, anchor.count) = anchored
        BY <1>4, VerifiedIsGenuine DEF AnchoredPartIsGenuine
    <2>2. Len(anchored) \in 0..Len(disk.trail)
        BY <1>2, <1>6
    <2>3. \A i \in 1..Len(anchored) : SubSeq(disk.trail, 1, Len(anchored))[i] = disk.trail[i]
        BY <1>1, <2>2, PrefixOfTrail
    <2> QED
        BY <1>1, <2>1, <2>3
<1>8. at \in Positions(disk.trail, "gate_approval", 1)
    BY <1>2, <1>3, <1>4, <1>6, <1>7 DEF Positions
<1>9. LatestApproval(disk.trail, 1) = at
    BY <1>1, <1>8, OneApproval
<1>10. ids = RecordedBefore(disk.trail, 1, at)
    <2>1. at - 1 \in 0..Len(anchored)
        BY <1>2, <1>4
    <2>2. SubSeq(anchored, 1, at - 1) = SubSeq(disk.trail, 1, at - 1)
        BY <1>1, <1>6, <1>7, <2>1, SameBeginning
    <2> QED
        BY <2>2 DEF RecordedBefore
<1>11. ~ ApprovalChanged(disk.trail, 1, <<disk.artifact>>, disk.decisions)
    <2>1. 1 \in DOMAIN <<disk.artifact>>
        OBVIOUS
    <2>2. ChangedSinceApproval(disk.trail, <<disk.artifact>>, disk.decisions) = {}
        BY <1>5 DEF ArtifactVerdict
    <2> QED
        BY <1>8, <2>1, <2>2 DEF ChangedSinceApproval
<1>12. disk.trail[at].body.sealed # {} /\ disk.trail[at] = anchored[at]
    BY <1>1, <1>4, <1>7, <1>8 DEF IsAuditTrail, Positions
<1>13. /\ <<disk.artifact>>[1] = disk.trail[at].body.digest
       /\ \A k \in DOMAIN ids : ids[k] \in DOMAIN disk.decisions
       /\ DecisionsDigest(ids, disk.decisions) \in disk.trail[at].body.sealed
    BY <1>9, <1>10, <1>11, <1>12 DEF ApprovalChanged
<1> QED
    BY <1>12, <1>13

\* What verify_trail calls ok is what was approved: the artifact on disk is the one of the
\* anchored approval, and the decisions it sealed are there with what they said, whatever was
\* done to the sessions file and also where load skipped the artifact.
THEOREM VerifiedTrailsAreApproved == TrailStoreSpec => []VerifiedMeansApproved
    BY ChainAlways, VerifiedIsApproved, PTL

---------------------------------------------------------------------------
(* An audit nobody changed from outside.                                   *)

\* The key is set or it is not; it is not replaced by another.
OneKey == \A k, l \in Keys \ {NoKey} : k = l

\* The field of an entry that has no hash is no hash.
NoneIsNoDigest == \A v, alg, key : Digest(v, alg, key) # None

\* An entry as append_entry leaves it, under the key of its time.
SealedAt(t, i) ==
    \E key \in Keys :
        /\ t[i].hash_alg = AlgorithmOf(key)
        /\ t[i].prev_hash = ExpectedPrev(t, i, key)
        /\ t[i].entry_hash = Digest(CanonicalEntry(t[i]), AlgorithmOf(key), key)

\* From the first chained entry on, all are.
HonestChain(t) == ChainedAt(t) # {} => \A i \in FirstChained(t)..Len(t) : SealedAt(t, i)

\* What was approved is what is stored.
ApprovalHolds(t, artifact, decisions) ==
    \A i \in Positions(t, "gate_approval", 1) :
        /\ t[i].body.digest = artifact
        /\ \A k \in DOMAIN RecordedBefore(t, 1, i) :
              RecordedBefore(t, 1, i)[k] \in DOMAIN decisions
        /\ t[i].body.sealed = {DecisionsDigest(RecordedBefore(t, 1, i), decisions)}

\* The stored decisions are those the trail records.
DecisionsRecorded(t, decisions) ==
    /\ decisions \in Seq({decisions[id] : id \in DOMAIN decisions})
    /\ \A i \in Recordings(t) : /\ t[i].body.id \in DOMAIN decisions
                                /\ decisions[t[i].body.id] = t[i].body.digest
    /\ \A id \in DOMAIN decisions : \E i \in Recordings(t) : t[i].body.id = id

\* The three things verify_trail looks at, besides the anchor.
Untouched(f) ==
    /\ HonestChain(f.trail)
    /\ ApprovalHolds(f.trail, f.artifact, f.decisions)
    /\ DecisionsRecorded(f.trail, f.decisions)

\* u begins with t.
Begins(t, u) == Len(t) <= Len(u) /\ \A i \in 1..Len(t) : t[i] = u[i]

\* Nothing runs ahead of what it is taken from: the anchor, the file, the flow.
HonestInv ==
    /\ edits \in Nat
    /\ edits = 0 /\ refused = {} =>
         /\ Untouched(flow) /\ Untouched(disk)
         /\ Begins(anchored, disk.trail) /\ Begins(disk.trail, flow.trail)
         /\ unanchored # None => unanchored = disk.trail

\* What comes before the entry, and with it what its prev_hash must be, is untouched by
\* what comes after.
LEMMA SamePredecessor ==
    ASSUME NEW t, NEW u, IsTrail(t), IsTrail(u), Begins(t, u), ChainedAt(t) # {},
           NEW i \in FirstChained(t)..Len(t), NEW key
    PROVE  /\ FirstChained(u) = FirstChained(t)
           /\ ExpectedPrev(u, i, key) = ExpectedPrev(t, i, key)
<1>1. /\ Len(t) \in Nat /\ DOMAIN t = 1..Len(t)
      /\ Len(u) \in Nat /\ DOMAIN u = 1..Len(u)
      /\ Len(t) <= Len(u) /\ \A j \in 1..Len(t) : t[j] = u[j]
    BY TrailFacts DEF Begins
<1>2. /\ FirstChained(t) \in 1..Len(t) /\ IsChained(t[FirstChained(t)])
      /\ \A j \in 1..Len(t) : IsChained(t[j]) => FirstChained(t) <= j
    BY FirstIsFirst
<1>3. FirstChained(t) \in ChainedAt(u)
    BY <1>1, <1>2 DEF ChainedAt
<1>4. /\ FirstChained(u) \in 1..Len(u) /\ IsChained(u[FirstChained(u)])
      /\ \A j \in 1..Len(u) : IsChained(u[j]) => FirstChained(u) <= j
    BY <1>3, FirstIsFirst
<1>5. FirstChained(u) = FirstChained(t)
    <2>1. FirstChained(u) <= FirstChained(t)
        BY <1>1, <1>2, <1>4
    <2>2. FirstChained(t) <= FirstChained(u)
        BY <1>1, <1>2, <1>4, <2>1
    <2> QED
        BY <1>2, <1>4, <2>1, <2>2
<1>6. i \in 1..Len(t) /\ i - 1 \in 0..Len(t)
    BY <1>1, <1>2
<1>7. SubSeq(t, 1, i - 1) = SubSeq(u, 1, i - 1)
    BY <1>1, <1>6, SameBeginning
<1>8. i # FirstChained(t) => t[i - 1] = u[i - 1]
    BY <1>1, <1>2, <1>6
<1> QED
    BY <1>1, <1>5, <1>6, <1>7, <1>8 DEF ExpectedPrev

\* The chain goes on as it was.
LEMMA HonestChainGrows ==
    ASSUME NEW t, IsTrail(t), HonestChain(t), None \notin {Keyed, Plain}, NEW body, NEW key \in Keys
    PROVE  HonestChain(AppendEntry(t, body, key))
<1>1. PICK u : u = AppendEntry(t, body, key)
    OBVIOUS
<1>2. PICK n : n = Len(t)
    OBVIOUS
<1>3. PICK prev : prev = IF ChainedAt(t) = {} THEN LegacySeal(t, AlgorithmOf(key), key)
                                               ELSE t[n].entry_hash
    OBVIOUS
<1>4. PICK e : e = Sealed(body, prev, key)
    OBVIOUS
<1>5. /\ e.hash_alg = AlgorithmOf(key) /\ e.prev_hash = prev
      /\ e.entry_hash = Digest(CanonicalEntry(e), AlgorithmOf(key), key)
      /\ IsEntry(e)
    BY <1>4 DEF Sealed, CanonicalEntry, IsEntry
<1>6. u = Append(t, e)
    BY <1>1, <1>2, <1>3, <1>4 DEF AppendEntry
<1>7. /\ IsTrail(u) /\ Len(u) = n + 1 /\ u[n + 1] = e
      /\ \A i \in 1..n : u[i] = t[i]
      /\ n \in Nat /\ DOMAIN t = 1..n /\ DOMAIN u = 1..(n + 1)
    BY <1>2, <1>5, <1>6, OneMore, TrailFacts
<1>8. IsChained(e)
    BY <1>5 DEF IsChained, AlgorithmOf
<1>9. CASE ChainedAt(t) = {}
    <2>1. ChainedAt(u) = {n + 1}
        BY <1>7, <1>8, <1>9 DEF ChainedAt
    <2>2. FirstChained(u) = n + 1
        BY <2>1, <1>7, FirstIsFirst DEF ChainedAt
    <2>3. SubSeq(u, 1, n) = t
        <3>1. n \in 0..Len(u)
            BY <1>7
        <3>2. /\ IsTrail(SubSeq(u, 1, n)) /\ Len(SubSeq(u, 1, n)) = n
              /\ \A i \in 1..n : SubSeq(u, 1, n)[i] = u[i]
            BY <1>7, <3>1, PrefixOfTrail
        <3>3. PICK p : p = SubSeq(u, 1, n)
            OBVIOUS
        <3>4. p = t
            BY <1>2, <1>7, <3>2, <3>3, SameTrail
        <3> QED
            BY <3>3, <3>4
    <2>4. ExpectedPrev(u, n + 1, key) = prev
        <3>1. (n + 1) - 1 = n
            BY <1>7
        <3> QED
            BY <1>3, <1>5, <1>7, <1>9, <2>2, <2>3, <3>1 DEF ExpectedPrev
    <2>5. SealedAt(u, n + 1)
        BY <1>5, <1>7, <2>4 DEF SealedAt
    <2>6. \A i \in FirstChained(u)..Len(u) : i = n + 1
        BY <1>7, <2>2
    <2> QED
        BY <1>1, <2>5, <2>6 DEF HonestChain
<1>10. CASE ChainedAt(t) # {}
    <2>1. Begins(t, u)
        BY <1>2, <1>7 DEF Begins
    <2>2. FirstChained(t) \in 1..n /\ \A i \in FirstChained(t)..n : SealedAt(t, i)
        BY <1>2, <1>10, FirstIsFirst DEF HonestChain
    <2>3. /\ FirstChained(u) = FirstChained(t)
          /\ \A i \in FirstChained(t)..n, k \in Keys : ExpectedPrev(u, i, k) = ExpectedPrev(t, i, k)
        <3>1. n \in FirstChained(t)..n
            BY <1>7, <2>2
        <3>2. FirstChained(u) = FirstChained(t)
            BY <1>2, <1>7, <1>10, <2>1, <3>1, SamePredecessor
        <3>3. ASSUME NEW i \in FirstChained(t)..n, NEW k \in Keys
              PROVE  ExpectedPrev(u, i, k) = ExpectedPrev(t, i, k)
            BY <1>2, <1>7, <1>10, <2>1, SamePredecessor
        <3> QED
            BY <3>2, <3>3
    <2>4. ASSUME NEW i \in FirstChained(u)..Len(u) PROVE SealedAt(u, i)
        <3>1. CASE i = n + 1
            <4>1. n + 1 # FirstChained(u) /\ (n + 1) - 1 = n /\ u[n] = t[n]
                BY <1>7, <2>2, <2>3
            <4>2. ExpectedPrev(u, n + 1, key) = prev
                BY <1>3, <1>10, <4>1 DEF ExpectedPrev
            <4> QED
                BY <1>5, <1>7, <3>1, <4>2 DEF SealedAt
        <3>2. CASE i # n + 1
            <4>1. i \in FirstChained(t)..n /\ i \in 1..n
                BY <1>7, <2>2, <2>3, <3>2
            <4>2. u[i] = t[i] /\ SealedAt(t, i)
                BY <1>7, <2>2, <4>1
            <4> QED
                BY <2>3, <4>1, <4>2 DEF SealedAt
        <3> QED
            BY <3>1, <3>2
    <2> QED
        BY <1>1, <2>4 DEF HonestChain
<1> QED
    BY <1>9, <1>10

\* A chain that nobody changed verifies, or cannot be verified for want of the key.
LEMMA HonestChainVerifies ==
    ASSUME NEW t, IsTrail(t), HonestChain(t), ChainedAt(t) # {}, NEW key \in Keys,
           OneKey, NoneIsNoDigest
    PROVE  ChainVerdict(t, key) \in {"ok", "key_unavailable"}
<1>1. FirstChained(t) \in 1..Len(t) /\ Len(t) \in Nat
    BY FirstIsFirst, TrailFacts
<1>2. ASSUME NEW i \in FirstChained(t)..Len(t)
      PROVE  EntryVerdict(t, i, key) \in {"ok", "key_unavailable"}
    <2>1. PICK k \in Keys :
             /\ t[i].hash_alg = AlgorithmOf(k)
             /\ t[i].prev_hash = ExpectedPrev(t, i, k)
             /\ t[i].entry_hash = Digest(CanonicalEntry(t[i]), AlgorithmOf(k), k)
        BY DEF HonestChain, SealedAt
    <2>2. t[i].entry_hash # None /\ t[i].hash_alg \in {Keyed, Plain}
        BY <2>1 DEF NoneIsNoDigest, AlgorithmOf
    <2>3. CASE k # NoKey /\ key = NoKey
        BY <2>1, <2>2, <2>3 DEF EntryVerdict, AlgorithmOf, Keyed, Plain
    <2>4. CASE k = NoKey \/ key # NoKey
        <3>1. k = NoKey \/ k = key
            BY <2>4 DEF OneKey
        <3>2. \A v : Digest(v, AlgorithmOf(k), k) = Digest(v, AlgorithmOf(k), key)
            BY <3>1 DEF Digest, AlgorithmOf, Keyed, Plain
        <3>3. ExpectedPrev(t, i, k) = ExpectedPrev(t, i, key)
            BY <2>1, <3>2 DEF ExpectedPrev, LegacySeal
        <3>4. /\ t[i].prev_hash = ExpectedPrev(t, i, key)
              /\ t[i].entry_hash = Digest(CanonicalEntry(t[i]), t[i].hash_alg, key)
            BY <2>1, <3>2, <3>3
        <3>5. k # NoKey => key # NoKey
            BY <2>4
        <3>6. t[i].hash_alg = Plain \/ key # NoKey
            BY <2>1, <3>5 DEF AlgorithmOf
        <3> QED
            BY <2>2, <3>4, <3>6 DEF EntryVerdict
    <2> QED
        BY <2>3, <2>4
<1> DEFINE bad == {i \in FirstChained(t)..Len(t) : EntryVerdict(t, i, key) # "ok"}
<1>3. CASE bad = {}
    BY <1>3 DEF ChainVerdict
<1>4. CASE bad # {}
    <2>1. bad \in SUBSET Nat
        BY <1>1
    <2>2. PICK m \in bad : \A k \in bad : m <= k
        BY <1>4, <2>1, LeastNumber
    <2>3. PICK m2 \in bad : m2 = CHOOSE i \in bad : \A j \in bad : i <= j
        BY <2>2
    <2>4. ChainVerdict(t, key) = EntryVerdict(t, m2, key)
        BY <1>4, <2>3 DEF ChainVerdict
    <2> QED
        BY <2>4, <1>2
<1> QED
    BY <1>3, <1>4

\* An approval that holds is not reported as changed.
LEMMA HeldApprovalVerifies ==
    ASSUME NEW t, IsAuditTrail(t), NEW artifact, NEW decisions, ApprovalHolds(t, artifact, decisions)
    PROVE  ArtifactVerdict(t, <<artifact>>, decisions) = "ok"
<1>1. ASSUME Positions(t, "gate_approval", 1) # {}
      PROVE  ~ ApprovalChanged(t, 1, <<artifact>>, decisions)
    <2>1. PICK i : i \in Positions(t, "gate_approval", 1)
        BY <1>1
    <2>2. LatestApproval(t, 1) = i
        BY <2>1, OneApproval
    <2>3. /\ t[i].body.digest = artifact
          /\ \A k \in DOMAIN RecordedBefore(t, 1, i) :
                RecordedBefore(t, 1, i)[k] \in DOMAIN decisions
          /\ DecisionsDigest(RecordedBefore(t, 1, i), decisions) \in t[i].body.sealed
        BY <2>1 DEF ApprovalHolds
    <2>4. <<artifact>>[1] = artifact
        OBVIOUS
    <2> QED
        BY <2>2, <2>3, <2>4 DEF ApprovalChanged
<1>2. DOMAIN <<artifact>> = {1}
    OBVIOUS
<1>3. ChangedSinceApproval(t, <<artifact>>, decisions) = {}
    BY <1>1, <1>2 DEF ChangedSinceApproval
<1> QED
    BY <1>3 DEF ArtifactVerdict

\* Decisions that are the recorded ones are not reported as changed.
LEMMA RecordedDecisionsVerify ==
    ASSUME NEW t, IsTrail(t), NEW decisions, DecisionsRecorded(t, decisions)
    PROVE  DecisionVerdict(t, decisions) = "ok"
<1> DEFINE recorded == {t[i].body.id : i \in Recordings(t)}
<1>1. recorded = DOMAIN decisions
    BY DEF DecisionsRecorded
<1>2. ASSUME NEW id \in recorded
      PROVE  decisions[id] = t[RecordingOf(t, id)].body.digest
    <2> DEFINE S == {i \in Recordings(t) : t[i].body.id = id}
    <2>1. S # {} /\ S \in SUBSET (1..Len(t)) /\ Len(t) \in Nat
        BY TrailFacts DEF Recordings
    <2>2. PICK m \in S : \A k \in S : k <= m
        BY <2>1, LastPosition
    <2>3. /\ m \in Recordings(t) /\ t[m].body.id = id
          /\ \A j \in Recordings(t) : t[j].body.id = id => j <= m
        BY <2>2
    <2>4. RecordingOf(t, id) \in Recordings(t) /\ t[RecordingOf(t, id)].body.id = id
        BY <2>3 DEF RecordingOf
    <2> QED
        BY <2>4 DEF DecisionsRecorded
<1>3. DecisionsChanged(t, decisions) = {}
    BY <1>1, <1>2 DEF DecisionsChanged
<1> QED
    BY <1>3 DEF DecisionVerdict

\* What is untouched and goes through the anchored trail is exported.
LEMMA UntouchedVerifies ==
    ASSUME ChainInv, OneKey, NoneIsNoDigest,
           NEW f, IsSnapshot(f), Untouched(f), Begins(anchored, f.trail)
    PROVE  ~ ExportRefused(f)
<1>1. PICK t : t = f.trail
    OBVIOUS
<1>2. PICK arts : arts = <<f.artifact>>
    OBVIOUS
<1>3. /\ IsAuditTrail(t) /\ IsTrail(t) /\ trail_key \in Keys
      /\ anchor = Anchored(anchored) /\ IsTrail(anchored)
      /\ anchored # <<>> => HeadHash(anchored) # None
    BY <1>1 DEF ChainInv, IsSnapshot, IsAuditTrail
<1>4. /\ Len(t) \in Nat /\ DOMAIN t = 1..Len(t) /\ Len(anchored) \in Nat
      /\ Len(anchored) <= Len(t) /\ \A i \in 1..Len(anchored) : anchored[i] = t[i]
      /\ anchor.count = Len(anchored) /\ anchor.head = HeadHash(anchored)
    BY <1>1, <1>3, TrailFacts DEF Anchored, Begins
<1>5. anchor.count > 0 => /\ anchor.count \in 1..Len(t)
                          /\ t[anchor.count].entry_hash = anchor.head
                          /\ anchor.head # None
    BY <1>3, <1>4, EmptyTrail DEF HeadHash
<1>6. AnchorVerdict(t, anchor) = "ok"
    BY <1>4, <1>5 DEF AnchorVerdict
<1>7. CASE ChainedAt(t) = {}
    <2>1. ~ (anchor.count > 0)
        BY <1>4, <1>5, <1>7 DEF ChainedAt, IsChained
    <2>2. Verdict(f) \in {"ok", "legacy_unchained"}
        BY <1>1, <1>2, <1>7, <2>1 DEF Verdict, VerifyTrail, UnchainedVerdict
    <2> QED
        BY <2>2 DEF ExportRefused, TamperStatuses
<1>8. CASE ChainedAt(t) # {}
    <2> DEFINE a == ChainVerdict(t, trail_key)
               b == AnchorVerdict(t, anchor)
               c == KeyVerdict(t, trail_key)
               d == ArtifactVerdict(t, arts, f.decisions)
               e == DecisionVerdict(t, f.decisions)
    <2>1. Verdict(f) = FirstProblem(<<a, b, c, d, e>>)
        BY <1>1, <1>2, <1>8 DEF Verdict, VerifyTrail
    <2>2. a \in {"ok", "key_unavailable"}
        BY <1>1, <1>3, <1>8, HonestChainVerifies DEF Untouched
    <2>3. c \in {"ok", "unkeyed"}
        BY DEF KeyVerdict
    <2>4. d = "ok"
        BY <1>1, <1>2, <1>3, HeldApprovalVerifies DEF Untouched
    <2>5. e = "ok"
        BY <1>1, <1>3, RecordedDecisionsVerify DEF Untouched
    <2>6. b = "ok"
        BY <1>6
    <2> HIDE DEF a, b, c, d, e
    <2>7. Verdict(f) \in {"ok", a, b, c, d, e}
        BY <2>1, FirstOfFive
    <2>8. Verdict(f) \in {"ok", "key_unavailable", "unkeyed"}
        BY <2>2, <2>3, <2>4, <2>5, <2>6, <2>7
    <2> QED
        BY <2>8 DEF ExportRefused, TamperStatuses
<1> QED
    BY <1>7, <1>8

\* What was recorded before an entry is so after one entry more.
LEMMA SameRecordings ==
    ASSUME NEW t, IsTrail(t), NEW body, NEW key, NEW u, u = AppendEntry(t, body, key)
    PROVE  /\ IsTrail(u) /\ Len(t) \in Nat
           /\ DOMAIN t = 1..Len(t) /\ DOMAIN u = 1..(Len(t) + 1)
           /\ \A i \in 1..Len(t) : u[i] = t[i]
           /\ u[Len(t) + 1].body = body
           /\ Begins(t, u)
           /\ \A i \in 1..(Len(t) + 1) : RecordedBefore(u, 1, i) = RecordedBefore(t, 1, i)
<1>1. /\ IsTrail(u) /\ Len(t) \in Nat /\ Len(u) = Len(t) + 1
      /\ DOMAIN t = 1..Len(t) /\ DOMAIN u = 1..(Len(t) + 1)
      /\ \A i \in 1..Len(t) : u[i] = t[i]
      /\ u[Len(t) + 1].body = body
    <2>1. /\ IsTrail(u) /\ Len(u) = Len(t) + 1 /\ u[Len(t) + 1].body = body
          /\ \A i \in 1..Len(t) : u[i] = t[i]
        BY EntryAppended
    <2> QED
        BY <2>1, TrailFacts
<1>2. Begins(t, u)
    BY <1>1 DEF Begins
<1>3. ASSUME NEW i \in 1..(Len(t) + 1) PROVE RecordedBefore(u, 1, i) = RecordedBefore(t, 1, i)
    <2>1. i - 1 \in 0..Len(t) /\ Len(t) <= Len(u)
        BY <1>1
    <2>2. SubSeq(t, 1, i - 1) = SubSeq(u, 1, i - 1)
        BY <1>1, <2>1, SameBeginning
    <2> QED
        BY <2>2 DEF RecordedBefore
<1> QED
    BY <1>1, <1>2, <1>3

\* A decision more: what was approved and recorded before it stays so.
LEMMA DecisionKeepsUntouched ==
    ASSUME NEW t, IsTrail(t), NEW artifact, NEW decisions, NEW content, NEW key \in Keys,
           HonestChain(t), ApprovalHolds(t, artifact, decisions), DecisionsRecorded(t, decisions),
           None \notin {Keyed, Plain},
           NEW u, u = AppendEntry(t, Recording(Len(decisions) + 1, content), key),
           NEW more, more = Append(decisions, content)
    PROVE  /\ HonestChain(u)
           /\ ApprovalHolds(u, artifact, more)
           /\ DecisionsRecorded(u, more)
<1> DEFINE m == Len(decisions)
           n == Len(t)
           S == {decisions[id] : id \in DOMAIN decisions}
           S2 == {more[id] : id \in DOMAIN more}
<1>1. HonestChain(u)
    BY HonestChainGrows
<1>2. /\ n \in Nat /\ DOMAIN t = 1..n /\ DOMAIN u = 1..(n + 1)
      /\ \A i \in 1..n : u[i] = t[i]
      /\ u[n + 1].body = Recording(m + 1, content)
      /\ \A i \in 1..(n + 1) : RecordedBefore(u, 1, i) = RecordedBefore(t, 1, i)
    BY SameRecordings
<1>3. /\ m \in Nat /\ DOMAIN decisions = 1..m /\ DOMAIN more = 1..(m + 1)
      /\ \A id \in 1..m : more[id] = decisions[id]
      /\ more[m + 1] = content
      /\ more \in Seq(S2)
    <2>1. decisions \in Seq(S)
        BY DEF DecisionsRecorded
    <2> DEFINE T == S \cup {content}
    <2> HIDE DEF S, S2
    <2>2. decisions \in Seq(T) /\ content \in T
        BY <2>1
    <2> HIDE DEF T
    <2>3. /\ m \in Nat /\ DOMAIN decisions = 1..m
          /\ more \in Seq(T) /\ Len(more) = m + 1
          /\ \A id \in 1..m : more[id] = decisions[id]
          /\ more[m + 1] = content
        BY <2>2, AppendProperties, LenProperties
    <2>4. DOMAIN more = 1..(m + 1) /\ more = [id \in 1..(m + 1) |-> more[id]]
        BY <2>3, LenProperties
    <2>5. more \in [1..(m + 1) -> S2]
        BY <2>4 DEF S2
    <2>6. more \in Seq(S2)
        <3>1. PICK k \in Nat : k = m + 1
            BY <2>3
        <3>2. more \in [1..k -> S2]
            BY <2>5, <3>1
        <3> QED
            BY <3>1, <3>2, SeqDef
    <2> QED
        BY <2>3, <2>4, <2>6
<1> HIDE DEF m, n, S
<1>4. ASSUME NEW i \in Positions(u, "gate_approval", 1)
      PROVE  i \in 1..n /\ i \in Positions(t, "gate_approval", 1)
    <2>1. i \in 1..(n + 1) /\ i # n + 1
        BY <1>2 DEF Positions, Recording
    <2> QED
        BY <1>2, <2>1 DEF Positions
<1>5. ASSUME NEW i \in Positions(u, "gate_approval", 1),
             NEW ids, ids = RecordedBefore(u, 1, i)
      PROVE  /\ u[i].body.digest = artifact
             /\ \A k \in DOMAIN ids : ids[k] \in DOMAIN more
             /\ u[i].body.sealed = {DecisionsDigest(ids, more)}
    <2>1. /\ i \in 1..n /\ i \in Positions(t, "gate_approval", 1)
          /\ u[i] = t[i] /\ ids = RecordedBefore(t, 1, i)
        BY <1>2, <1>4, <1>5
    <2>2. /\ t[i].body.digest = artifact
          /\ \A k \in DOMAIN ids : ids[k] \in DOMAIN decisions
          /\ t[i].body.sealed = {DecisionsDigest(ids, decisions)}
        BY <2>1 DEF ApprovalHolds
    <2>3. \A k \in DOMAIN ids : ids[k] \in DOMAIN more /\ more[ids[k]] = decisions[ids[k]]
        BY <1>3, <2>2
    <2>4. DecisionsDigest(ids, more) = DecisionsDigest(ids, decisions)
        BY <2>3 DEF DecisionsDigest
    <2> QED
        BY <2>1, <2>2, <2>3, <2>4
<1>6. ApprovalHolds(u, artifact, more)
    BY <1>5 DEF ApprovalHolds
<1>7. ASSUME NEW i \in Recordings(u)
      PROVE  u[i].body.id \in DOMAIN more /\ more[u[i].body.id] = u[i].body.digest
    <2>1. CASE i = n + 1
        BY <1>2, <1>3, <2>1 DEF Recording
    <2>2. CASE i # n + 1
        <3>1. i \in 1..n /\ i \in Recordings(t) /\ u[i] = t[i]
            BY <1>2, <2>2 DEF Recordings
        <3> QED
            BY <1>3, <3>1 DEF DecisionsRecorded
    <2> QED
        BY <2>1, <2>2
<1>8. ASSUME NEW id \in DOMAIN more PROVE \E i \in Recordings(u) : u[i].body.id = id
    <2>1. CASE id = m + 1
        <3>1. n + 1 \in Recordings(u) /\ u[n + 1].body.id = id
            BY <1>2, <2>1 DEF Recordings, Recording
        <3> QED
            BY <3>1
    <2>2. CASE id # m + 1
        <3>1. PICK i \in Recordings(t) : t[i].body.id = id
            BY <1>3, <2>2 DEF DecisionsRecorded
        <3>2. i \in Recordings(u) /\ u[i].body.id = id
            BY <1>2, <3>1 DEF Recordings
        <3> QED
            BY <3>2
    <2> QED
        BY <2>1, <2>2
<1>9. DecisionsRecorded(u, more)
    BY <1>3, <1>7, <1>8 DEF DecisionsRecorded
<1> QED
    BY <1>1, <1>6, <1>9

\* The approval seals the artifact and the decisions there are.
LEMMA ApprovalKeepsUntouched ==
    ASSUME NEW t, IsTrail(t), NEW artifact, NEW decisions, NEW key \in Keys,
           HonestChain(t), DecisionsRecorded(t, decisions), ~ IsApproved(t),
           None \notin {Keyed, Plain},
           NEW ids, ids = RecordedBefore(t, 1, Len(t) + 1),
           \A k \in DOMAIN ids : ids[k] \in DOMAIN decisions,
           NEW u, u = AppendEntry(t, Approval(artifact, {DecisionsDigest(ids, decisions)}), key)
    PROVE  /\ HonestChain(u)
           /\ ApprovalHolds(u, artifact, decisions)
           /\ DecisionsRecorded(u, decisions)
<1> DEFINE n == Len(t)
           body == Approval(artifact, {DecisionsDigest(ids, decisions)})
<1>1. HonestChain(u)
    BY HonestChainGrows
<1>2. /\ n \in Nat /\ DOMAIN t = 1..n /\ DOMAIN u = 1..(n + 1)
      /\ \A i \in 1..n : u[i] = t[i]
      /\ u[n + 1].body = body
      /\ \A i \in 1..(n + 1) : RecordedBefore(u, 1, i) = RecordedBefore(t, 1, i)
    BY SameRecordings
<1>3. /\ body.action = "gate_approval" /\ body.digest = artifact
      /\ body.sealed = {DecisionsDigest(ids, decisions)}
    BY DEF Approval
<1>4. ids = RecordedBefore(t, 1, n + 1)
    OBVIOUS
<1> HIDE DEF n, body
<1>5. ASSUME NEW i \in Positions(u, "gate_approval", 1) PROVE i = n + 1
    <2>1. i \in 1..(n + 1) /\ i \notin 1..n
        BY <1>2 DEF Positions, IsApproved
    <2> QED
        BY <1>2, <2>1
<1>6. n + 1 \in 1..(n + 1)
    BY <1>2
<1>7. RecordedBefore(u, 1, n + 1) = ids
    BY <1>2, <1>4, <1>6
<1>8. ApprovalHolds(u, artifact, decisions)
    BY <1>2, <1>3, <1>5, <1>7 DEF ApprovalHolds
<1>9. Recordings(u) = Recordings(t) /\ \A i \in Recordings(t) : u[i] = t[i]
    <2>1. n + 1 \notin Recordings(u)
        BY <1>2, <1>3 DEF Recordings
    <2>2. \A i \in 1..(n + 1) : i = n + 1 \/ i \in 1..n
        BY <1>2
    <2>3. \A i \in 1..n : i \in 1..(n + 1)
        BY <1>2
    <2> QED
        BY <1>2, <2>1, <2>2, <2>3 DEF Recordings
<1>10. DecisionsRecorded(u, decisions)
    <2>1. decisions \in Seq({decisions[id] : id \in DOMAIN decisions})
        BY DEF DecisionsRecorded
    <2>2. \A i \in Recordings(u) : /\ u[i].body.id \in DOMAIN decisions
                                  /\ decisions[u[i].body.id] = u[i].body.digest
        BY <1>9 DEF DecisionsRecorded
    <2>3. ASSUME NEW id \in DOMAIN decisions PROVE \E i \in Recordings(u) : u[i].body.id = id
        <3>1. PICK i \in Recordings(t) : t[i].body.id = id
            BY DEF DecisionsRecorded
        <3> QED
            BY <1>9, <3>1
    <2> QED
        BY <2>1, <2>2, <2>3 DEF DecisionsRecorded
<1> QED
    BY <1>1, <1>8, <1>10

\* The audit begins untouched.
LEMMA HonestInit == ASSUME TrailStoreInit, None \notin {Keyed, Plain} PROVE HonestInv
<1>1. flow.trail = <<>> \/ flow.trail = <<Unchained(Note)>>
    BY DEF TrailStoreInit, Empty
<1>2. flow.decisions = <<>> /\ disk = flow /\ anchored = <<>>
    BY DEF TrailStoreInit, Empty
<1>3. PICK t : t = flow.trail
    OBVIOUS
<1>4. \A i \in DOMAIN t : /\ ~ IsChained(t[i])
                          /\ t[i].body.action # "gate_approval"
                          /\ t[i].body.action # "review_decision"
    <2>1. CASE t = <<>>
        <3>1. DOMAIN <<>> = {}
            OBVIOUS
        <3> QED
            BY <2>1, <3>1
    <2>2. CASE t = <<Unchained(Note)>>
        <3>1. DOMAIN <<Unchained(Note)>> = {1} /\ <<Unchained(Note)>>[1] = Unchained(Note)
            OBVIOUS
        <3> QED
            BY <2>2, <3>1 DEF Unchained, Note, IsChained
    <2> QED
        BY <1>1, <1>3, <2>1, <2>2
<1>5. ChainedAt(t) = {} /\ Positions(t, "gate_approval", 1) = {} /\ Recordings(t) = {}
    BY <1>4 DEF ChainedAt, Positions, Recordings
<1>6. HonestChain(t)
    BY <1>5 DEF HonestChain
<1>7. ApprovalHolds(t, flow.artifact, flow.decisions)
    BY <1>5 DEF ApprovalHolds
<1>8. DecisionsRecorded(t, flow.decisions)
    <2>1. PICK d : d = flow.decisions
        OBVIOUS
    <2>2. d = <<>> /\ DOMAIN d = {}
        <3>1. DOMAIN <<>> = {}
            OBVIOUS
        <3> QED
            BY <1>2, <2>1, <3>1
    <2> DEFINE S == {d[id] : id \in DOMAIN d}
    <2>3. d \in Seq(S)
        <3> HIDE DEF S
        <3> QED
            BY <2>2
    <2> QED
        BY <1>5, <2>1, <2>2, <2>3 DEF DecisionsRecorded
<1>9. Begins(<<>>, t) /\ Begins(t, t)
    <2>1. Len(t) \in Nat /\ Len(<<>>) = 0
        <3>1. IsTrail(t)
            BY <1>3, ChainInit DEF ChainInv, IsSnapshot, IsAuditTrail
        <3> QED
            BY <3>1, TrailFacts
    <2> QED
        BY <2>1 DEF Begins
<1> QED
    BY <1>2, <1>3, <1>6, <1>7, <1>8, <1>9 DEF HonestInv, Untouched, TrailStoreInit

\* What begins with a trail goes on doing so.
LEMMA BeginsTransitive ==
    ASSUME NEW t, NEW u, NEW v, IsTrail(t), IsTrail(u), IsTrail(v), Begins(t, u), Begins(u, v)
    PROVE  Begins(t, v)
<1>1. Len(t) \in Nat /\ Len(u) \in Nat /\ Len(v) \in Nat
    BY TrailFacts
<1> QED
    BY <1>1 DEF Begins

\* No action of the program touches what is sealed, in memory or on disk.
LEMMA HonestStep ==
    ASSUME ChainInv, HonestInv, [TrailStoreNext]_trail_vars, None \notin {Keyed, Plain}
    PROVE  HonestInv'
<1>1. /\ IsTrail(flow.trail) /\ IsTrail(disk.trail) /\ IsTrail(anchored) /\ trail_key \in Keys
      /\ Begins(disk.trail, disk.trail)
    <2>1. IsTrail(flow.trail) /\ IsTrail(disk.trail) /\ IsTrail(anchored) /\ trail_key \in Keys
        BY DEF ChainInv, IsSnapshot, IsAuditTrail
    <2> QED
        BY <2>1, TrailFacts DEF Begins
<1>2. ASSUME NEW a, Draft(a) PROVE HonestInv'
    <2>1. /\ flow'.trail = flow.trail /\ flow'.decisions = flow.decisions
          /\ UNCHANGED <<disk, unanchored, edits, refused, anchored>>
        BY <1>2 DEF Draft, ChainInv, IsSnapshot
    <2>2. \A b : ApprovalHolds(flow.trail, b, flow.decisions)
        BY <1>2 DEF Draft, IsApproved, ApprovalHolds
    <2> QED
        BY <2>1, <2>2 DEF HonestInv, Untouched
<1>3. ASSUME NEW body, NEW artifact, NEW decisions, Stamp(body, artifact, decisions),
             edits = 0 /\ refused = {} =>
                /\ HonestChain(AppendEntry(flow.trail, body, trail_key))
                /\ ApprovalHolds(AppendEntry(flow.trail, body, trail_key), artifact, decisions)
                /\ DecisionsRecorded(AppendEntry(flow.trail, body, trail_key), decisions)
      PROVE  HonestInv'
    <2>1. PICK u : u = AppendEntry(flow.trail, body, trail_key)
        OBVIOUS
    <2>2. /\ flow'.trail = u /\ flow'.artifact = artifact /\ flow'.decisions = decisions
          /\ UNCHANGED <<disk, unanchored, edits, refused, anchored>>
        BY <1>3, <2>1 DEF Stamp
    <2>3. Begins(flow.trail, u) /\ IsTrail(u)
        BY <1>1, <2>1, SameRecordings
    <2>4. edits = 0 /\ refused = {} => Begins(disk.trail, u)
        BY <1>1, <2>3, BeginsTransitive DEF HonestInv
    <2>5. edits = 0 /\ refused = {} => HonestChain(u) /\ ApprovalHolds(u, artifact, decisions)
                                        /\ DecisionsRecorded(u, decisions)
        BY <1>3, <2>1
    <2> QED
        BY <2>2, <2>4, <2>5 DEF HonestInv, Untouched
<1>4. ASSUME NEW c, Decide(c) PROVE HonestInv'
    <2>1. PICK body : body = Recording(Len(flow.decisions) + 1, c)
        OBVIOUS
    <2>2. PICK more : more = Append(flow.decisions, c)
        OBVIOUS
    <2>3. Stamp(body, flow.artifact, more)
        BY <1>4, <2>1, <2>2 DEF Decide
    <2>4. ASSUME edits = 0, refused = {}
          PROVE  /\ HonestChain(AppendEntry(flow.trail, body, trail_key))
                 /\ ApprovalHolds(AppendEntry(flow.trail, body, trail_key), flow.artifact, more)
                 /\ DecisionsRecorded(AppendEntry(flow.trail, body, trail_key), more)
        <3>1. /\ HonestChain(flow.trail)
              /\ ApprovalHolds(flow.trail, flow.artifact, flow.decisions)
              /\ DecisionsRecorded(flow.trail, flow.decisions)
            BY <2>4 DEF HonestInv, Untouched
        <3> QED
            BY <1>1, <2>1, <2>2, <3>1, DecisionKeepsUntouched
    <2> QED
        BY <1>3, <2>3, <2>4
<1>5. CASE Approve
    <2>1. PICK ids : ids = RecordedBefore(flow.trail, 1, Len(flow.trail) + 1)
        OBVIOUS
    <2>2. PICK body : body = Approval(flow.artifact, {DecisionsDigest(ids, flow.decisions)})
        OBVIOUS
    <2>3. /\ ~ IsApproved(flow.trail)
          /\ \A k \in DOMAIN ids : ids[k] \in DOMAIN flow.decisions
          /\ Stamp(body, flow.artifact, flow.decisions)
        BY <1>5, <2>1, <2>2 DEF Approve
    <2>4. ASSUME edits = 0, refused = {}
          PROVE  /\ HonestChain(AppendEntry(flow.trail, body, trail_key))
                 /\ ApprovalHolds(AppendEntry(flow.trail, body, trail_key),
                                  flow.artifact, flow.decisions)
                 /\ DecisionsRecorded(AppendEntry(flow.trail, body, trail_key), flow.decisions)
        <3>1. HonestChain(flow.trail) /\ DecisionsRecorded(flow.trail, flow.decisions)
            BY <2>4 DEF HonestInv, Untouched
        <3> QED
            BY <1>1, <2>1, <2>2, <2>3, <3>1, ApprovalKeepsUntouched
    <2> QED
        BY <1>3, <2>3, <2>4
<1>6. CASE WriteSession
    <2>1. /\ disk' = flow /\ unanchored' \in {None, flow.trail}
          /\ UNCHANGED <<flow, edits, refused, anchored>>
        BY <1>6 DEF WriteSession
    <2>2. edits = 0 /\ refused = {} => Begins(anchored, flow.trail)
        BY <1>1, BeginsTransitive DEF HonestInv
    <2>3. Begins(flow.trail, flow.trail)
        BY <1>1, TrailFacts DEF Begins
    <2> QED
        BY <2>1, <2>2, <2>3 DEF HonestInv
<1>7. CASE WriteAnchor
    BY <1>1, <1>7 DEF WriteAnchor, HonestInv
<1>8. CASE AnchorNotSaved
    BY <1>8 DEF AnchorNotSaved, HonestInv
<1>9. ASSUME NEW key, NEW unfit, Reload(key, unfit) PROVE HonestInv'
    <2>1. /\ refused' = {} => refused = {} /\ flow' = disk
          /\ UNCHANGED <<disk, edits, anchored>> /\ unanchored' = None
        BY <1>9 DEF Reload, Load
    <2> QED
        BY <1>1, <2>1 DEF HonestInv
<1>10. CASE EditDisk
    <2>1. edits' = edits + 1 /\ edits \in Nat
        BY <1>10 DEF EditDisk, HonestInv
    <2>2. edits' \in Nat /\ edits' # 0
        BY <2>1
    <2> QED
        BY <2>2 DEF HonestInv
<1>11. CASE UNCHANGED trail_vars
    BY <1>11 DEF trail_vars, HonestInv
<1> QED
    BY <1>2, <1>4, <1>5, <1>6, <1>7, <1>8, <1>9, <1>10, <1>11 DEF TrailStoreNext

\* An audit nobody changed from outside can be exported, from memory and from the file, at
\* every moment between the writes of the two files and across restarts.  It takes that
\* VAULT_ENCRYPTION_KEY is set or not but never replaced by another (verify_trail has no
\* older key to try), and that what stands for a missing field is no hash.
THEOREM HonestAuditsAreExported ==
    ASSUME OneKey, NoneIsNoDigest
    PROVE  TrailStoreSpec => []HonestAuditsVerify
<1>1. TrailStoreInit => HonestInv
    BY HonestInit, TrailStoreAssumption
<1>2. ChainInv /\ HonestInv /\ [TrailStoreNext]_trail_vars => HonestInv'
    BY HonestStep, TrailStoreAssumption
<1>3. ChainInv /\ HonestInv => HonestAuditsVerify
    <2> SUFFICES ASSUME ChainInv, HonestInv, edits = 0, refused = {}, NEW f \in {flow, disk}
                 PROVE  ~ ExportRefused(f)
        BY DEF HonestAuditsVerify
    <2>1. /\ IsSnapshot(flow) /\ IsSnapshot(disk)
          /\ IsTrail(flow.trail) /\ IsTrail(disk.trail) /\ IsTrail(anchored)
        BY DEF ChainInv, IsSnapshot, IsAuditTrail
    <2>2. Begins(anchored, disk.trail) /\ Begins(anchored, flow.trail)
        BY <2>1, BeginsTransitive DEF HonestInv
    <2>3. IsSnapshot(f) /\ Untouched(f) /\ Begins(anchored, f.trail)
        BY <2>1, <2>2 DEF HonestInv
    <2> QED
        BY <2>3, UntouchedVerifies
<1> QED
    BY <1>1, <1>2, <1>3, ChainAlways, PTL DEF TrailStoreSpec
=============================================================================
