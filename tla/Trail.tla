------------------------------- MODULE Trail -------------------------------
(***************************************************************************)
(* The hash-chained approval trail of swarm/trail.py.                      *)
(*                                                                         *)
(* A field an entry does not have is None.  The body of an entry is what   *)
(* its readers look at: the action, the phase (ARTIFACT_PHASE gives each   *)
(* artifact one), the ID of a decision, the artifact or the decision, and  *)
(* the decisions sealed.                                                   *)
(***************************************************************************)
EXTENDS Integers, Sequences, FiniteSets, Digests

CONSTANT None

\* prev_hash of a trail that is chained from the start: the digest of nothing.
Genesis == <<>>

\* What an entry's digest covers: every field but entry_hash.
CanonicalEntry(e) == <<"entry", e.body, e.hash_alg, e.prev_hash>>

Unchained(body) ==
    [body |-> body, hash_alg |-> None, prev_hash |-> None, entry_hash |-> None]

Sealed(body, prev, key) ==
    LET e == [body |-> body, hash_alg |-> AlgorithmOf(key), prev_hash |-> prev,
              entry_hash |-> None]
    IN  [e EXCEPT !.entry_hash = Digest(CanonicalEntry(e), e.hash_alg, key)]

IsChained(e) == e.hash_alg # None \/ e.prev_hash # None \/ e.entry_hash # None

ChainedAt(trail) == {i \in DOMAIN trail : IsChained(trail[i])}
FirstChained(trail) ==
    CHOOSE i \in ChainedAt(trail) : \A j \in ChainedAt(trail) : i <= j

\* prev_hash of the first chained entry: it seals the entries before it.
LegacySeal(prefix, alg, key) ==
    IF prefix = <<>> THEN Genesis ELSE Digest(<<"entries", prefix>>, alg, key)

AppendEntry(trail, body, key) ==
    LET prev == IF ChainedAt(trail) = {}
                THEN LegacySeal(trail, AlgorithmOf(key), key)
                ELSE trail[Len(trail)].entry_hash
    IN  Append(trail, Sealed(body, prev, key))

HeadHash(trail) == IF trail = <<>> THEN None ELSE trail[Len(trail)].entry_hash

----------------------------------------------------------------------------
(* What a gate approved and what was decided, against what is stored.      *)

Positions(trail, action, phase) ==
    {i \in DOMAIN trail : trail[i].body.action = action /\ trail[i].body.phase = phase}

LatestApproval(trail, phase) ==
    LET at == Positions(trail, "gate_approval", phase)
    IN  CHOOSE i \in at : \A j \in at : j <= i

\* IDs of the decisions a trail records for a phase, in trail order.
RecordedIds(trail, phase) ==
    LET isOne(e) == e.body.action = "review_decision" /\ e.body.phase = phase
    IN  [k \in DOMAIN SelectSeq(trail, isOne) |-> SelectSeq(trail, isOne)[k].body.id]

RecordedBefore(trail, phase, i) == RecordedIds(SubSeq(trail, 1, i - 1), phase)

\* decisions maps the ID of a stored decision to its content.  An approval has one
\* such digest, or none: those before reviewer decisions.
DecisionsDigest(ids, decisions) == [k \in DOMAIN ids |-> decisions[ids[k]]]

\* Mutant of ApprovalChanged: an artifact that is missing has nothing to compare.
ChangedIfPresent(trail, phase, artifacts, decisions) ==
    /\ artifacts[phase] # None
    /\ artifacts[phase] # trail[LatestApproval(trail, phase)].body.digest

ApprovalChanged(trail, phase, artifacts, decisions) ==
    LET i   == LatestApproval(trail, phase)
        ids == RecordedBefore(trail, phase, i)
    IN  \/ artifacts[phase] # trail[i].body.digest
        \/ /\ trail[i].body.sealed # {}
           /\ \/ \E k \in DOMAIN ids : ids[k] \notin DOMAIN decisions
              \/ DecisionsDigest(ids, decisions) \notin trail[i].body.sealed

ChangedSinceApproval(trail, artifacts, decisions) ==
    {p \in DOMAIN artifacts : /\ Positions(trail, "gate_approval", p) # {}
                              /\ ApprovalChanged(trail, p, artifacts, decisions)}

Recordings(trail) == {i \in DOMAIN trail : trail[i].body.action = "review_decision"}

\* The last entry that records a decision counts.
RecordingOf(trail, id) ==
    CHOOSE i \in Recordings(trail) :
        /\ trail[i].body.id = id
        /\ \A j \in Recordings(trail) : trail[j].body.id = id => j <= i

DecisionsChanged(trail, decisions) ==
    LET recorded == {trail[i].body.id : i \in Recordings(trail)}
    IN  (DOMAIN decisions \ recorded) \cup (recorded \ DOMAIN decisions) \cup
        {id \in recorded \cap DOMAIN decisions :
            decisions[id] # trail[RecordingOf(trail, id)].body.digest}

----------------------------------------------------------------------------
(* verify_trail: the first problem found.                                  *)

ExpectedPrev(trail, i, key) ==
    IF i = FirstChained(trail)
    THEN LegacySeal(SubSeq(trail, 1, i - 1), trail[i].hash_alg, key)
    ELSE trail[i - 1].entry_hash

EntryVerdict(trail, i, key) ==
    LET e == trail[i]
        readable == e.entry_hash # None /\ e.hash_alg \in {Keyed, Plain}
        checkable == e.hash_alg = Plain \/ key # NoKey
        matches == /\ e.prev_hash = ExpectedPrev(trail, i, key)
                   /\ e.entry_hash = Digest(CanonicalEntry(e), e.hash_alg, key)
    IN  IF readable /\ ~checkable THEN "key_unavailable"
        ELSE IF readable /\ matches THEN "ok" ELSE "broken"

ChainVerdict(trail, key) ==
    LET bad == {i \in FirstChained(trail)..Len(trail) : EntryVerdict(trail, i, key) # "ok"}
    IN  IF bad = {} THEN "ok"
        ELSE EntryVerdict(trail, CHOOSE i \in bad : \A j \in bad : i <= j, key)

\* Mutant of AnchorVerdict: only the length of the trail is looked at.
AnchorVerdictByCount(trail, anchor) ==
    IF anchor.count > Len(trail) THEN "truncated" ELSE "ok"

\* anchor.count = 0 stands for no anchor.
AnchorVerdict(trail, anchor) ==
    IF anchor.count > Len(trail) THEN "truncated"
    ELSE IF anchor.count > 0 => trail[anchor.count].entry_hash = anchor.head
    THEN "ok" ELSE "anchor_mismatch"

\* Entries after the last keyed one could have been recomputed without the key.
KeyVerdict(trail, key) ==
    IF key # NoKey /\ trail[Len(trail)].hash_alg = Plain THEN "unkeyed" ELSE "ok"

ArtifactVerdict(trail, artifacts, decisions) ==
    IF ChangedSinceApproval(trail, artifacts, decisions) = {} THEN "ok" ELSE "artifact_changed"

DecisionVerdict(trail, decisions) ==
    IF DecisionsChanged(trail, decisions) = {} THEN "ok" ELSE "decision_changed"

FirstProblem(verdicts) ==
    LET problems == {i \in DOMAIN verdicts : verdicts[i] # "ok"}
    IN  IF problems = {} THEN "ok"
        ELSE verdicts[CHOOSE i \in problems : \A j \in problems : i <= j]

UnchainedVerdict(trail, anchor) ==
    IF trail = <<>> THEN (IF anchor.count > 0 THEN "truncated" ELSE "ok")
    ELSE IF anchor.count > 0 THEN "broken" ELSE "legacy_unchained"

VerifyTrail(trail, anchor, artifacts, decisions, key) ==
    IF ChainedAt(trail) = {} THEN UnchainedVerdict(trail, anchor)
    ELSE FirstProblem(<<ChainVerdict(trail, key), AnchorVerdict(trail, anchor),
                        KeyVerdict(trail, key),
                        ArtifactVerdict(trail, artifacts, decisions),
                        DecisionVerdict(trail, decisions)>>)

TamperStatuses ==
    {"broken", "truncated", "anchor_mismatch", "artifact_changed", "decision_changed"}

----------------------------------------------------------------------------
(* save_trail_anchor.                                                      *)

\* Mutant of AnchorMoves: a longer trail is followed wherever it comes from.
AnchorMovesForward(anchor, trail, key) ==
    /\ HeadHash(trail) # None
    /\ Len(trail) > anchor.count
    /\ ChainVerdict(trail, key) \notin {"broken", "key_unavailable"}

\* The anchor only moves forward, along the chain it is on, over a trail
\* whose chain verifies on its own.
AnchorMoves(anchor, trail, key) ==
    /\ HeadHash(trail) # None
    /\ Len(trail) > anchor.count
    /\ anchor.count > 0 => trail[anchor.count].entry_hash = anchor.head
    /\ ChainVerdict(trail, key) \notin {"broken", "key_unavailable"}

Anchored(trail) == [count |-> Len(trail), head |-> HeadHash(trail)]
=============================================================================
