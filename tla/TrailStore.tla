----------------------------- MODULE TrailStore -----------------------------
(***************************************************************************)
(* One audit's trail on its way to disk and back.                          *)
(*                                                                         *)
(* The flow in memory appends entries; FlowRepository.save writes the      *)
(* snapshot into the sessions file and then the head of the trail into the *)
(* anchors file; a restart loads the snapshot, perhaps with another key,   *)
(* or with a schema that refuses a stored artifact, which load skips.      *)
(* Outside, somebody may change the sessions file.  The audit has one      *)
(* phase here: what verify_trail checks of one does not depend on others.  *)
(***************************************************************************)
EXTENDS Trail

CONSTANTS Altered,     \* an artifact or a decision nobody drafted or recorded
          Keys,        \* what VAULT_ENCRYPTION_KEY may be, NoKey included
          Artifacts,   \* drafts of the phase
          Contents,    \* contents of a reviewer decision
          MaxEntries,  \* bound on the length of the trail
          MaxEdits     \* bound on the changes made outside

ASSUME TrailStoreAssumption ==
    /\ NoKey \in Keys
    /\ None \notin {Keyed, Plain}
    /\ MaxEntries \in Nat /\ MaxEdits \in Nat

VARIABLES flow,       \* the trail, the artifact and the decisions in memory
          disk,       \* the same in the sessions file
          anchor,     \* the session's record in the anchors file
          trail_key,  \* the key of the running process
          unanchored, \* the trail that was written, its anchor yet to be saved
          edits,      \* changes made outside so far
          refused,    \* artifacts that a later version of the schema refuses
          anchored    \* history: the trail the anchor was taken from

trail_vars == <<flow, disk, anchor, trail_key, unanchored, edits, refused, anchored>>

NoAnchor == [count |-> 0, head |-> None]
Empty == [trail |-> <<>>, artifact |-> None, decisions |-> <<>>]

Note == [action |-> "note", phase |-> 1, id |-> 0, digest |-> None, sealed |-> {}]
Approval(artifact, sealed) ==
    [action |-> "gate_approval", phase |-> 1, id |-> 0, digest |-> artifact, sealed |-> sealed]
Recording(id, content) ==
    [action |-> "review_decision", phase |-> 1, id |-> id, digest |-> content, sealed |-> {}]

IsApproved(trail) == Positions(trail, "gate_approval", 1) # {}

Verdict(f) == VerifyTrail(f.trail, anchor, <<f.artifact>>, f.decisions, trail_key)

\* An export, of the flow in memory or else of the file, is answered with 409.
ExportRefused(f) == Verdict(f) \in TamperStatuses

TrailStoreInit ==
    \* an audit may have entries from before the trail was chained
    /\ flow \in {[Empty EXCEPT !.trail = t] : t \in {<<>>, <<Unchained(Note)>>}}
    /\ disk = flow
    /\ anchor = NoAnchor
    /\ trail_key \in Keys
    /\ unanchored = None
    /\ edits = 0
    /\ refused = {}
    /\ anchored = <<>>

----------------------------------------------------------------------------
(* The flow.                                                               *)

\* The trail grows by one entry, through append_entry.  (An entry that is neither an
\* approval nor a decision is chained like one, and nothing else is read of it.)
Stamp(body, artifact, decisions) ==
    /\ Len(flow.trail) < MaxEntries
    /\ flow' = [trail     |-> AppendEntry(flow.trail, body, trail_key),
                artifact  |-> artifact,
                decisions |-> decisions]
    /\ UNCHANGED <<disk, anchor, trail_key, unanchored, edits, refused, anchored>>

\* A draft is stored only while its gate is open.
Draft(a) ==
    /\ ~IsApproved(flow.trail)
    /\ flow' = [flow EXCEPT !.artifact = a]
    /\ UNCHANGED <<disk, anchor, trail_key, unanchored, edits, refused, anchored>>

Decide(content) ==
    Stamp(Recording(Len(flow.decisions) + 1, content),
          flow.artifact, Append(flow.decisions, content))

Approve ==
    /\ ~IsApproved(flow.trail)
    /\ flow.artifact # None
    /\ LET ids == RecordedBefore(flow.trail, 1, Len(flow.trail) + 1)
       IN  /\ \A k \in DOMAIN ids : ids[k] \in DOMAIN flow.decisions
           /\ Stamp(Approval(flow.artifact, {DecisionsDigest(ids, flow.decisions)}),
                    flow.artifact, flow.decisions)

----------------------------------------------------------------------------
(* The repository.                                                         *)

\* save: the snapshot into the sessions file ...
WriteSession ==
    /\ unanchored = None
    /\ disk' = flow
    /\ unanchored' = IF HeadHash(flow.trail) # None THEN flow.trail ELSE None
    /\ UNCHANGED <<flow, anchor, trail_key, edits, refused, anchored>>

\* Mutant of WriteAnchor: the anchor is taken of the flow as it is by then.
WriteAnchorOfFlow ==
    /\ unanchored # None
    /\ IF AnchorMoves(anchor, flow.trail, trail_key)
       THEN anchor' = Anchored(flow.trail) /\ anchored' = flow.trail
       ELSE UNCHANGED <<anchor, anchored>>
    /\ unanchored' = None
    /\ UNCHANGED <<flow, disk, trail_key, edits, refused>>

\* ... and the head of the trail as written into the anchors file.
WriteAnchor ==
    /\ unanchored # None
    /\ IF AnchorMoves(anchor, unanchored, trail_key)
       THEN anchor' = Anchored(unanchored) /\ anchored' = unanchored
       ELSE UNCHANGED <<anchor, anchored>>
    /\ unanchored' = None
    /\ UNCHANGED <<flow, disk, trail_key, edits, refused>>

\* The anchors file cannot be written: logged, and the anchor stays.
AnchorNotSaved ==
    /\ unanchored # None
    /\ unanchored' = None
    /\ UNCHANGED <<flow, disk, anchor, trail_key, edits, refused, anchored>>

\* load: an artifact that does not validate is skipped.
Load(stored, unfit) ==
    IF stored.artifact \in unfit THEN [stored EXCEPT !.artifact = None] ELSE stored

Reload(key, unfit) ==
    /\ trail_key' = key
    /\ refused' = refused \cup unfit
    /\ flow' = Load(disk, refused')
    /\ unanchored' = None
    /\ UNCHANGED <<disk, anchor, edits, anchored>>

----------------------------------------------------------------------------
(* Outside the code: the session's record in the file is changed.          *)

Bodies(trail) == [i \in DOMAIN trail |-> trail[i].body]
Rechained(bodies) ==
    LET chain[n \in 0..Len(bodies)] ==
            IF n = 0 THEN <<>> ELSE AppendEntry(chain[n - 1], bodies[n], NoKey)
    IN  chain[Len(bodies)]

CutOff(t, n)      == SubSeq(t, 1, n)
TakenOut(t, i)    == SubSeq(t, 1, i - 1) \o SubSeq(t, i + 1, Len(t))
Swapped(t, i, j)  == [t EXCEPT ![i] = t[j], ![j] = t[i]]
Rewritten(t, i)   == [t EXCEPT ![i].body = Note]
HashesRemoved(t)  == [i \in DOMAIN t |-> Unchained(t[i].body)]
HashesRedone(t, i) == Rechained([Bodies(t) EXCEPT ![i] = Note])

EditedTrails(t) ==
    {CutOff(t, n) : n \in 0..Len(t)}
    \cup {TakenOut(t, i) : i \in DOMAIN t}
    \cup {Swapped(t, i, j) : i, j \in DOMAIN t}
    \cup {Rewritten(t, i) : i \in DOMAIN t}
    \cup {HashesRemoved(t)}
    \cup {HashesRedone(t, i) : i \in DOMAIN t}

EditedSnapshots(f) ==
    {[f EXCEPT !.trail = t] : t \in EditedTrails(f.trail)}
    \cup {[f EXCEPT !.artifact = Altered]}
    \cup {[f EXCEPT !.decisions = SubSeq(@, 1, n)] : n \in 0..Len(f.decisions)}
    \cup {[f EXCEPT !.decisions[i] = Altered] : i \in DOMAIN f.decisions}

EditDisk ==
    /\ edits < MaxEdits
    /\ disk' \in EditedSnapshots(disk) \ {disk}
    /\ edits' = edits + 1
    /\ UNCHANGED <<flow, anchor, trail_key, unanchored, refused, anchored>>

----------------------------------------------------------------------------
TrailStoreNext ==
    \/ \E a \in Artifacts : Draft(a)
    \/ \E c \in Contents : Decide(c)
    \/ Approve
    \/ WriteSession
    \/ WriteAnchor
    \/ AnchorNotSaved
    \/ \E key \in Keys, unfit \in SUBSET Artifacts : Reload(key, unfit)
    \/ EditDisk

TrailStoreSpec == TrailStoreInit /\ [][TrailStoreNext]_trail_vars

----------------------------------------------------------------------------
(* An audit nobody changed from outside can be exported, from the flow in  *)
(* memory and from the file, at every moment between the two files'        *)
(* writes, across restarts and whether or not a key is set at the time.    *)
(* Holds while every stored artifact still validates.                      *)
HonestAuditsVerify ==
    edits = 0 /\ refused = {} => \A f \in {flow, disk} : ~ExportRefused(f)

(* If the trail on disk passes the chain and the anchor, the anchored part *)
(* of it is what was anchored, entry for entry.                            *)
AnchoredPartIsGenuine ==
    /\ anchor.count > 0
    /\ Verdict(disk) \in {"ok", "unkeyed", "artifact_changed", "decision_changed"}
    => SubSeq(disk.trail, 1, anchor.count) = anchored

(* The anchor never leaves the chain it is on, whatever is done to the     *)
(* sessions file and however the flow goes on from there: a trail that was *)
(* cut back and extended again is not followed.                            *)
AnchorStaysOnItsChain ==
    [][anchor.count > 0 =>
            /\ Len(anchored') >= anchor.count
            /\ SubSeq(anchored', 1, anchor.count) = anchored]_trail_vars

(* What verifies as ok is what was approved: the artifact of the anchored  *)
(* approval and the decisions it sealed are on disk unchanged, also where  *)
(* load skipped the artifact and the flow was saved without it.            *)
VerifiedMeansApproved ==
    /\ Verdict(disk) = "ok"
    /\ IsApproved(anchored)
    => LET at  == LatestApproval(anchored, 1)
           ids == RecordedBefore(anchored, 1, at)
       IN  /\ disk.artifact = anchored[at].body.digest
           /\ \A k \in DOMAIN ids : ids[k] \in DOMAIN disk.decisions
           /\ DecisionsDigest(ids, disk.decisions) \in anchored[at].body.sealed
=============================================================================
