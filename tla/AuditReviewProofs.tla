------------------------- MODULE AuditReviewProofs -------------------------
(***************************************************************************)
(* Theorems about the evidence and the reviewer decisions of AuditFlow:    *)
(* what Gate 2 accepts, which of the recorded decisions is in force, what  *)
(* an approval freezes, and whose name each decision stands under.         *)
(*                                                                         *)
(* The decisions are never edited: RecordDecision appends one, and whether *)
(* it is active, superseded or stale is recomputed against the drafts of   *)
(* the moment.  Invariants over active decisions are therefore not         *)
(* inductive, and each section first states what the whole list keeps.     *)
(***************************************************************************)
EXTENDS AuditFlowProofs

---------------------------------------------------------------------------
(* Gate 2 and the evidence.                                                *)

\* An audit that has begun names its preparer in its trail.
PreparerIsOnTheTrail ==
    status # WaitingForScope =>
        \E i \in DOMAIN approval_trail :
            approval_trail[i].action = "audit_created" /\ approval_trail[i].human = prepared_by

\* Every step keeps PreparerIsOnTheTrail.
LEMMA PreparerStays ==
    ASSUME IInv, PreparerIsOnTheTrail, [Next]_vars
    PROVE  PreparerIsOnTheTrail'
<1>0. TypeOK /\ approval_trail \in Seq(EntryType)
    BY DEF IInv, TypeOK
<1>1. ASSUME NEW h \in Names, CreateAudit(h) PROVE PreparerIsOnTheTrail'
    <2> DEFINE e == Entry("audit_created", 0, h)
    <2>1. e.action = "audit_created" /\ e.human = h
        BY DEF Entry
    <2>2. approval_trail' = Append(approval_trail, e) /\ prepared_by' = h
        BY <1>1 DEF CreateAudit, Stamp
    <2> HIDE DEF e
    <2> QED
        BY <1>0, <2>1, <2>2 DEF PreparerIsOnTheTrail
<1>2. ASSUME prepared_by' = prepared_by, ~ \E h \in Names : CreateAudit(h)
      PROVE  PreparerIsOnTheTrail'
    <2>1. status' # WaitingForScope => status # WaitingForScope
        BY <1>2, StatusesDiffer
           DEF Next, PhaseThread, Human, Vault, vars, StartRun, RunAborts, AttemptRejected, RunFails,
           RunRejected, RunApproved, ApproveGate, RetryPhase, ReturnForRework, OverrideQA,
           RecordDecision, LoseEvidence, RestoreEvidence, ErrorPhase, RejectPhase,
           CompletePhase, PassGate, ReopenPhase, ReturnPhase, OverridePhase, Transition, Can
    <2>2. \A i \in DOMAIN approval_trail :
            i \in DOMAIN approval_trail' /\ approval_trail'[i] = approval_trail[i]
        <3>1. CASE approval_trail' = approval_trail
            BY <3>1
        <3>2. ASSUME NEW entry \in EntryType, Stamp(entry)
              PROVE  \A i \in DOMAIN approval_trail :
                        i \in DOMAIN approval_trail' /\ approval_trail'[i] = approval_trail[i]
            BY <1>0, <3>2, StampAppends
        <3> QED
            BY <3>1, <3>2, EveryStep DEF IInv, Quiet, StampsOther, StampsApproval
    <2> QED
        BY <1>2, <2>1, <2>2 DEF PreparerIsOnTheTrail
<1>3. (\E h \in Names : CreateAudit(h)) \/ prepared_by' = prepared_by
    BY DEF Next, PhaseThread, Human, Vault, vars, StartRun, RunAborts, AttemptRejected, RunFails,
       RunRejected, RunApproved, ApproveGate, RetryPhase, ReturnForRework, OverrideQA,
       RecordDecision, LoseEvidence, RestoreEvidence
<1> QED
    BY <1>1, <1>2, <1>3

\* A gate is approved by its approval and by nothing else.
LEMMA OnlyApprovalApproves ==
    ASSUME IInv, [Next]_vars, NEW g \in Phases, ~ Approved(g), Approved(g)'
    PROVE  \E h \in Names : ApproveGate(g, h)
<1>1. TypeOK
    BY DEF IInv
<1>2. ASSUME Quiet PROVE FALSE
    BY <1>2 DEF Quiet, Approved, Approvals
<1>3. PICK h \in Names : Human(h)
    BY <1>1, <1>2, PhaseThreadQuiet, VaultStep, StutteringStep DEF IInv, Next
<1>4. ASSUME NEW entry, approval_trail' = Append(approval_trail, entry)
      PROVE  IsApproval(entry, g)
    <2>1. PICK i \in DOMAIN approval_trail' : IsApproval(approval_trail'[i], g)
        BY DEF Approved, Approvals
    <2>2. i = Len(approval_trail) + 1 /\ approval_trail'[i] = entry
        BY <1>1, <1>4, <2>1 DEF TypeOK, Approved, Approvals
    <2> QED
        BY <2>1, <2>2
<1>5. PICK q \in Phases : ApproveGate(q, h)
    BY <1>3, <1>4, HumanEntries DEF IsApproval
<1>6. q = g
    <2> DEFINE e == [Entry("gate_approval", q, h) EXCEPT
                        !.digest = artifact[q],
                        !.run = LatestRun(q),
                        !.sealed = IF q = 1 THEN {} ELSE PhaseDecisions(q)]
    <2>1. e.phase = q
        BY DEF Entry
    <2>2. approval_trail' = Append(approval_trail, e)
        BY <1>5 DEF ApproveGate, Stamp
    <2> HIDE DEF e
    <2> QED
        BY <1>4, <2>1, <2>2 DEF IsApproval
<1> QED
    BY <1>5, <1>6

\* The approval of Gate 2 goes through over an unverified quote only if somebody other
\* than the preparer overrode the QA rejection of this draft and named the quote:
\* _check_evidence_for_gate_2 asks _accepted_unverified, which reads the overrides in the
\* trail.
LEMMA EvidenceStep ==
    ASSUME IInv, PreparerIsOnTheTrail, [Next]_vars, ~ Approved(2), Approved(2)',
           NEW c \in Unverified(artifact[2])
    PROVE  \E i \in DOMAIN approval_trail :
                LET e == approval_trail[i]
                IN  /\ e.action = "qa_override" /\ e.phase = 2
                    /\ e.digest = artifact[2]
                    /\ c \in e.unverified
                    /\ ~ SamePerson(e.human, prepared_by)
<1> DEFINE overrides == {i \in DOMAIN approval_trail :
                            /\ approval_trail[i].action = "qa_override"
                            /\ approval_trail[i].phase = 2
                            /\ approval_trail[i].digest = artifact[2]}
<1>1. PICK h \in Names : ApproveGate(2, h)
    BY OnlyApprovalApproves DEF Phases
<1>2. c \in AcceptedUnverified(artifact[2]) /\ status = Gate(2)
    BY <1>1 DEF ApproveGate, EvidenceAccepted, Can
<1>3. overrides # {} /\ c \in approval_trail[Max(overrides)].unverified
    BY <1>2 DEF AcceptedUnverified
<1>4. Len(approval_trail) \in Nat /\ overrides \in SUBSET (1..Len(approval_trail))
    BY LenProperties DEF IInv, TypeOK
<1>5. Max(overrides) \in overrides
    BY <1>3, <1>4, MaxOfIndices
<1>6. PICK i \in DOMAIN approval_trail :
        approval_trail[i].action = "audit_created" /\ approval_trail[i].human = prepared_by
    BY <1>2, StatusesDiffer DEF PreparerIsOnTheTrail
<1>7. ASSUME NEW j \in overrides PROVE ~ SamePerson(approval_trail[j].human, prepared_by)
    BY <1>6 DEF IInv, SegregationOfDuties, SamePerson, PreparerExcludedActions
<1> QED
    BY <1>3, <1>5, <1>7

\* Gate 2 is never approved over evidence that was neither verified nor accepted, even
\* when the vault loses an item between the override and the approval.
THEOREM EvidenceIsAccepted == Spec => UnverifiedEvidenceWasAccepted
<1>1. Init => PreparerIsOnTheTrail
    BY DEF Init, PreparerIsOnTheTrail
<1>2. IInv /\ PreparerIsOnTheTrail /\ [Next]_vars => PreparerIsOnTheTrail'
    BY PreparerStays
<1>3. IInv /\ PreparerIsOnTheTrail /\ [Next]_vars =>
        [~ Approved(2) /\ Approved(2)' =>
            \A c \in Unverified(artifact[2]) :
                \E i \in DOMAIN approval_trail :
                    LET e == approval_trail[i]
                    IN  /\ e.action = "qa_override" /\ e.phase = 2
                        /\ e.digest = artifact[2]
                        /\ c \in e.unverified
                        /\ ~ SamePerson(e.human, prepared_by)]_vars
    BY EvidenceStep
<1> QED
    BY <1>1, <1>2, <1>3, IInvIsInvariant, PTL DEF Spec, UnverifiedEvidenceWasAccepted

---------------------------------------------------------------------------
(* The list of decisions.                                                  *)

\* Types that share a slot share their draft and their gate.
LEMMA SlotsHaveOneDraft ==
    ASSUME NEW s \in DecisionTypes, NEW t \in DecisionTypes, SlotOf(s) = SlotOf(t)
    PROVE  /\ \A ctx : DraftFor(ctx, s) = DraftFor(ctx, t)
           /\ PhaseForType(s) = PhaseForType(t)
           /\ s \in {"sign_off", "challenge"} <=> t \in {"sign_off", "challenge"}
    BY DEF DecisionTypes, SlotOf, DraftFor, SubjectKind, PhaseForType

\* The decisions of an audit change by one decision more and in no other way.
LEMMA DecisionsChange ==
    ASSUME [Next]_vars
    PROVE  \/ review_decisions' = review_decisions
           \/ \E h \in Names : \E d \in Requests(h) : RecordDecision(d)
    BY DEF Next, PhaseThread, Human, Vault, vars, StartRun, RunAborts, AttemptRejected, RunFails,
       RunRejected, RunApproved, CreateAudit, ApproveGate, RetryPhase, ReturnForRework, OverrideQA,
       LoseEvidence, RestoreEvidence

\* A decision that is recorded is the last of the list, and was accepted.
LEMMA DecisionRecorded ==
    ASSUME TypeOK, NEW h \in Names, NEW d \in Requests(h), RecordDecision(d)
    PROVE  LET n == Len(review_decisions) + 1
           IN  /\ n \in Nat
               /\ DOMAIN review_decisions = 1..(n - 1)
               /\ DOMAIN review_decisions' = 1..n
               /\ \A i \in 1..(n - 1) : /\ review_decisions'[i] = review_decisions[i]
                                        /\ review_decisions[i] \in DecisionType
               /\ review_decisions'[n] = d
               /\ d \in DecisionType
               /\ Context' = Context
               /\ status' = status
               /\ DecisionAccepted(Context, Preparers, review_decisions, d)
               /\ d.draft = DraftFor(Context, d.type)
               /\ d.values \in ValuesFor(d.type)
<1>1. d \in DecisionType /\ review_decisions \in Seq(DecisionType)
    BY RequestsHaveType DEF RecordDecision, DecisionAccepted, TypeOK
<1>2. d.draft = DraftFor(Context, d.type) /\ d.values \in ValuesFor(d.type)
    <2>1. PICK t \in RequestTypes :
            d \in [type : {t}, subject : SubjectsFor(Context, t), draft : {DraftFor(Context, t)},
                   values : ValuesFor(t), by : {h}, supersedes : 0..Len(review_decisions)]
        BY DEF Requests
    <2> QED
        BY <2>1
<1>3. Context' = Context /\ status' = status
        /\ DecisionAccepted(Context, Preparers, review_decisions, d)
        /\ review_decisions' = Append(review_decisions, d)
    BY DEF RecordDecision, Context
<1>4. \A i \in DOMAIN review_decisions : review_decisions[i] \in DecisionType
    BY <1>1, ElementOfSeq
<1> QED
    BY <1>1, <1>2, <1>3, <1>4

\* The decision in force in a slot is one of the slot's active decisions.
LEMMA InForce ==
    ASSUME TypeOK, NEW s, NEW c
    PROVE  LET active == ActiveDecisions(Context, review_decisions, s, c)
               a      == ActiveBySlot(Context, review_decisions, s, c)
           IN  /\ active \in SUBSET (1..Len(review_decisions))
               /\ Len(review_decisions) \in Nat
               /\ active = {} => a = 0
               /\ active # {} => a \in active
<1>1. /\ Len(review_decisions) \in Nat
      /\ ActiveDecisions(Context, review_decisions, s, c) \in SUBSET (1..Len(review_decisions))
    BY LenProperties DEF TypeOK, ActiveDecisions
<1> QED
    BY <1>1, MaxOfIndices DEF ActiveBySlot

---------------------------------------------------------------------------
(* One decision in force.                                                  *)

\* Of two decisions in one slot on one draft, the earlier is superseded.  That only
\* active decisions are told apart is not inductive: a rework may bring back the
\* draft of a decision that is stale now.
SlotsAreChains ==
    \A i, j \in DOMAIN review_decisions :
        LET d == review_decisions[i]
            e == review_decisions[j]
        IN  /\ i < j
            /\ SlotOf(d.type) = SlotOf(e.type)
            /\ d.subject = e.subject
            /\ d.draft = e.draft
            => \E m \in DOMAIN review_decisions : review_decisions[m].supersedes = i

\* Every step keeps SlotsAreChains: a recorded decision names the decision in force in
\* its slot as the one it supersedes.
LEMMA ChainsStep ==
    ASSUME TypeOK, SlotsAreChains, [Next]_vars
    PROVE  SlotsAreChains'
<1>1. ASSUME NEW h \in Names, NEW d \in Requests(h), RecordDecision(d)
      PROVE  SlotsAreChains'
    <2> DEFINE n == Len(review_decisions) + 1
               a == ActiveBySlot(Context, review_decisions, SlotOf(d.type), d.subject)
               active == ActiveDecisions(Context, review_decisions, SlotOf(d.type), d.subject)
    <2>1. /\ n \in Nat
          /\ DOMAIN review_decisions = 1..(n - 1)
          /\ DOMAIN review_decisions' = 1..n
          /\ \A i \in 1..(n - 1) : /\ review_decisions'[i] = review_decisions[i]
                                   /\ review_decisions[i] \in DecisionType
          /\ review_decisions'[n] = d
          /\ d \in DecisionType
          /\ d.draft = DraftFor(Context, d.type)
          /\ d.supersedes = a
        BY <1>1, DecisionRecorded DEF DecisionAccepted, TakesTheSlot
    <2>2. active # {} => a \in active
        BY InForce
    <2> HIDE DEF n, a, active
    <2>3. ASSUME NEW i \in 1..(n - 1),
                 SlotOf(review_decisions[i].type) = SlotOf(d.type),
                 review_decisions[i].subject = d.subject,
                 review_decisions[i].draft = d.draft
          PROVE  \E m \in 1..n : review_decisions'[m].supersedes = i
        <3>1. ASSUME NEW m \in 1..(n - 1), review_decisions[m].supersedes = i
              PROVE  \E k \in 1..n : review_decisions'[k].supersedes = i
            <4>1. m \in 1..n /\ review_decisions'[m] = review_decisions[m]
                BY <2>1
            <4> QED
                BY <3>1, <4>1
        <3>2. ASSUME \A m \in 1..(n - 1) : review_decisions[m].supersedes # i
              PROVE  a = i
            <4>1. review_decisions[i].type \in DecisionTypes /\ d.type \in DecisionTypes
                BY <2>1 DEF DecisionType
            <4>2. DraftFor(Context, review_decisions[i].type) = d.draft
                BY <2>1, <2>3, <4>1, SlotsHaveOneDraft
            <4>3. i \in active
                BY <2>1, <2>3, <3>2, <4>2 DEF active, ActiveDecisions, DecisionState
            <4>4. /\ a \in 1..(n - 1)
                  /\ SlotOf(review_decisions[a].type) = SlotOf(d.type)
                  /\ review_decisions[a].subject = d.subject
                  /\ \A m \in 1..(n - 1) : review_decisions[m].supersedes # a
                  /\ review_decisions[a].draft = DraftFor(Context, review_decisions[a].type)
                BY <2>1, <2>2, <4>3 DEF active, ActiveDecisions, DecisionState
            <4>5. review_decisions[a].type \in DecisionTypes
                BY <2>1, <4>4 DEF DecisionType
            <4>6. review_decisions[a].draft = d.draft
                BY <2>1, <4>1, <4>4, <4>5, SlotsHaveOneDraft
            <4> QED
                BY <2>1, <2>3, <3>2, <4>4, <4>6 DEF SlotsAreChains
        <3>3. n \in 1..n
            BY <2>1
        <3> QED
            BY <2>1, <3>1, <3>2, <3>3
    <2>4. ASSUME NEW i \in 1..n, NEW j \in 1..n, i < j,
                 SlotOf(review_decisions'[i].type) = SlotOf(review_decisions'[j].type),
                 review_decisions'[i].subject = review_decisions'[j].subject,
                 review_decisions'[i].draft = review_decisions'[j].draft
          PROVE  \E m \in 1..n : review_decisions'[m].supersedes = i
        <3>1. i \in 1..(n - 1) /\ review_decisions'[i] = review_decisions[i]
            BY <2>1, <2>4
        <3>2. CASE j = n
            BY <2>1, <2>3, <2>4, <3>1, <3>2
        <3>3. CASE j # n
            <4>1. j \in 1..(n - 1) /\ review_decisions'[j] = review_decisions[j]
                BY <2>1, <3>3
            <4>2. PICK m \in 1..(n - 1) : review_decisions[m].supersedes = i
                BY <2>1, <2>4, <3>1, <4>1 DEF SlotsAreChains
            <4>3. m \in 1..n /\ review_decisions'[m] = review_decisions[m]
                BY <2>1
            <4> QED
                BY <4>2, <4>3
        <3> QED
            BY <3>2, <3>3
    <2> QED
        BY <2>1, <2>4 DEF SlotsAreChains
<1>2. CASE review_decisions' = review_decisions
    BY <1>2 DEF SlotsAreChains
<1> QED
    BY <1>1, <1>2, DecisionsChange

\* No slot (a sign-off or challenge of one control, a response to one finding, ...) has
\* two active decisions, however often the phase is reworked: record_decision supersedes
\* the one in force and decision_states compares drafts.
THEOREM OneDecisionInForce == Spec => []OneActiveDecisionPerSlot
<1>1. Init => SlotsAreChains
    BY DEF Init, SlotsAreChains
<1>2. TypeOK /\ SlotsAreChains /\ [Next]_vars => SlotsAreChains'
    BY ChainsStep
<1>3. TypeOK /\ SlotsAreChains => OneActiveDecisionPerSlot
    <2> SUFFICES ASSUME TypeOK, SlotsAreChains,
                        NEW i \in DOMAIN review_decisions, NEW j \in DOMAIN review_decisions,
                        SlotOf(review_decisions[i].type) = SlotOf(review_decisions[j].type),
                        review_decisions[i].subject = review_decisions[j].subject,
                        DecisionState(Context, review_decisions, i) = "active",
                        DecisionState(Context, review_decisions, j) = "active"
                 PROVE  i = j
        BY DEF OneActiveDecisionPerSlot
    <2>1. /\ Len(review_decisions) \in Nat
          /\ DOMAIN review_decisions = 1..Len(review_decisions)
          /\ \A k \in DOMAIN review_decisions : review_decisions[k] \in DecisionType
        BY LenProperties, ElementOfSeq DEF TypeOK
    <2>2. \A k \in {i, j} : /\ \A m \in DOMAIN review_decisions : review_decisions[m].supersedes # k
                            /\ review_decisions[k].draft = DraftFor(Context, review_decisions[k].type)
                            /\ review_decisions[k].type \in DecisionTypes
        BY <2>1 DEF DecisionState, DecisionType
    <2>3. review_decisions[i].draft = review_decisions[j].draft
        BY <2>2, SlotsHaveOneDraft
    <2>4. ~ (i < j) /\ ~ (j < i)
        BY <2>2, <2>3 DEF SlotsAreChains
    <2> QED
        BY <2>1, <2>4
<1> QED
    BY <1>1, <1>2, <1>3, TypeCorrect, PTL DEF Spec

---------------------------------------------------------------------------
(* What stays decided.                                                     *)

\* An approved gate is one that was passed.
LEMMA ApprovedIsPassed ==
    ASSUME IInv, NEW g \in Phases, Approved(g)
    PROVE  g <= GatesPassed /\ GatesPassed \in 0..3
    BY GatesPassedType DEF IInv, ApprovalsFollowTheStatus

\* A decision supersedes nothing outside its own slot.
LEMMA OtherSlotsStay ==
    ASSUME TypeOK, NEW h \in Names, NEW d \in Requests(h), RecordDecision(d),
           NEW s, s # SlotOf(d.type), NEW c
    PROVE  /\ ActiveDecisions(Context, review_decisions, s, c)'
                = ActiveDecisions(Context, review_decisions, s, c)
           /\ ActiveBySlot(Context, review_decisions, s, c)'
                = ActiveBySlot(Context, review_decisions, s, c)
<1> DEFINE n == Len(review_decisions) + 1
           a == ActiveBySlot(Context, review_decisions, SlotOf(d.type), d.subject)
<1>1. /\ n \in Nat
      /\ DOMAIN review_decisions = 1..(n - 1)
      /\ DOMAIN review_decisions' = 1..n
      /\ \A i \in 1..(n - 1) : review_decisions'[i] = review_decisions[i]
      /\ review_decisions'[n] = d
      /\ Context' = Context
      /\ d.supersedes = a
    BY DecisionRecorded DEF DecisionAccepted, TakesTheSlot
<1>2. \A i \in 1..(n - 1) : SlotOf(review_decisions[i].type) = s => a # i
    BY <1>1, InForce DEF ActiveDecisions
<1> HIDE DEF n, a
<1>3. ASSUME NEW i \in 1..(n - 1), SlotOf(review_decisions[i].type) = s
      PROVE  DecisionState(Context, review_decisions, i)' = DecisionState(Context, review_decisions, i)
    <2>1. (\E j \in 1..n : review_decisions'[j].supersedes = i)
            <=> (\E j \in 1..(n - 1) : review_decisions[j].supersedes = i)
        <3>1. \A j \in 1..n : j \in 1..(n - 1) \/ j = n
            BY <1>1
        <3>2. \A j \in 1..(n - 1) : j \in 1..n
            BY <1>1
        <3>3. d.supersedes # i
            BY <1>1, <1>2, <1>3
        <3> QED
            BY <1>1, <3>1, <3>2, <3>3
    <2>2. review_decisions'[i] = review_decisions[i]
        BY <1>1
    <2> QED
        BY <1>1, <2>1, <2>2 DEF DecisionState
<1>4. ASSUME NEW i \in 1..n
      PROVE  /\ SlotOf(review_decisions'[i].type) = s
             /\ review_decisions'[i].subject = c
             /\ DecisionState(Context, review_decisions, i)' = "active"
             <=> i \in ActiveDecisions(Context, review_decisions, s, c)
    <2>1. CASE i = n
        BY <1>1, <2>1 DEF ActiveDecisions
    <2>2. CASE i # n
        <3>1. i \in 1..(n - 1) /\ review_decisions'[i] = review_decisions[i]
            BY <1>1, <2>2
        <3> QED
            BY <1>1, <1>3, <3>1 DEF ActiveDecisions
    <2> QED
        BY <2>1, <2>2
<1>5. \A i \in ActiveDecisions(Context, review_decisions, s, c) : i \in 1..n
    BY <1>1 DEF ActiveDecisions
<1>6. ActiveDecisions(Context, review_decisions, s, c)'
        = {i \in 1..n : /\ SlotOf(review_decisions'[i].type) = s
                        /\ review_decisions'[i].subject = c
                        /\ DecisionState(Context, review_decisions, i)' = "active"}
    BY <1>1 DEF ActiveDecisions
<1>7. ActiveDecisions(Context, review_decisions, s, c)'
        = ActiveDecisions(Context, review_decisions, s, c)
    BY <1>4, <1>5, <1>6
<1> QED
    BY <1>7 DEF ActiveBySlot

\* What a gate was approved over is not redrafted.
LEMMA DraftsUnderGatesStay ==
    ASSUME IInv, [Next]_vars
    PROVE  \A g \in Phases : g <= GatesPassed => artifact'[g] = artifact[g]
    BY EveryStep DEF IInv, Quiet, StampsOther, StampsApproval

\* Once Gate 2 is passed, the reviews of the findings stay what they are.
LEMMA FindingReviewsStay ==
    ASSUME IInv, [Next]_vars, GatesPassed >= 2
    PROVE  \A c : /\ ActiveBySlot(Context, review_decisions, "finding_review", c)'
                        = ActiveBySlot(Context, review_decisions, "finding_review", c)
                  /\ EffectiveConclusions(Context, review_decisions, c)'
                        = EffectiveConclusions(Context, review_decisions, c)
<1>1. TypeOK
    BY DEF IInv
<1>2. Context'.papers = Context.papers
    <2>1. GatesPassed \in 0..3
        BY <1>1, GatesPassedType
    <2> QED
        BY <2>1, DraftsUnderGatesStay DEF Context, Phases
<1>3. ASSUME NEW c
      PROVE  /\ ActiveBySlot(Context, review_decisions, "finding_review", c)'
                    = ActiveBySlot(Context, review_decisions, "finding_review", c)
             /\ ActiveBySlot(Context, review_decisions, "finding_review", c) # 0 =>
                    /\ ActiveBySlot(Context, review_decisions, "finding_review", c)
                            \in DOMAIN review_decisions
                    /\ review_decisions'[ActiveBySlot(Context, review_decisions, "finding_review", c)]
                        = review_decisions[ActiveBySlot(Context, review_decisions, "finding_review", c)]
    <2>1. ASSUME NEW h \in Names, NEW d \in Requests(h), RecordDecision(d)
          PROVE  /\ ActiveBySlot(Context, review_decisions, "finding_review", c)'
                        = ActiveBySlot(Context, review_decisions, "finding_review", c)
                 /\ \A i \in DOMAIN review_decisions :
                        review_decisions'[i] = review_decisions[i]
        <3>1. /\ d \in DecisionType
              /\ status \in RecordableStatuses(d.type)
              /\ \A i \in DOMAIN review_decisions : review_decisions'[i] = review_decisions[i]
            BY <1>1, <2>1, DecisionRecorded DEF DecisionAccepted
        <3>2. status # Gate(2)
            BY DEF GatesPassed, Gate, Completed, WaitingForScope
        <3>3. SlotOf(d.type) # "finding_review"
            BY <3>1, <3>2 DEF RecordableStatuses, SlotOf, DecisionType, DecisionTypes
        <3> QED
            BY <1>1, <2>1, <3>1, <3>3, OtherSlotsStay
    <2>2. ASSUME review_decisions' = review_decisions
          PROVE  /\ ActiveBySlot(Context, review_decisions, "finding_review", c)'
                        = ActiveBySlot(Context, review_decisions, "finding_review", c)
                 /\ \A i \in DOMAIN review_decisions :
                        review_decisions'[i] = review_decisions[i]
        <3>1. \A i \in DOMAIN review_decisions :
                SlotOf(review_decisions[i].type) = "finding_review" =>
                    DraftFor(Context, review_decisions[i].type)'
                        = DraftFor(Context, review_decisions[i].type)
            <4>1. \A i \in DOMAIN review_decisions : review_decisions[i].type \in DecisionTypes
                <5>1. \A i \in DOMAIN review_decisions : review_decisions[i] \in DecisionType
                    BY <1>1, ElementOfSeq, LenProperties DEF TypeOK
                <5> QED
                    BY <5>1 DEF DecisionType
            <4> QED
                BY <1>2, <2>2, <4>1 DEF DecisionTypes, SlotOf, DraftFor, SubjectKind
        <3>2. ActiveDecisions(Context, review_decisions, "finding_review", c)'
                = ActiveDecisions(Context, review_decisions, "finding_review", c)
            BY <2>2, <3>1 DEF ActiveDecisions, DecisionState
        <3>3. ActiveBySlot(Context, review_decisions, "finding_review", c)'
                = ActiveBySlot(Context, review_decisions, "finding_review", c)
            BY <3>2 DEF ActiveBySlot
        <3> QED
            BY <2>2, <3>3
    <2>3. ActiveBySlot(Context, review_decisions, "finding_review", c) # 0 =>
            ActiveBySlot(Context, review_decisions, "finding_review", c) \in DOMAIN review_decisions
        BY <1>1, InForce DEF ActiveDecisions
    <2> QED
        BY <2>1, <2>2, <2>3, DecisionsChange
<1>4. ASSUME NEW c
      PROVE  EffectiveConclusions(Context, review_decisions, c)'
                = EffectiveConclusions(Context, review_decisions, c)
    <2>1. FindingOn(Context.papers, c)' = FindingOn(Context.papers, c)
        BY <1>2 DEF FindingOn
    <2> QED
        BY <1>3, <2>1 DEF EffectiveConclusions
<1> QED
    BY <1>3, <1>4

\* After Gate 2 no challenge, sign-off or classification changes a conclusion of record:
\* decision_status_violation closes with the approval and the draft is never replaced.
THEOREM ConclusionsAreFrozen == Spec => ConclusionsOfRecordAreFrozen
<1>1. IInv /\ [Next]_vars =>
        [Approved(2) =>
            \A c \in SubjectsFor(Context, "sign_off") :
                EffectiveConclusions(Context, review_decisions, c)
                    = EffectiveConclusions(Context, review_decisions, c)']_vars
    <2>1. IInv /\ Approved(2) => GatesPassed >= 2
        BY ApprovedIsPassed DEF Phases
    <2> QED
        BY <2>1, FindingReviewsStay
<1> QED
    BY <1>1, IInvIsInvariant, PTL DEF Spec, ConclusionsOfRecordAreFrozen

\* With all gates passed the audit is complete.
LEMMA AllPassedIsCompleted == TypeOK /\ GatesPassed >= 3 => status = Completed
    BY DEF TypeOK, GatesPassed, Statuses, WaitingForScope, Completed, Running, Gate,
       QARejected, Error, Phases

\* After Gate 3 no draft changes, and only responses and verifications are recorded.
LEMMA ReportDecisionsStay ==
    ASSUME IInv, [Next]_vars, GatesPassed >= 3
    PROVE  /\ Context' = Context
           /\ \A s \in {"finding_review", "classify", "scope_limitation",
                        "engagement_conclusion"} :
                \A c : ActiveBySlot(Context, review_decisions, s, c)'
                            = ActiveBySlot(Context, review_decisions, s, c)
<1>1. TypeOK /\ GatesPassed = 3 /\ status = Completed
    BY AllPassedIsCompleted, GatesPassedType DEF IInv
<1>2. Context' = Context
    BY <1>1, DraftsUnderGatesStay DEF Context, Phases
<1>3. ASSUME NEW h \in Names, NEW d \in Requests(h), RecordDecision(d)
      PROVE  SlotOf(d.type) \notin {"finding_review", "classify", "scope_limitation",
                                    "engagement_conclusion"}
    <2>1. d \in DecisionType /\ status \in RecordableStatuses(d.type)
        BY <1>1, <1>3, DecisionRecorded DEF DecisionAccepted
    <2>2. status # Gate(2) /\ status # Gate(3)
        BY <1>1, StatusesDiffer
    <2> QED
        BY <2>1, <2>2 DEF RecordableStatuses, SlotOf, DecisionType, DecisionTypes
<1>4. ASSUME NEW s \in {"finding_review", "classify", "scope_limitation",
                        "engagement_conclusion"}, NEW c
      PROVE  ActiveBySlot(Context, review_decisions, s, c)'
                = ActiveBySlot(Context, review_decisions, s, c)
    <2>1. CASE review_decisions' = review_decisions
        <3>1. ActiveDecisions(Context, review_decisions, s, c)'
                = ActiveDecisions(Context, review_decisions, s, c)
            BY <1>2, <2>1 DEF ActiveDecisions, DecisionState
        <3> QED
            BY <3>1 DEF ActiveBySlot
    <2> QED
        BY <1>1, <1>3, <2>1, DecisionsChange, OtherSlotsStay
<1> QED
    BY <1>2, <1>4

\* Every step keeps ApprovedGatesStayReviewed.
LEMMA ReviewedStep ==
    ASSUME IInv, ApprovedGatesStayReviewed, [Next]_vars
    PROVE  ApprovedGatesStayReviewed'
<1> SUFFICES ASSUME ReviewDecisionsRequired, NEW g \in {2, 3}, Approved(g)'
             PROVE  MissingForGate(Context, review_decisions, g)' = {}
    BY DEF ApprovedGatesStayReviewed
<1>1. CASE ~ Approved(g)
    <2>1. PICK h \in Names : ApproveGate(g, h)
        BY <1>1, OnlyApprovalApproves DEF Phases
    <2>2. MissingForGate(Context, review_decisions, g) = {}
        BY <2>1 DEF ApproveGate, ReviewComplete
    <2>3. Context' = Context /\ review_decisions' = review_decisions
        BY <2>1 DEF ApproveGate, Context
    <2>4. \A s, c : ActiveBySlot(Context, review_decisions, s, c)'
                        = ActiveBySlot(Context, review_decisions, s, c)
        <3>1. \A s, c : ActiveDecisions(Context, review_decisions, s, c)'
                            = ActiveDecisions(Context, review_decisions, s, c)
            BY <2>3 DEF ActiveDecisions, DecisionState
        <3> QED
            BY <3>1 DEF ActiveBySlot
    <2>5. \A c : EffectiveResult(Context, review_decisions, c)'
                    = EffectiveResult(Context, review_decisions, c)
        BY <2>3, <2>4 DEF EffectiveResult, EffectiveConclusions
    <2> HIDE DEF Context
    <2> QED
        BY <2>2, <2>3, <2>4, <2>5 DEF MissingForGate, MissingForGate2, MissingForGate3
<1>2. CASE Approved(g) /\ g = 2
    <2>1. GatesPassed >= 2 /\ GatesPassed \in 0..3
        BY <1>2, ApprovedIsPassed DEF Phases
    <2>2. Context'.plan = Context.plan /\ Context'.papers = Context.papers
        BY <2>1, DraftsUnderGatesStay DEF Context, Phases
    <2>3. SubjectsFor(Context, "sign_off")' = SubjectsFor(Context, "sign_off")
        BY <2>2 DEF SubjectsFor, SubjectKind, DraftFor
    <2>4. /\ \A c : IsKey(Context, c)' <=> IsKey(Context, c)
          /\ \A c : FindingOn(Context.papers, c)' = FindingOn(Context.papers, c)
        BY <2>2 DEF IsKey, FindingOn
    <2>5. MissingForGate2(Context, review_decisions) = {}
        BY <1>2 DEF ApprovedGatesStayReviewed, MissingForGate
    <2>6. MissingForGate2(Context, review_decisions)' = MissingForGate2(Context, review_decisions)
        <3>1. \A c : ActiveBySlot(Context, review_decisions, "finding_review", c)'
                        = ActiveBySlot(Context, review_decisions, "finding_review", c)
            BY <2>1, FindingReviewsStay
        <3>2. \A c : FindingNeedsReview(DraftResult(FindingOn(Context.papers, c)), IsKey(Context, c))'
                    <=> FindingNeedsReview(DraftResult(FindingOn(Context.papers, c)),
                                           IsKey(Context, c))
            BY <2>4 DEF FindingNeedsReview, DraftResult
        <3> QED
            BY <2>3, <3>1, <3>2 DEF MissingForGate2
    <2> QED
        BY <1>2, <2>5, <2>6 DEF MissingForGate
<1>3. CASE Approved(g) /\ g = 3
    <2>1. GatesPassed >= 3 /\ GatesPassed >= 2
        BY <1>3, ApprovedIsPassed DEF Phases
    <2>2. /\ Context' = Context
          /\ \A s \in {"finding_review", "classify", "scope_limitation",
                       "engagement_conclusion"} :
               \A c : ActiveBySlot(Context, review_decisions, s, c)'
                           = ActiveBySlot(Context, review_decisions, s, c)
          /\ \A c : EffectiveResult(Context, review_decisions, c)'
                      = EffectiveResult(Context, review_decisions, c)
        BY <2>1, ReportDecisionsStay, FindingReviewsStay DEF EffectiveResult
    <2>3. MissingForGate3(Context, review_decisions) = {}
        BY <1>3 DEF ApprovedGatesStayReviewed, MissingForGate
    <2>4. MissingForGate3(Context, review_decisions)' = MissingForGate3(Context, review_decisions)
        BY <2>2 DEF MissingForGate3
    <2> QED
        BY <1>3, <2>3, <2>4 DEF MissingForGate
<1> QED
    BY <1>1, <1>2, <1>3

\* What a gate required at its approval stays recorded and active ever after: nothing
\* recorded later, at Gate 3 or after completion, supersedes it or makes it stale.
THEOREM ReviewsHold == Spec => []ApprovedGatesStayReviewed
<1>1. Init => ApprovedGatesStayReviewed
    BY DEF Init, ApprovedGatesStayReviewed, Approved, Approvals
<1>2. IInv /\ ApprovedGatesStayReviewed /\ [Next]_vars => ApprovedGatesStayReviewed'
    BY ReviewedStep
<1> QED
    BY <1>1, <1>2, IInvIsInvariant, PTL DEF Spec

---------------------------------------------------------------------------
(* What the decisions may say.                                             *)

\* A sign-off carries no values, and a challenge only changes that may be made to the
\* conclusions of the draft it is about.
DecisionsFit ==
    \A i \in DOMAIN review_decisions :
        LET d == review_decisions[i]
            f == FindingOn(d.draft, d.subject)
            draft == [tod |-> f.tod, toe |-> f.toe]
        IN  /\ d.type = "sign_off" => d.values = <<>>
            /\ d.type = "challenge" =>
                \A k \in DOMAIN d.values :
                    k \in {"tod", "toe"} /\ ConclusionChangeAllowed(draft[k], d.values[k])

\* Every step keeps DecisionsFit, which is build_decision's check at the moment of
\* recording, kept for the draft the decision was recorded about.
LEMMA FitStep ==
    ASSUME TypeOK, DecisionsFit, [Next]_vars
    PROVE  DecisionsFit'
<1>1. ASSUME NEW h \in Names, NEW d \in Requests(h), RecordDecision(d)
      PROVE  DecisionsFit'
    <2> DEFINE n == Len(review_decisions) + 1
    <2>1. /\ n \in Nat
          /\ DOMAIN review_decisions = 1..(n - 1)
          /\ DOMAIN review_decisions' = 1..n
          /\ \A i \in 1..(n - 1) : review_decisions'[i] = review_decisions[i]
          /\ review_decisions'[n] = d
          /\ d.draft = DraftFor(Context, d.type)
          /\ d.values \in ValuesFor(d.type)
          /\ ValuesFit(Context, review_decisions, d)
        BY <1>1, DecisionRecorded DEF DecisionAccepted
    <2> HIDE DEF n
    <2>2. d.type = "sign_off" => d.values = <<>>
        BY <2>1 DEF ValuesFor
    <2>3. ASSUME d.type = "challenge"
          PROVE  /\ DOMAIN d.values \subseteq {"tod", "toe"}
                 /\ d.draft = Context.papers
        <3>1. d.values \in SubsetFunctions({"tod", "toe"}, OperatingConclusions)
            BY <2>1, <2>3 DEF ValuesFor
        <3>2. d.draft = Context.papers
            BY <2>1, <2>3 DEF DraftFor, SubjectKind
        <3> QED
            BY <3>1, <3>2 DEF SubsetFunctions
    <2>4. ASSUME NEW i \in 1..n
          PROVE  LET e == review_decisions'[i]
                     f == FindingOn(e.draft, e.subject)
                     draft == [tod |-> f.tod, toe |-> f.toe]
                 IN  /\ e.type = "sign_off" => e.values = <<>>
                     /\ e.type = "challenge" =>
                         \A k \in DOMAIN e.values :
                             k \in {"tod", "toe"} /\ ConclusionChangeAllowed(draft[k], e.values[k])
        <3>1. CASE i = n
            BY <2>1, <2>2, <2>3, <3>1 DEF ValuesFit
        <3>2. CASE i # n
            <4>1. i \in 1..(n - 1) /\ review_decisions'[i] = review_decisions[i]
                BY <2>1, <3>2
            <4> QED
                BY <2>1, <4>1 DEF DecisionsFit
        <3> QED
            BY <3>1, <3>2
    <2> QED
        BY <2>1, <2>4 DEF DecisionsFit
<1>2. CASE review_decisions' = review_decisions
    BY <1>2 DEF DecisionsFit
<1> QED
    BY <1>1, <1>2, DecisionsChange

\* A result of record is the crew's, or has been lowered from no exception to not
\* tested.
LEMMA NothingIsWithdrawn ==
    ASSUME TypeOK, DecisionsFit, NEW c
    PROVE  LET draft  == DraftResult(FindingOn(artifact[2], c))
               result == EffectiveResult(Context, review_decisions, c)
           IN  result = draft \/ (draft = "No exception" /\ result = "Not tested")
<1> DEFINE f       == FindingOn(artifact[2], c)
           review  == ActiveBySlot(Context, review_decisions, "finding_review", c)
           changed == IF review = 0 THEN <<>> ELSE review_decisions[review].values
           tod     == IF "tod" \in DOMAIN changed THEN changed.tod ELSE f.tod
           toe     == IF "toe" \in DOMAIN changed THEN changed.toe ELSE f.toe
<1>1. EffectiveResult(Context, review_decisions, c) = DeriveResult(tod, toe, f.exceptions)
    BY DEF EffectiveResult, EffectiveConclusions, Context
<1>2. CASE review = 0
    <2>1. changed = <<>> /\ DOMAIN <<>> = {}
        BY <1>2
    <2> HIDE DEF changed
    <2>2. tod = f.tod /\ toe = f.toe
        BY <2>1
    <2> QED
        BY <1>1, <2>2 DEF DraftResult
<1>3. CASE review # 0
    <2>1. review \in ActiveDecisions(Context, review_decisions, "finding_review", c)
        BY <1>3, InForce
    <2>2. /\ review \in DOMAIN review_decisions
          /\ SlotOf(review_decisions[review].type) = "finding_review"
          /\ review_decisions[review].subject = c
          /\ review_decisions[review].draft = DraftFor(Context, review_decisions[review].type)
          /\ review_decisions[review].type \in DecisionTypes
        <3>1. \A i \in DOMAIN review_decisions : review_decisions[i] \in DecisionType
            BY ElementOfSeq, LenProperties DEF TypeOK
        <3> QED
            BY <2>1, <3>1 DEF ActiveDecisions, DecisionState, DecisionType
    <2> HIDE DEF review
    <2>3. /\ review_decisions[review].type \in {"sign_off", "challenge"}
          /\ review_decisions[review].draft = artifact[2]
        BY <2>2 DEF SlotOf, DraftFor, SubjectKind, DecisionTypes, Context
    <2>4. /\ review_decisions[review].type = "sign_off" => changed = <<>>
          /\ review_decisions[review].type = "challenge" =>
                \A k \in DOMAIN changed :
                    ConclusionChangeAllowed([tod |-> f.tod, toe |-> f.toe][k], changed[k])
        BY <1>3, <2>2, <2>3 DEF DecisionsFit
    <2> HIDE DEF f, changed
    <2>5. DOMAIN <<>> = {}
        OBVIOUS
    <2>6. /\ tod = f.tod \/ (tod = "Not tested" /\ f.tod = "Effective")
          /\ toe = f.toe \/ (toe = "Not tested" /\ f.toe = "Effective")
        BY <2>3, <2>4, <2>5 DEF ConclusionChangeAllowed
    <2> HIDE DEF tod, toe
    <2> QED
        BY <1>1, <2>6 DEF DraftResult, DeriveResult, f
<1> QED
    BY <1>2, <1>3

\* No chain of challenges turns an exception of the crew's into anything else: the rule
\* of conclusion_change_allowed holds of the composed result, not only of one decision.
THEOREM ExceptionsStay == Spec => []ExceptionsAreNeverWithdrawn
<1>1. Init => DecisionsFit
    BY DEF Init, DecisionsFit
<1>2. TypeOK /\ DecisionsFit /\ [Next]_vars => DecisionsFit'
    BY FitStep
<1>3. TypeOK /\ DecisionsFit => ExceptionsAreNeverWithdrawn
    BY NothingIsWithdrawn DEF ExceptionsAreNeverWithdrawn
<1> QED
    BY <1>1, <1>2, <1>3, TypeCorrect, PTL DEF Spec

---------------------------------------------------------------------------
(* Scope limitations.                                                      *)

\* Scope limitations are recorded after Gate 2, about controls that stay untested of
\* record.
LimitationsAreUntested ==
    \A i \in DOMAIN review_decisions :
        review_decisions[i].type = "scope_limitation" =>
            /\ GatesPassed >= 2
            /\ EffectiveResult(Context, review_decisions, review_decisions[i].subject)
                    = "Not tested"

\* Every step keeps LimitationsAreUntested: after Gate 2 conclusions are frozen, and a
\* limitation is accepted only about a control that is untested then.
LEMMA LimitationsStep ==
    ASSUME IInv, LimitationsAreUntested, [Next]_vars
    PROVE  LimitationsAreUntested'
<1>1. TypeOK /\ GatesPassed \in 0..3 /\ GatesPassed' \in 0..3 /\ GatesPassed' >= GatesPassed
    BY GatesOnlyPass DEF IInv
<1>2. ASSUME GatesPassed >= 2
      PROVE  \A c : EffectiveResult(Context, review_decisions, c)'
                        = EffectiveResult(Context, review_decisions, c)
    BY <1>2, FindingReviewsStay DEF EffectiveResult
<1>3. ASSUME NEW h \in Names, NEW d \in Requests(h), RecordDecision(d)
      PROVE  LimitationsAreUntested'
    <2> DEFINE n == Len(review_decisions) + 1
    <2>1. /\ n \in Nat
          /\ DOMAIN review_decisions = 1..(n - 1)
          /\ DOMAIN review_decisions' = 1..n
          /\ \A i \in 1..(n - 1) : review_decisions'[i] = review_decisions[i]
          /\ review_decisions'[n] = d
          /\ status \in RecordableStatuses(d.type)
          /\ ValuesFit(Context, review_decisions, d)
        BY <1>1, <1>3, DecisionRecorded DEF DecisionAccepted
    <2> HIDE DEF n
    <2>2. ASSUME d.type = "scope_limitation"
          PROVE  GatesPassed >= 2 /\ EffectiveResult(Context, review_decisions, d.subject) = "Not tested"
        <3>1. status = Gate(3)
            BY <2>1, <2>2 DEF RecordableStatuses
        <3>2. GatesPassed = 2
            BY <3>1 DEF GatesPassed, Gate, Completed, WaitingForScope
        <3>3. EffectiveResult(Context, review_decisions, d.subject) = "Not tested"
            BY <2>1, <2>2 DEF ValuesFit
        <3>4. GatesPassed >= 2
            BY <1>1, <3>2
        <3> QED
            BY <3>3, <3>4
    <2>3. ASSUME NEW i \in 1..n, review_decisions'[i].type = "scope_limitation"
          PROVE  /\ GatesPassed' >= 2
                 /\ EffectiveResult(Context, review_decisions, review_decisions[i].subject)'
                        = "Not tested"
        <3>1. /\ GatesPassed >= 2
              /\ EffectiveResult(Context, review_decisions, review_decisions'[i].subject)
                    = "Not tested"
            <4>1. CASE i = n
                BY <2>1, <2>2, <2>3, <4>1
            <4>2. CASE i # n
                <5>1. i \in 1..(n - 1) /\ review_decisions'[i] = review_decisions[i]
                    BY <2>1, <4>2
                <5> QED
                    BY <2>1, <2>3, <5>1 DEF LimitationsAreUntested
            <4> QED
                BY <4>1, <4>2
        <3>2. PICK c : c = review_decisions'[i].subject
            OBVIOUS
        <3>3. EffectiveResult(Context, review_decisions, c)' = "Not tested"
            BY <1>2, <3>1, <3>2
        <3>4. GatesPassed >= 2
            BY <3>1
        <3>5. GatesPassed' >= 2
            BY <1>1, <3>4
        <3> QED
            BY <3>2, <3>3, <3>5
    <2> QED
        BY <2>1, <2>3 DEF LimitationsAreUntested
<1>4. CASE review_decisions' = review_decisions
    <2>1. ASSUME NEW i \in DOMAIN review_decisions', review_decisions'[i].type = "scope_limitation"
          PROVE  /\ GatesPassed' >= 2
                 /\ EffectiveResult(Context, review_decisions, review_decisions[i].subject)'
                        = "Not tested"
        <3>1. /\ GatesPassed >= 2
              /\ EffectiveResult(Context, review_decisions, review_decisions'[i].subject)
                    = "Not tested"
            BY <1>4, <2>1 DEF LimitationsAreUntested
        <3>2. PICK c : c = review_decisions'[i].subject
            OBVIOUS
        <3>3. EffectiveResult(Context, review_decisions, c)' = "Not tested"
            BY <1>2, <3>1, <3>2
        <3>4. GatesPassed >= 2
            BY <3>1
        <3>5. GatesPassed' >= 2
            BY <1>1, <3>4
        <3> QED
            BY <3>2, <3>3, <3>5
    <2> QED
        BY <2>1 DEF LimitationsAreUntested
<1> QED
    BY <1>3, <1>4, DecisionsChange

\* No recorded scope limitation is about a control that was tested of record, at the
\* time of the report or later.
THEOREM LimitationsAreTrue == Spec => []ScopeLimitationsAreTrue
<1>1. ASSUME Init PROVE LimitationsAreUntested
    <2>1. DOMAIN review_decisions = {}
        BY <1>1 DEF Init
    <2> QED
        BY <2>1 DEF LimitationsAreUntested
<1>2. IInv /\ LimitationsAreUntested /\ [Next]_vars => LimitationsAreUntested'
    BY LimitationsStep
<1>3. TypeOK /\ LimitationsAreUntested => ScopeLimitationsAreTrue
    <2> SUFFICES ASSUME TypeOK, LimitationsAreUntested, NEW c,
                        ActiveBySlot(Context, review_decisions, "scope_limitation", c) # 0
                 PROVE  EffectiveResult(Context, review_decisions, c) = "Not tested"
        BY DEF ScopeLimitationsAreTrue
    <2>1. PICK i \in ActiveDecisions(Context, review_decisions, "scope_limitation", c) : TRUE
        BY InForce
    <2>2. /\ i \in DOMAIN review_decisions
          /\ SlotOf(review_decisions[i].type) = "scope_limitation"
          /\ review_decisions[i].subject = c
        BY <2>1 DEF ActiveDecisions
    <2>3. review_decisions[i].type = "scope_limitation"
        BY <2>2 DEF SlotOf
    <2> QED
        BY <2>2, <2>3 DEF LimitationsAreUntested
<1>4. IInv => TypeOK
    BY DEF IInv
<1> QED
    BY <1>1, <1>2, <1>3, <1>4, IInvIsInvariant, PTL DEF Spec

---------------------------------------------------------------------------
(* What an approval seals of the decisions.                                *)

\* Every step keeps SealedDecisionsAreComplete: after the approval of a gate the only
\* decisions of its phase still accepted are those about the report's follow-up.
LEMMA SealedStep ==
    ASSUME IInv, IInv', SealedDecisionsAreComplete, [Next]_vars
    PROVE  SealedDecisionsAreComplete'
<1>0. TypeOK
    BY DEF IInv
<1> SUFFICES ASSUME NEW g \in {2, 3}, NEW i \in Approvals(g)',
                    NEW k \in PhaseDecisions(g)', k \notin approval_trail'[i].sealed
             PROVE  g = 3 /\ review_decisions'[k].type \in {"management_response",
                                                           "remediation_verification"}
    BY DEF SealedDecisionsAreComplete
<1>1. ASSUME ~ Approved(g) PROVE FALSE
    <2>1. Approved(g)'
        BY DEF Approved
    <2>2. PICK h \in Names : ApproveGate(g, h)
        BY <1>1, <2>1, OnlyApprovalApproves DEF Phases
    <2> DEFINE e == [Entry("gate_approval", g, h) EXCEPT
                        !.digest = artifact[g],
                        !.run = LatestRun(g),
                        !.sealed = IF g = 1 THEN {} ELSE PhaseDecisions(g)]
    <2>3. approval_trail' = Append(approval_trail, e)
        BY <2>2 DEF ApproveGate, Stamp
    <2>4. e.sealed = PhaseDecisions(g)
        BY DEF Entry
    <2> HIDE DEF e
    <2>5. approval_trail'[i] = e
        BY <1>0, <1>1, <2>3 DEF TypeOK, Approved, Approvals
    <2>6. PhaseDecisions(g)' = PhaseDecisions(g)
        BY <2>2 DEF ApproveGate, PhaseDecisions
    <2> QED
        BY <2>4, <2>5, <2>6
<1>2. ASSUME Approved(g)
      PROVE  i \in Approvals(g) /\ approval_trail'[i] = approval_trail[i]
    <2>1. PICK j \in Approvals(g) : TRUE
        BY <1>2 DEF Approved
    <2>2. j \in DOMAIN approval_trail' /\ approval_trail'[j] = approval_trail[j]
        <3>1. CASE approval_trail' = approval_trail
            BY <2>1, <3>1 DEF Approvals
        <3>2. ASSUME NEW entry \in EntryType, Stamp(entry)
              PROVE  j \in DOMAIN approval_trail' /\ approval_trail'[j] = approval_trail[j]
            BY <1>0, <2>1, <3>2, StampAppends DEF Approvals
        <3> QED
            BY <3>1, <3>2, EveryStep DEF IInv, Quiet, StampsOther, StampsApproval
    <2>3. j \in Approvals(g)'
        BY <2>1, <2>2 DEF Approvals
    <2>4. i = j
        BY <2>3 DEF IInv, ApprovalsFollowTheStatus, Phases
    <2> QED
        BY <2>1, <2>2, <2>4
<1>3. ASSUME Approved(g), review_decisions' = review_decisions
      PROVE  g = 3 /\ review_decisions'[k].type \in {"management_response",
                                                    "remediation_verification"}
    <2>1. k \in PhaseDecisions(g)
        BY <1>3 DEF PhaseDecisions
    <2> QED
        BY <1>2, <1>3, <2>1 DEF SealedDecisionsAreComplete
<1>4. ASSUME Approved(g), NEW h \in Names, NEW d \in Requests(h), RecordDecision(d)
      PROVE  g = 3 /\ review_decisions'[k].type \in {"management_response",
                                                    "remediation_verification"}
    <2> DEFINE n == Len(review_decisions) + 1
    <2>1. /\ n \in Nat
          /\ DOMAIN review_decisions = 1..(n - 1)
          /\ DOMAIN review_decisions' = 1..n
          /\ \A m \in 1..(n - 1) : review_decisions'[m] = review_decisions[m]
          /\ review_decisions'[n] = d
          /\ d \in DecisionType
          /\ status \in RecordableStatuses(d.type)
        BY <1>0, <1>4, DecisionRecorded DEF DecisionAccepted
    <2> HIDE DEF n
    <2>2. k \in 1..n /\ PhaseForType(review_decisions'[k].type) = g
        BY <2>1 DEF PhaseDecisions
    <2>3. CASE k = n
        <3>1. GatesPassed >= g /\ GatesPassed \in 0..3
            BY <1>4, ApprovedIsPassed DEF Phases
        <3>2. status # Gate(2)
            BY <3>1 DEF GatesPassed, Gate, Completed, WaitingForScope
        <3>3. g = 3 => status # Gate(3)
            BY <3>1 DEF GatesPassed, Gate, Completed, WaitingForScope
        <3>4. PhaseForType(d.type) = g
            BY <2>1, <2>2, <2>3
        <3> QED
            BY <2>1, <2>3, <3>2, <3>3, <3>4
               DEF RecordableStatuses, PhaseForType, DecisionType, DecisionTypes
    <2>4. CASE k # n
        <3>1. k \in 1..(n - 1) /\ review_decisions'[k] = review_decisions[k]
            BY <2>1, <2>2, <2>4
        <3>2. k \in PhaseDecisions(g)
            BY <2>1, <2>2, <3>1 DEF PhaseDecisions
        <3> QED
            BY <1>2, <1>4, <3>1, <3>2 DEF SealedDecisionsAreComplete
    <2> QED
        BY <2>3, <2>4
<1> QED
    BY <1>1, <1>3, <1>4, DecisionsChange

\* An approval seals every decision of its phase there ever is, but for the management
\* responses and verifications that are accepted after Gate 3.
THEOREM SealsAreComplete == Spec => []SealedDecisionsAreComplete
<1>1. Init => SealedDecisionsAreComplete
    BY DEF Init, SealedDecisionsAreComplete, Approvals
<1>2. IInv /\ IInv' /\ SealedDecisionsAreComplete /\ [Next]_vars => SealedDecisionsAreComplete'
    BY SealedStep
<1> QED
    BY <1>1, <1>2, IInvIsInvariant, PTL DEF Spec

---------------------------------------------------------------------------
(* Whose the decisions are.                                                *)

\* Nothing is decided on before an audit is created.
DecisionsStartEmpty == status = WaitingForScope => review_decisions = <<>>

\* No decision is accepted before the audit is created.
LEMMA DecisionsStartStep ==
    ASSUME IInv, DecisionsStartEmpty, [Next]_vars
    PROVE  DecisionsStartEmpty'
<1>1. ASSUME NEW h \in Names, NEW d \in Requests(h), RecordDecision(d)
      PROVE  status' # WaitingForScope
    BY <1>1, StatusesDiffer
       DEF RecordDecision, DecisionAccepted, RecordableStatuses
<1>2. status' = WaitingForScope => status = WaitingForScope
    BY EveryStep DEF IInv, Quiet, StampsOther, StampsApproval
<1> QED
    BY <1>1, <1>2, DecisionsChange DEF DecisionsStartEmpty

\* A step that records no decision stamps no decision entry and keeps those there are.
LEMMA OtherStepsKeepDecisions ==
    ASSUME IInv, DecisionsStartEmpty, DecisionsAreTheReviewers, [Next]_vars,
           ~ \E h \in Names : \E d \in Requests(h) : RecordDecision(d)
    PROVE  DecisionsAreTheReviewers'
<1>1. TypeOK /\ review_decisions' = review_decisions
    BY DecisionsChange DEF IInv
<1>2. \/ approval_trail' = approval_trail /\ prepared_by' = prepared_by
      \/ \E h \in Names : Human(h)
    BY DEF Next, PhaseThread, Vault, vars, StartRun, RunAborts, AttemptRejected, RunFails,
       RunRejected, RunApproved, LoseEvidence, RestoreEvidence
<1>3. CASE approval_trail' = approval_trail /\ prepared_by' = prepared_by
    <2>1. DecisionEntries' = DecisionEntries /\ Preparers' = Preparers
        BY <1>3 DEF DecisionEntries, Preparers
    <2>2. \A n : DecisionEntry(n)' = DecisionEntry(n)
        BY <1>1 DEF DecisionEntry, Entry
    <2> QED
        BY <1>1, <1>3, <2>1, <2>2 DEF DecisionsAreTheReviewers
<1>4. ASSUME NEW h \in Names, Human(h) PROVE DecisionsAreTheReviewers'
    <2>1. PICK entry :
            /\ approval_trail' = Append(approval_trail, entry)
            /\ entry.action = "audit_created" => CreateAudit(h)
            /\ entry.action # "review_decision"
        BY <1>4, HumanEntries
    <2>2. /\ Len(approval_trail) \in Nat
          /\ DOMAIN approval_trail = 1..Len(approval_trail)
          /\ DOMAIN approval_trail' = 1..(Len(approval_trail) + 1)
          /\ \A i \in 1..Len(approval_trail) : approval_trail'[i] = approval_trail[i]
          /\ approval_trail'[Len(approval_trail) + 1] = entry
        BY <1>1, <2>1 DEF TypeOK
    <2>3. /\ DecisionEntries' = DecisionEntries
          /\ \A i \in DecisionEntries : approval_trail'[i] = approval_trail[i]
        BY <2>1, <2>2 DEF DecisionEntries
    <2>4. \A n : DecisionEntry(n)' = DecisionEntry(n)
        BY <1>1 DEF DecisionEntry, Entry
    <2>5. CASE CreateAudit(h)
        <3>1. status = WaitingForScope
            BY <2>5 DEF CreateAudit, StartPhase1, Transition, Can
        <3>2. DOMAIN review_decisions = {}
            BY <3>1 DEF DecisionsStartEmpty
        <3> QED
            BY <1>1, <2>3, <2>4, <3>2 DEF DecisionsAreTheReviewers
    <2>6. CASE ~ CreateAudit(h)
        <3>1. prepared_by' = prepared_by
            BY <1>4, <2>6 DEF Human, ApproveGate, RetryPhase, ReturnForRework, OverrideQA,
               RecordDecision
        <3>2. {i \in DOMAIN approval_trail' : approval_trail'[i].action = "audit_created"}
                = {i \in DOMAIN approval_trail : approval_trail[i].action = "audit_created"}
            BY <2>1, <2>2, <2>6
        <3>3. Preparers' = Preparers
            BY <2>2, <3>1, <3>2 DEF Preparers
        <3> QED
            BY <1>1, <2>3, <2>4, <3>3 DEF DecisionsAreTheReviewers
    <2> QED
        BY <2>5, <2>6
<1> QED
    BY <1>2, <1>3, <1>4

\* A decision that is recorded stamps the entry that belongs to it.
LEMMA DecisionsStayTheReviewers ==
    ASSUME TypeOK, DecisionsAreTheReviewers,
           NEW h \in Names, NEW d \in Requests(h), RecordDecision(d)
    PROVE  DecisionsAreTheReviewers'
<1>0. PICK n : n = Len(review_decisions) + 1
    OBVIOUS
<1> DEFINE t == Len(approval_trail) + 1
           e == [Entry("review_decision", PhaseForType(d.type), d.by) EXCEPT
                    !.decision = n, !.digest = d.draft]
<1>1. /\ n \in Nat /\ n \in 1..n
      /\ DOMAIN review_decisions = 1..(n - 1)
      /\ DOMAIN review_decisions' = 1..n
      /\ \A i \in 1..(n - 1) : review_decisions'[i] = review_decisions[i]
      /\ review_decisions'[n] = d
      /\ ~ DecisionSodViolation(d.type, d.by, Preparers)
    <2>1. n \in Nat /\ n \in 1..n
        BY <1>0, LenProperties DEF TypeOK
    <2> QED
        BY <1>0, <2>1, DecisionRecorded DEF DecisionAccepted
<1>2. /\ t \in Nat /\ t \in 1..t
      /\ DOMAIN approval_trail = 1..(t - 1)
      /\ DOMAIN approval_trail' = 1..t
      /\ \A i \in 1..(t - 1) : approval_trail'[i] = approval_trail[i]
      /\ approval_trail'[t] = e
    BY <1>0 DEF TypeOK, RecordDecision, Stamp
<1>3. e.action = "review_decision" /\ e.decision = n
    BY DEF Entry
<1>4. DecisionEntry(n)' = e
    BY <1>1 DEF DecisionEntry, Entry
<1> HIDE DEF t, e
<1>5. ASSUME NEW m \in 1..(n - 1) PROVE DecisionEntry(m)' = DecisionEntry(m)
    <2>1. review_decisions'[m] = review_decisions[m]
        BY <1>1
    <2> QED
        BY <2>1 DEF DecisionEntry, Entry
<1>6. \A i \in 1..t : i \in DecisionEntries' <=> i \in DecisionEntries \/ i = t
    <2>1. \A i \in 1..t : i \in 1..(t - 1) \/ i = t
        BY <1>2
    <2> QED
        BY <1>2, <1>3, <2>1 DEF DecisionEntries
<1>7. DecisionEntries \subseteq 1..(t - 1) /\ DecisionEntries' \subseteq 1..t
    BY <1>2 DEF DecisionEntries
<1>8. ASSUME NEW i \in DecisionEntries'
      PROVE  /\ approval_trail'[i].decision \in 1..n
             /\ approval_trail'[i] = DecisionEntry(approval_trail[i].decision)'
             /\ \A j \in DecisionEntries' :
                    i < j => approval_trail'[i].decision < approval_trail'[j].decision
    <2>1. ASSUME NEW k \in DecisionEntries
          PROVE  /\ approval_trail'[k] = approval_trail[k]
                 /\ approval_trail[k].decision \in 1..(n - 1)
                 /\ approval_trail[k] = DecisionEntry(approval_trail[k].decision)
        BY <1>1, <1>2, <1>7 DEF DecisionsAreTheReviewers
    <2>2. CASE i = t
        <3>1. \A j \in DecisionEntries' : ~ (i < j)
            <4>1. \A j \in DecisionEntries' : j \in 1..t
                BY <1>7
            <4>2. t \in Nat
                BY <1>2
            <4> QED
                BY <2>2, <4>1, <4>2
        <3>2. approval_trail'[i].decision = n /\ n \in 1..n
            BY <1>1, <1>2, <1>3, <2>2
        <3> QED
            BY <1>2, <1>4, <2>2, <3>1, <3>2
    <2>3. CASE i # t
        <3>1. i \in DecisionEntries
            BY <1>6, <1>7, <2>3
        <3>2. \A j \in DecisionEntries : i < j => approval_trail[i].decision < approval_trail[j].decision
            BY <3>1 DEF DecisionsAreTheReviewers
        <3>3. \A j \in DecisionEntries' : j \in DecisionEntries \/ j = t
            BY <1>6, <1>7
        <3>4. approval_trail[i].decision < n /\ approval_trail[i].decision \in 1..n
            BY <1>1, <2>1, <3>1
        <3>5. \A j \in DecisionEntries' :
                i < j => approval_trail'[i].decision < approval_trail'[j].decision
            BY <1>2, <1>3, <2>1, <3>1, <3>2, <3>3, <3>4
        <3>6. DecisionEntry(approval_trail[i].decision)' = DecisionEntry(approval_trail[i].decision)
            BY <1>5, <2>1, <3>1
        <3> QED
            BY <2>1, <3>1, <3>4, <3>5, <3>6
    <2> QED
        BY <2>2, <2>3
<1>9. ASSUME NEW m \in 1..n
      PROVE  \E i \in DecisionEntries' : approval_trail'[i].decision = m
    <2>1. CASE m = n
        <3>1. t \in DecisionEntries'
            BY <1>2, <1>6
        <3> QED
            BY <1>2, <1>3, <2>1, <3>1
    <2>2. CASE m # n
        <3>1. m \in 1..(n - 1)
            BY <1>1, <2>2
        <3>2. PICK i \in DecisionEntries : approval_trail[i].decision = m
            BY <1>1, <3>1 DEF DecisionsAreTheReviewers
        <3>3. i \in DecisionEntries' /\ approval_trail'[i] = approval_trail[i]
            BY <1>2, <1>6, <1>7
        <3> QED
            BY <3>2, <3>3
    <2> QED
        BY <2>1, <2>2
<1>10. Preparers' = Preparers
    <2>1. {i \in DOMAIN approval_trail' : approval_trail'[i].action = "audit_created"}
            = {i \in DOMAIN approval_trail : approval_trail[i].action = "audit_created"}
        BY <1>2, <1>3
    <2>2. prepared_by' = prepared_by
        BY DEF RecordDecision
    <2> QED
        BY <1>2, <2>1, <2>2 DEF Preparers
<1>11. ASSUME NEW m \in 1..n, review_decisions'[m].type \in PreparerExcludedDecisions
       PROVE  \A name \in Preparers' : ~ SamePerson(review_decisions'[m].by, name)
    <2>1. CASE m = n
        BY <1>1, <1>10, <1>11, <2>1 DEF DecisionSodViolation
    <2>2. CASE m # n
        <3>1. m \in 1..(n - 1) /\ review_decisions'[m] = review_decisions[m]
            BY <1>1, <2>2
        <3> QED
            BY <1>1, <1>10, <1>11, <3>1 DEF DecisionsAreTheReviewers
    <2> QED
        BY <2>1, <2>2
<1> QED
    BY <1>1, <1>8, <1>9, <1>11 DEF DecisionsAreTheReviewers, SamePerson

\* The decisions and the review_decision entries of the trail are in step, one to one
\* and in order, each under the reviewer's name, and none that requires independence
\* is the preparer's.
THEOREM DecisionsAreAccountable == Spec => []DecisionsAreTheReviewers
<1>1. Init => DecisionsStartEmpty /\ DecisionsAreTheReviewers
    BY DEF Init, DecisionsStartEmpty, DecisionsAreTheReviewers, DecisionEntries
<1>2. IInv /\ DecisionsStartEmpty /\ DecisionsAreTheReviewers /\ [Next]_vars
        => DecisionsStartEmpty' /\ DecisionsAreTheReviewers'
    BY DecisionsStartStep, OtherStepsKeepDecisions, DecisionsStayTheReviewers DEF IInv
<1> QED
    BY <1>1, <1>2, IInvIsInvariant, PTL DEF Spec
=============================================================================
