----------------------------- MODULE AuditFlow -----------------------------
(***************************************************************************)
(* One audit, as class AuditFlow of src/swarm/audit_flow.py runs it: three *)
(* phases (Planning, Fieldwork, Reporting), each drafted by a crew on a    *)
(* phase thread, checked by a QA agent and by code, and held at a gate     *)
(* until a reviewer approves it, returns it or, after a QA rejection,      *)
(* overrides it; reviewer decisions beside the drafts; and the append-only *)
(* approval trail.                                                         *)
(*                                                                         *)
(* A method of AuditFlow is one action: the API runs the human ones under  *)
(* the session's lock, and a phase thread is alone on the flow while the   *)
(* status is RUNNING_PHASE_n, except around its last statements.  What     *)
(* happens there is not modelled here.                                     *)
(***************************************************************************)
EXTENDS ReviewDecisions

CONSTANTS
    ReviewDecisionsRequired, \* review_decisions_required, set by every audit of the API
    EnforceCrossFamily,      \* AUDIT_ENFORCE_CROSS_FAMILY is 1 in the environment
    VolatileControls,        \* controls whose evidence may go missing from the vault
    MaxSetbacks,             \* bound: runs in one audit that do not pass at once
    MaxReruns,               \* bound: retries and returns for rework in one audit
    MaxDecisions,            \* bound: reviewer decisions in one audit
    RequestTypes             \* bound: the types of decision reviewers ask to record

ASSUME BoundsAssumption ==
    /\ ReviewDecisionsRequired \in BOOLEAN
    /\ EnforceCrossFamily \in BOOLEAN
    /\ VolatileControls \subseteq Controls
    /\ MaxSetbacks \in Nat
    /\ MaxReruns \in Nat
    /\ MaxDecisions \in Nat
    /\ RequestTypes \subseteq DecisionTypes
    /\ None \notin Names \cup [by : Names, draft : Plans \cup Papers \cup Reports]

VARIABLES
    prepared_by,          \* the preparer's name
    artifact,             \* phase -> racm_plan, working_papers, final_report
    approval_trail,       \* the append-only trail of entries
    review_decisions,     \* the append-only list of decisions
    qa_rejection_reason,  \* why the last run stopped
    generation_runs,      \* the provenance of every crew run
    crew,                 \* the phase thread: submitted or in its n-th attempt
    missing_evidence,     \* controls whose quote no longer verifies in the vault
    producer              \* history: phase -> the run its artifact came from

vars == <<status, prepared_by, artifact, approval_trail, review_decisions,
          qa_rejection_reason, generation_runs, crew, missing_evidence, producer>>

MaxQAAttempts == 2  \* _MAX_QA_ATTEMPTS

Drafts(p) == CASE p = 1 -> Plans [] p = 2 -> Papers [] p = 3 -> Reports

\* decision_context
Context == [plan |-> artifact[1], papers |-> artifact[2], report |-> artifact[3]]

\* A trail entry.  One shape for all actions; an action sets what it stamps.
Entry(action, phase, human) ==
    [action |-> action, phase |-> phase, human |-> human,
     digest |-> None, run |-> 0, previous_status |-> None, reason |-> None,
     unverified |-> {}, sealed |-> {}, decision |-> 0]

Stamp(entry) == approval_trail' = Append(approval_trail, entry)

NoCrew == [phase |-> 0, attempt |-> 0, feedback |-> None]

\* _submit_phase: the job is queued; the thread has not begun.
Submitted(p) == [phase |-> p, attempt |-> 0, feedback |-> None]

\* _latest_run_for_phase, as an index of generation_runs, or 0.
LatestRun(p) ==
    LET runs == {i \in DOMAIN generation_runs : generation_runs[i].phase = p}
    IN  IF runs = {} THEN 0 ELSE Max(runs)

\* The earlier runs that QA rejected at least once or that failed.
Setbacks ==
    {i \in 1..(Len(generation_runs) - 1) :
        generation_runs[i].outcome = "error" \/ generation_runs[i].attempts > 1}

Reruns == {i \in DOMAIN approval_trail :
                approval_trail[i].action \in {"retry", "return_for_rework"}}

---------------------------------------------------------------------------
(* The checks of a human action.                                           *)

\* _preparers: from the state and from the chained trail entry.
Preparers ==
    {prepared_by} \cup {approval_trail[i].human :
        i \in {j \in DOMAIN approval_trail : approval_trail[j].action = "audit_created"}}

IsApproval(entry, g) == entry.action = "gate_approval" /\ entry.phase = g

\* gate_approver: the names that gave the most recent approval of gate g.
GateApprover(g) ==
    LET approvals == {i \in DOMAIN approval_trail : IsApproval(approval_trail[i], g)}
    IN  IF approvals = {} THEN {} ELSE {approval_trail[Max(approvals)].human}

\* Mutant of SodViolation: names are compared as they were typed.
SodViolationByName(action, h, g) ==
    \/ action \in PreparerExcludedActions /\ h \in Preparers
    \/ \E other \in DistinctApproverGates(g) : h \in GateApprover(other)

\* _check_sod, for a gate approval of gate g (0 for the other actions).
SodViolation(action, h, g) ==
    \/ action \in PreparerExcludedActions /\ \E n \in Preparers : SamePerson(h, n)
    \/ \E other \in DistinctApproverGates(g) :
            \E n \in GateApprover(other) : SamePerson(h, n)

\* unverified_findings: a quote the vault never held or no longer holds, or a
\* tested finding without one.
Unverified(papers) ==
    LET Verifies(f) ==
            \/ f.quote = "held" /\ f.control \notin missing_evidence
            \/ f.quote = "none" /\ "Not tested" \in {DraftResult(f), f.toe}
    IN  {f.control : f \in {g \in Range(Findings[papers]) : ~ Verifies(g)}}

\* Mutant of AcceptedUnverified: whatever papers the override was about.
AcceptedUnverifiedOfAnyPapers(papers) ==
    LET overrides == {i \in DOMAIN approval_trail :
                        approval_trail[i].action = "qa_override" /\ approval_trail[i].phase = 2}
    IN  IF overrides = {} THEN {} ELSE approval_trail[Max(overrides)].unverified

\* _accepted_unverified: what the latest Fieldwork override of exactly these
\* papers accepted.
AcceptedUnverified(papers) ==
    LET overrides == {i \in DOMAIN approval_trail :
                        /\ approval_trail[i].action = "qa_override"
                        /\ approval_trail[i].phase = 2
                        /\ approval_trail[i].digest = papers}
    IN  IF overrides = {} THEN {} ELSE approval_trail[Max(overrides)].unverified

EvidenceAccepted(papers) == Unverified(papers) \subseteq AcceptedUnverified(papers)

\* _phase_decisions
PhaseDecisions(p) ==
    {i \in DOMAIN review_decisions : PhaseForType(review_decisions[i].type) = p}

\* Mutant of ReviewComplete: only the last gate looks at the decisions.
ReviewCompleteAtTheEnd(g) ==
    ReviewDecisionsRequired /\ g = 3 => MissingForGate(Context, review_decisions, g) = {}

\* _check_review_decisions
ReviewComplete(g) ==
    ReviewDecisionsRequired => MissingForGate(Context, review_decisions, g) = {}

---------------------------------------------------------------------------
Init ==
    /\ status = WaitingForScope
    /\ prepared_by = None
    /\ artifact = [p \in Phases |-> None]
    /\ approval_trail = <<>>
    /\ review_decisions = <<>>
    /\ qa_rejection_reason = None
    /\ generation_runs = <<>>
    /\ crew = NoCrew
    /\ missing_evidence = {}
    /\ producer = [p \in Phases |-> 0]

\* _create_and_launch: record_preparer, begin_phase_1, submit.
CreateAudit(h) ==
    /\ prepared_by = None
    /\ StartPhase1
    /\ prepared_by' = h
    /\ Stamp(Entry("audit_created", 0, h))
    /\ crew' = Submitted(1)
    /\ UNCHANGED <<artifact, review_decisions, qa_rejection_reason, generation_runs,
                   missing_evidence, producer>>

---------------------------------------------------------------------------
(* The phase thread: generate_planning, _fieldwork, _reporting.            *)

\* Mutant of CarriedFeedback: the retry of a crashed run carries its message.
FeedbackOfAnyRetry(p) ==
    LET last == approval_trail[Len(approval_trail)]
    IN  IF approval_trail = <<>> \/ last.phase # p THEN None
        ELSE IF last.action = "return_for_rework" THEN <<"notes", Len(approval_trail)>>
        ELSE IF last.action = "retry" THEN last.reason
        ELSE None

\* _carried_feedback: only the latest entry counts.  <<"rejection", n>> stands
\* for the reason run n was rejected for.
CarriedFeedback(p) ==
    LET last == approval_trail[Len(approval_trail)]
    IN  IF approval_trail = <<>> \/ last.phase # p THEN None
        ELSE IF last.action = "return_for_rework" THEN <<"notes", Len(approval_trail)>>
        ELSE IF last.action = "retry" /\ last.previous_status = QARejected(p)
             THEN last.reason
        ELSE None

StartRun(p) ==
    /\ crew.phase = p /\ crew.attempt = 0
    /\ status = Running(p)
    /\ qa_rejection_reason' = None
    /\ generation_runs' = Append(generation_runs,
            [phase |-> p, outcome |-> "running", attempts |-> 1,
             feedback |-> CarriedFeedback(p)])
    /\ crew' = [phase |-> p, attempt |-> 1, feedback |-> CarriedFeedback(p)]
    /\ UNCHANGED <<status, prepared_by, artifact, approval_trail, review_decisions,
                   missing_evidence, producer>>

\* _start_generation_run raises when the crew's and the QA agent's models are of
\* one family and the environment forbids it.  The job ends; nothing moves the
\* status on.
RunAborts(p) ==
    /\ EnforceCrossFamily
    /\ crew.phase = p /\ crew.attempt = 0
    /\ status = Running(p)
    /\ qa_rejection_reason' = None
    /\ crew' = NoCrew
    /\ UNCHANGED <<status, prepared_by, artifact, approval_trail, review_decisions,
                   generation_runs, missing_evidence, producer>>

\* The thread is done: its run gets its outcome.
RunEnds(outcome) ==
    /\ crew' = NoCrew
    /\ generation_runs' =
            [generation_runs EXCEPT ![Len(generation_runs)].outcome = outcome]

\* Mutant of AttemptRejected: the attempt after the last one is still made.
RejectedOnceTooOften(p) ==
    /\ crew.phase = p /\ crew.attempt \in 1..MaxQAAttempts
    /\ crew' = [crew EXCEPT !.attempt = @ + 1]
    /\ generation_runs' = [generation_runs EXCEPT ![Len(generation_runs)].attempts = @ + 1]
    /\ UNCHANGED <<status, prepared_by, artifact, approval_trail, review_decisions,
                   qa_rejection_reason, missing_evidence, producer>>

\* QA, or the evidence check, rejects an attempt that is not the last one.
AttemptRejected(p) ==
    /\ crew.phase = p /\ crew.attempt \in 1..(MaxQAAttempts - 1)
    /\ Cardinality(Setbacks) < MaxSetbacks
    /\ crew' = [crew EXCEPT !.attempt = @ + 1]
    /\ generation_runs' = [generation_runs EXCEPT ![Len(generation_runs)].attempts = @ + 1]
    /\ UNCHANGED <<status, prepared_by, artifact, approval_trail, review_decisions,
                   qa_rejection_reason, missing_evidence, producer>>

\* Mutant of RunRejected: a rejected output that is no artifact leaves the older
\* draft in place.
RejectedKeepingDraft(p, draft) ==
    /\ crew.phase = p /\ crew.attempt = MaxQAAttempts
    /\ RejectPhase(p)
    /\ artifact' = IF draft = None THEN artifact ELSE [artifact EXCEPT ![p] = draft]
    /\ producer' = IF draft = None THEN producer
                   ELSE [producer EXCEPT ![p] = Len(generation_runs)]
    /\ qa_rejection_reason' = <<"rejection", Len(generation_runs)>>
    /\ RunEnds("qa_rejected")
    /\ UNCHANGED <<prepared_by, approval_trail, review_decisions, missing_evidence>>

\* The last attempt is rejected.  The rejected draft replaces any older one,
\* and None does when it fails validation.
RunRejected(p, draft) ==
    /\ crew.phase = p /\ crew.attempt = MaxQAAttempts
    /\ RejectPhase(p)
    /\ artifact' = [artifact EXCEPT ![p] = draft]
    /\ producer' = [producer EXCEPT ![p] = Len(generation_runs)]
    /\ qa_rejection_reason' = <<"rejection", Len(generation_runs)>>
    /\ RunEnds("qa_rejected")
    /\ UNCHANGED <<prepared_by, approval_trail, review_decisions, missing_evidence>>

\* The crew raises, or QA accepts an output that is no valid artifact
\* (_fail_phase).  An older draft stays in place.
RunFails(p) ==
    /\ crew.phase = p /\ crew.attempt >= 1
    /\ crew.attempt = 1 => Cardinality(Setbacks) < MaxSetbacks
    /\ ErrorPhase(p)
    /\ qa_rejection_reason' = <<"error", Len(generation_runs)>>
    /\ RunEnds("error")
    /\ UNCHANGED <<prepared_by, artifact, approval_trail, review_decisions,
                   missing_evidence, producer>>

\* QA accepts, and in Fieldwork every quote verifies.
RunApproved(p, draft) ==
    /\ crew.phase = p /\ crew.attempt >= 1
    /\ p = 2 => Unverified(draft) = {}
    /\ CompletePhase(p)
    /\ artifact' = [artifact EXCEPT ![p] = draft]
    /\ producer' = [producer EXCEPT ![p] = Len(generation_runs)]
    /\ RunEnds("qa_approved")
    /\ UNCHANGED <<prepared_by, approval_trail, review_decisions, qa_rejection_reason,
                   missing_evidence>>

---------------------------------------------------------------------------
(* The human actions.                                                      *)

\* begin_phase_2, begin_phase_3 and finalize_audit, with the submit of the next
\* phase that the API does under the same lock.
ApproveGate(g, h) ==
    /\ Can(AfterGate(g), {Gate(g)})
    /\ ~ SodViolation("gate_approval", h, g)
    /\ g = 2 => EvidenceAccepted(artifact[2])
    /\ artifact[g] # None
    /\ ReviewComplete(g)
    /\ PassGate(g)
    /\ Stamp([Entry("gate_approval", g, h) EXCEPT
                !.digest = artifact[g],
                !.run = LatestRun(g),
                !.sealed = IF g = 1 THEN {} ELSE PhaseDecisions(g)])
    /\ crew' = IF g = 3 THEN NoCrew ELSE Submitted(g + 1)
    /\ UNCHANGED <<prepared_by, artifact, review_decisions, qa_rejection_reason,
                   generation_runs, missing_evidence, producer>>

\* retry_phase.  Anyone may retry, the preparer included.
RetryPhase(p, h) ==
    /\ Cardinality(Reruns) < MaxReruns
    /\ ReopenPhase(p)
    /\ Stamp([Entry("retry", p, h) EXCEPT
                !.previous_status = status,
                !.reason = qa_rejection_reason,
                !.run = LatestRun(p)])
    /\ crew' = Submitted(p)
    /\ UNCHANGED <<prepared_by, artifact, review_decisions, qa_rejection_reason,
                   generation_runs, missing_evidence, producer>>

ReturnForRework(p, h) ==
    /\ Cardinality(Reruns) < MaxReruns
    /\ Can(Running(p), {Gate(p)})
    /\ ~ SodViolation("return_for_rework", h, 0)
    /\ ReturnPhase(p)
    /\ Stamp([Entry("return_for_rework", p, h) EXCEPT
                !.digest = artifact[p],
                !.run = LatestRun(p)])
    /\ qa_rejection_reason' = None
    /\ crew' = Submitted(p)
    /\ UNCHANGED <<prepared_by, artifact, review_decisions, generation_runs,
                   missing_evidence, producer>>

\* override_qa_rejection
OverrideQA(p, h) ==
    /\ Can(Gate(p), {QARejected(p)})
    /\ ~ SodViolation("qa_override", h, 0)
    /\ artifact[p] # None
    /\ OverridePhase(p)
    /\ Stamp([Entry("qa_override", p, h) EXCEPT
                !.digest = artifact[p],
                !.reason = qa_rejection_reason,
                !.unverified = IF p = 2 THEN Unverified(artifact[2]) ELSE {},
                !.run = LatestRun(p)])
    /\ qa_rejection_reason' = None
    /\ UNCHANGED <<prepared_by, artifact, review_decisions, generation_runs, crew,
                   missing_evidence, producer>>

\* record_decision
RecordDecision(d) ==
    /\ Len(review_decisions) < MaxDecisions
    /\ DecisionAccepted(Context, Preparers, review_decisions, d)
    /\ review_decisions' = Append(review_decisions, d)
    /\ Stamp([Entry("review_decision", PhaseForType(d.type), d.by) EXCEPT
                !.decision = Len(review_decisions) + 1,
                !.digest = d.draft])
    /\ UNCHANGED <<status, prepared_by, artifact, qa_rejection_reason, generation_runs,
                   crew, missing_evidence, producer>>

\* The decisions a caller may ask for now.
Requests(h) ==
    UNION {[type : {t}, subject : SubjectsFor(Context, t), draft : {DraftFor(Context, t)},
            values : ValuesFor(t), by : {h}, supersedes : 0..Len(review_decisions)] :
                t \in RequestTypes}

---------------------------------------------------------------------------
(* The evidence vault, outside the flow: a record cited for a control is   *)
(* lost or altered, and restored.                                          *)
LoseEvidence(c) ==
    /\ c \in VolatileControls \ missing_evidence
    /\ missing_evidence' = missing_evidence \cup {c}
    /\ UNCHANGED <<status, prepared_by, artifact, approval_trail, review_decisions,
                   qa_rejection_reason, generation_runs, crew, producer>>

RestoreEvidence(c) ==
    /\ c \in missing_evidence
    /\ missing_evidence' = missing_evidence \ {c}
    /\ UNCHANGED <<status, prepared_by, artifact, approval_trail, review_decisions,
                   qa_rejection_reason, generation_runs, crew, producer>>

---------------------------------------------------------------------------
PhaseThread(p) ==
    \/ StartRun(p)
    \/ RunAborts(p)
    \/ AttemptRejected(p)
    \/ RunFails(p)
    \/ \E draft \in Drafts(p) \cup {None} : RunRejected(p, draft)
    \/ \E draft \in Drafts(p) : RunApproved(p, draft)

Human(h) ==
    \/ CreateAudit(h)
    \/ \E p \in Phases : \/ ApproveGate(p, h)
                         \/ RetryPhase(p, h)
                         \/ ReturnForRework(p, h)
                         \/ OverrideQA(p, h)
    \/ \E d \in Requests(h) : RecordDecision(d)

Vault == \E c \in Controls : LoseEvidence(c) \/ RestoreEvidence(c)

Next ==
    \/ \E p \in Phases : PhaseThread(p)
    \/ \E h \in Names : Human(h)
    \/ Vault

Spec == Init /\ [][Next]_vars

\* The executor runs every submitted job, and a crew run returns or raises.
\* Nobody owes the audit a human action.
FairSpec == Spec /\ \A p \in Phases : WF_vars(PhaseThread(p))

---------------------------------------------------------------------------
(* Types.                                                                  *)

Reasons == {"rejection", "error", "notes"} \X Nat

EntryType ==
    [action : {"audit_created", "gate_approval", "retry", "return_for_rework",
               "qa_override", "review_decision"},
     phase : Phases \cup {0}, human : Names,
     digest : Plans \cup Papers \cup Reports \cup {None},
     run : Nat, previous_status : Statuses \cup {None}, reason : Reasons \cup {None},
     unverified : SUBSET Controls, sealed : SUBSET Nat, decision : Nat]

DecisionType ==
    [type : DecisionTypes, subject : Controls \cup Deficiencies \cup {"engagement"},
     draft : Papers \cup Reports,
     values : UNION {ValuesFor(t) : t \in DecisionTypes},
     by : Names, supersedes : Nat]

RunType == [phase : Phases, outcome : {"running", "error", "qa_rejected", "qa_approved"},
            attempts : 1..MaxQAAttempts, feedback : Reasons \cup {None}]

\* Every variable of the audit keeps its type; a phase thread is only ever at an
\* attempt _run_crew_with_qa allows.
TypeOK ==
    /\ status \in Statuses
    /\ prepared_by \in Names \cup {None}
    /\ DOMAIN artifact = Phases
    /\ \A p \in Phases : artifact[p] \in Drafts(p) \cup {None}
    /\ approval_trail \in Seq(EntryType)
    /\ review_decisions \in Seq(DecisionType)
    /\ qa_rejection_reason \in Reasons \cup {None}
    /\ generation_runs \in Seq(RunType)
    /\ crew \in [phase : Phases \cup {0}, attempt : 0..MaxQAAttempts,
                 feedback : Reasons \cup {None}]
    /\ missing_evidence \subseteq Controls
    /\ producer \in [Phases -> Nat]

---------------------------------------------------------------------------
(* Safety of the gates.                                                    *)

Approvals(g) == {i \in DOMAIN approval_trail : IsApproval(approval_trail[i], g)}

Approved(g) == Approvals(g) # {}

GatesPassed == IF status = Completed THEN 3
               ELSE IF status = WaitingForScope THEN 0
               ELSE status[2] - 1

\* A status of phase n, or COMPLETED, is only reached over the approvals of all
\* gates before it: each given once, in order, and none ahead of the status
\* (the machine checks the source of every transition, the flow stamps after it).
ApprovalsFollowTheStatus ==
    /\ \A g \in Phases : Approved(g) <=> g <= GatesPassed
    /\ \A g, k \in Phases : \A i \in Approvals(g), j \in Approvals(k) :
            /\ g = k => i = j
            /\ g < k => i < j

\* Read from the trail alone, by person and not by name typed: the preparer has
\* approved no gate, overridden no QA rejection and returned nothing for rework,
\* and Gate 3 was not approved by the person who approved Gate 2
\* (review_policy.sod_violation, over the whole life of an audit).
SegregationOfDuties ==
    \A i, j \in DOMAIN approval_trail :
        LET e == approval_trail[i]
            f == approval_trail[j]
        IN  SamePerson(e.human, f.human) =>
              /\ ~ (e.action = "audit_created" /\ f.action \in PreparerExcludedActions)
              /\ ~ (IsApproval(e, 2) /\ IsApproval(f, 3))

\* What an approval sealed is what verify_trail still finds: the artifact has the
\* digest that was stamped, whatever was retried, rejected or redrafted since.
ApprovedArtifactsAreSealed ==
    \A g \in Phases : \A i \in Approvals(g) :
        /\ artifact[g] # None
        /\ approval_trail[i].digest = artifact[g]

\* The decisions an approval sealed are all of the phase's, but for the
\* responses and verifications that arrive after the report is issued.
SealedDecisionsAreComplete ==
    \A g \in {2, 3} : \A i \in Approvals(g) :
        \A d \in PhaseDecisions(g) \ approval_trail[i].sealed :
            /\ g = 3
            /\ review_decisions[d].type \in {"management_response",
                                             "remediation_verification"}

\* Provenance: the run an approval or an override names is the one that drafted
\* what was accepted.  A failed run leaves an older draft in place, and a
\* rejected one without a valid artifact must clear it.
ProvenanceNamesTheProducer ==
    \A p \in Phases :
        /\ status \in {Gate(p), QARejected(p)} => producer[p] = LatestRun(p)
        /\ \A i \in Approvals(p) : approval_trail[i].run = producer[p]

\* Gate 2 opens over a quote that does not verify only if someone other than the
\* preparer overrode the rejection of exactly these papers and the override
\* names the control (_check_evidence_for_gate_2, _accepted_unverified).
UnverifiedEvidenceWasAccepted ==
    [][~ Approved(2) /\ Approved(2)' =>
        \A c \in Unverified(artifact[2]) :
            \E i \in DOMAIN approval_trail :
                LET e == approval_trail[i]
                IN  /\ e.action = "qa_override" /\ e.phase = 2
                    /\ e.digest = artifact[2]
                    /\ c \in e.unverified
                    /\ ~ SamePerson(e.human, prepared_by)]_vars

\* A re-run starts with the feedback of the run it repeats and with no other: a
\* return's notes, or the reason for which that very run was rejected; the
\* message of a crashed run is no feedback (_carried_feedback).
FeedbackIsOfTheRunRepeated ==
    \A k \in DOMAIN generation_runs :
        LET run     == generation_runs[k]
            earlier == {i \in 1..(k - 1) : generation_runs[i].phase = run.phase}
            before  == Max(earlier)
        IN  IF earlier = {} THEN run.feedback = None
            ELSE CASE generation_runs[before].outcome = "error" -> run.feedback = None
                   [] generation_runs[before].outcome = "qa_approved" ->
                        run.feedback[1] = "notes"
                   [] generation_runs[before].outcome = "qa_rejected" ->
                        \/ run.feedback = <<"rejection", before>>
                        \/ run.feedback[1] = "notes"

---------------------------------------------------------------------------
(* Safety of the reviewer decisions.                                       *)

\* What record_decision stamps for the n-th decision.
DecisionEntry(n) ==
    [Entry("review_decision", PhaseForType(review_decisions[n].type), review_decisions[n].by)
        EXCEPT !.decision = n, !.digest = review_decisions[n].draft]

\* The entries of decisions in the trail.
DecisionEntries ==
    {i \in DOMAIN approval_trail : approval_trail[i].action = "review_decision"}

\* Each decision has one entry in the trail, in the same order and under the same
\* name, and none that is the reviewer's judgement carries the preparer's, in
\* whatever spelling (decision_sod_violation).
DecisionsAreTheReviewers ==
    /\ \A i \in DecisionEntries :
            /\ approval_trail[i].decision \in DOMAIN review_decisions
            /\ approval_trail[i] = DecisionEntry(approval_trail[i].decision)
            /\ \A j \in DecisionEntries :
                    i < j => approval_trail[i].decision < approval_trail[j].decision
    /\ \A n \in DOMAIN review_decisions :
            \E i \in DecisionEntries : approval_trail[i].decision = n
    /\ \A n \in DOMAIN review_decisions :
            review_decisions[n].type \in PreparerExcludedDecisions =>
                \A name \in Preparers : ~ SamePerson(review_decisions[n].by, name)

\* A slot never has two decisions in force, not even when a rework brings back
\* the very draft an older decision was made on (DECISIONS.md: "A slot holds at
\* most one active decision").
OneActiveDecisionPerSlot ==
    \A i, j \in DOMAIN review_decisions :
        LET d == review_decisions[i]
            e == review_decisions[j]
        IN  /\ SlotOf(d.type) = SlotOf(e.type) /\ d.subject = e.subject
            /\ DecisionState(Context, review_decisions, i) = "active"
            /\ DecisionState(Context, review_decisions, j) = "active"
            => i = j

\* Once a gate is approved, what it needed stays decided: no redraft, no later
\* decision and no supersession reopens it.
ApprovedGatesStayReviewed ==
    ReviewDecisionsRequired =>
        \A g \in {2, 3} : Approved(g) => MissingForGate(Context, review_decisions, g) = {}

\* DECISIONS.md, default 4: before Gate 2, every exception and every key-control
\* finding needs a sign-off or challenge.  Working papers with two findings on one
\* control do not keep to it: _finding_views looks at the first.
EveryExceptionIsReviewed ==
    ReviewDecisionsRequired /\ Approved(2) =>
        \A i \in DOMAIN Findings[artifact[2]] :
            LET f == Findings[artifact[2]][i]
            IN  FindingNeedsReview(DraftResult(f), IsKey(Context, f.control)) =>
                    ActiveBySlot(Context, review_decisions, "finding_review", f.control) # 0

\* Reviewer decisions never make a conclusion better: an exception stays an
\* exception, and "No exception" is never reached from anything else.
ExceptionsAreNeverWithdrawn ==
    \A c \in SubjectsFor(Context, "sign_off") :
        LET draft  == DraftResult(FindingOn(artifact[2], c))
            result == EffectiveResult(Context, review_decisions, c)
        IN  result = draft \/ (draft = "No exception" /\ result = "Not tested")

\* A scope limitation in force is about a control that is untested of record.
ScopeLimitationsAreTrue ==
    \A c \in SubjectsFor(Context, "scope_limitation") :
        ActiveBySlot(Context, review_decisions, "scope_limitation", c) # 0 =>
            EffectiveResult(Context, review_decisions, c) = "Not tested"

\* The conclusions of record the report is written from do not move once Gate 2 is
\* approved.
ConclusionsOfRecordAreFrozen ==
    [][Approved(2) =>
        \A c \in SubjectsFor(Context, "sign_off") :
            EffectiveConclusions(Context, review_decisions, c)
                = EffectiveConclusions(Context, review_decisions, c)']_vars

---------------------------------------------------------------------------
(* Progress.                                                               *)

\* What _run_crew_with_qa promises: when it stops, it has moved the status on.
RunningMeansInFlight ==
    \A p \in Phases : status = Running(p) => crew.phase = p

\* Every phase that runs ends at its gate, rejected or in error.
RunsSettle == \A p \in Phases : status = Running(p) ~> status # Running(p)

---------------------------------------------------------------------------
(* AuditFlow implements SignOff.                                           *)

SignedBy(g) ==
    IF Approvals(g) = {} THEN None
    ELSE [by    |-> approval_trail[Max(Approvals(g))].human,
          draft |-> approval_trail[Max(Approvals(g))].digest]

Promise == INSTANCE SignOff WITH
    preparer <- prepared_by,
    draft    <- artifact,
    signed   <- [g \in Phases |-> SignedBy(g)]

\* Whatever crews, retries, overrides and decisions do, an observer of the
\* preparer, the drafts and the sign-offs sees only steps of SignOff.
ImplementsSignOff == Promise!Spec
=============================================================================
