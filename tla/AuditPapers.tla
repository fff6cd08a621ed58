---------------------------- MODULE AuditPapers ----------------------------
(***************************************************************************)
(* The artifacts of an audit under the rules of AuditRules, with           *)
(* AUDIT_STRICT_LINTER set: a RACM, working papers and a report go on only *)
(* when the linter of their phase passes them, and are drafted again when  *)
(* it does not (audit_flow.lint_phase_artifact and its caller; an override *)
(* of a second rejection, a supervisor's own decision, is in AuditFlow).   *)
(* Between fieldwork and reporting a reviewer may withdraw a positive      *)
(* conclusion; the report is linted against the papers as he left them.    *)
(***************************************************************************)
EXTENDS AuditRules

CONSTANTS Planned,      \* controls a planner may draft, without a sample
          Populations,  \* sizes of the populations they are tested on
          Drafts,       \* findings a fieldwork crew may draft
          Evaluations,  \* evaluations a reporting crew may draft
          Proses,       \* what the sections of a report may hold
          MaxControls, MaxFindings, MaxEvaluations

ASSUME AuditPapersAssumption ==
    /\ \A c \in Planned : IsControl(c)
    /\ \A f \in Drafts : IsFinding(f) /\ Consistent(f)
    /\ MaxControls \in Nat /\ MaxFindings \in Nat /\ MaxEvaluations \in Nat

VARIABLES stage,       \* planning, fieldwork, reporting or issued
          racm,        \* one risk or two, each with controls
          papers,
          withdrawn,   \* controls whose positive conclusion a reviewer withdrew
          evaluations

papers_vars == <<stage, racm, papers, withdrawn, evaluations>>

Risks == <<"RISK-1", "RISK-2">>

AuditPapersInit ==
    /\ stage = "planning"
    /\ racm = <<>>
    /\ papers = <<>>
    /\ withdrawn = {}
    /\ evaluations = <<>>

\* A control, tested on a sample of the recommended size of its population.
Sampled(control, rating, population) ==
    LET size == RecommendedSampleSize(control.frequency, control.nature, rating)
        sample == SampleSelection(population, size)
    IN  [control EXCEPT !.size = sample.size, !.method = sample.method]

PlanRisk ==
    /\ stage = "planning"
    /\ Len(racm) < Len(Risks)
    /\ racm' = Append(racm, [id |-> Risks[Len(racm) + 1], standards |-> FALSE,
                             controls |-> <<>>])
    /\ UNCHANGED <<stage, papers, withdrawn, evaluations>>

PlanControl(control, rating, population) ==
    /\ stage = "planning"
    /\ racm # <<>>
    /\ Len(ControlsOf(racm)) < MaxControls
    /\ racm' = [racm EXCEPT ![Len(racm)].controls =
                    Append(@, Sampled(control, rating, population))]
    /\ UNCHANGED <<stage, papers, withdrawn, evaluations>>

\* A crew hands in its artifact: it goes on, or is drafted again.
SubmitRacm ==
    /\ stage = "planning"
    /\ IF Passed(LintRacm(racm, TRUE))
       THEN stage' = "fieldwork" /\ UNCHANGED racm
       ELSE racm' = <<>> /\ UNCHANGED stage
    /\ UNCHANGED <<papers, withdrawn, evaluations>>

DraftFinding(finding) ==
    /\ stage = "fieldwork"
    /\ Len(papers) < MaxFindings
    /\ papers' = Append(papers, finding)
    /\ UNCHANGED <<stage, racm, withdrawn, evaluations>>

\* The controls without a collector are recorded as not tested.
AddUnmapped ==
    /\ stage = "fieldwork"
    /\ LET unmapped == ResolveUnmapped(racm, FindingIds(papers))
       IN  /\ unmapped # {}
           /\ papers' = papers \o SetToSeq(unmapped)
    /\ UNCHANGED <<stage, racm, withdrawn, evaluations>>

\* Only the findings that the linter names are made again.
RepairFinding(finding) ==
    /\ stage = "fieldwork"
    /\ finding.control \in AffectedSubjects(LintWorkingPapers(papers, racm, FALSE))
    /\ finding.control \in FindingIds(papers)
    /\ papers' = MergeRepairs(papers, <<finding>>)
    /\ UNCHANGED <<stage, racm, withdrawn, evaluations>>

\* unverified_findings: every quote, and every tested control, needs the vault.
Unverified(findings) ==
    {f.control : f \in {f \in ToSet(findings) :
        IF f.quote = "none" THEN f.result # "Not-tested" /\ f.toe # "Not-tested"
        ELSE ~ f.verified}}

SubmitPapers ==
    /\ stage = "fieldwork"
    /\ IF Unverified(papers) = {} /\ Passed(LintWorkingPapers(papers, racm, FALSE))
       THEN stage' = "reporting" /\ UNCHANGED papers
       ELSE papers' = <<>> /\ UNCHANGED stage
    /\ UNCHANGED <<racm, withdrawn, evaluations>>

\* At Gate 2 a challenge turns 'Effective' into 'Not tested'.
Withdraw(id) ==
    /\ stage = "reporting"
    /\ evaluations = <<>>
    /\ \E f \in ToSet(papers) :
          f.control = id /\ (f.tod = "Effective" \/ f.toe = "Effective")
    /\ withdrawn' = withdrawn \cup {id}
    /\ UNCHANGED <<stage, racm, papers, evaluations>>

\* The first finding of a control, as the views see it.
FirstOf(id) == SelectInSeq(papers, LAMBDA f : f.control = id)

Lowered(conclusion) == IF conclusion = "Effective" THEN "Not-tested" ELSE conclusion

\* A finding with the conclusions of record of its control laid over it.
Effective(f) ==
    LET first == papers[FirstOf(f.control)]
        result == DeriveResult(Lowered(first.tod), Lowered(first.toe), first.exceptions)
    IN  [f EXCEPT !.tod = Lowered(first.tod), !.toe = Lowered(first.toe),
                  !.result = result, !.prelim = first.prelim /\ result = "Exception"]

\* Mutant of EffectiveWorkingPapers: the report is held to the draft.
DraftWorkingPapers == papers

EffectiveWorkingPapers ==
    [i \in DOMAIN papers |->
        IF papers[i].control \in withdrawn THEN Effective(papers[i]) ELSE papers[i]]

Evaluate(evaluation) ==
    /\ stage = "reporting"
    /\ Len(evaluations) < MaxEvaluations
    /\ ReportConsistent(Append(evaluations, evaluation))
    /\ evaluations' = Append(evaluations, evaluation)
    /\ UNCHANGED <<stage, racm, papers, withdrawn>>

SubmitReport(prose, scale) ==
    /\ stage = "reporting"
    /\ IF Passed(LintReport(evaluations, prose, EffectiveWorkingPapers, racm, scale))
       THEN stage' = "issued" /\ UNCHANGED evaluations
       ELSE evaluations' = <<>> /\ UNCHANGED stage
    /\ UNCHANGED <<racm, papers, withdrawn>>

AuditPapersNext ==
    \/ PlanRisk
    \/ \E c \in Planned, rating \in Ratings, n \in Populations : PlanControl(c, rating, n)
    \/ SubmitRacm
    \/ \E f \in Drafts : DraftFinding(f) \/ RepairFinding(f)
    \/ AddUnmapped
    \/ SubmitPapers
    \/ \E id \in FindingIds(papers) : Withdraw(id)
    \/ \E ev \in Evaluations : Evaluate(ev)
    \/ \E prose \in Proses, scale \in DOMAIN ScaleClassifications : SubmitReport(prose, scale)

AuditPapersSpec == AuditPapersInit /\ [][AuditPapersNext]_papers_vars

----------------------------------------------------------------------------
(* The linter accepts the samples that sampling.py recommends: a planned   *)
(* control that is sized and selected by it, at whatever frequency, nature *)
(* and risk, is never rejected for its sample, unless the population is    *)
(* empty.  Two tables that nothing keeps together must agree on this.      *)
RecommendedSamplesPass ==
    stage = "planning" =>
        \A c \in ToSet(ControlsOf(racm)), rating \in Ratings, population \in 1..65,
           frequency \in Frequencies, nature \in Natures :
            SampleViolations(Sampled([c EXCEPT !.frequency = frequency, !.nature = nature],
                                     rating, population)) = {}

(* Control IDs name one control from planning on: accepted working papers  *)
(* hold under every control of the RACM that has the ID of a finding,      *)
(* although the linter looks up only one (controls_by_id).                 *)
FindingsHoldForTheirControls ==
    stage \in {"reporting", "issued"} =>
        \A f \in ToSet(papers), c \in ToSet(ControlsOf(racm)) :
            c.id = f.control => LintDistortionTraps(f, c) = {}

(* An exception gets into the issued report: every finding with one is     *)
(* covered by an evaluation, whatever a reviewer withdrew.  (Two findings  *)
(* on one control are another matter, see EveryExceptionIsReviewed.)       *)
ExceptionsAreReported ==
    stage = "issued" =>
        \A i \in DOMAIN papers :
            /\ papers[i].result = "Exception"
            /\ \A j \in DOMAIN papers : papers[j].control = papers[i].control => j = i
            => \E ev \in ToSet(evaluations) : papers[i].control \in ev.findings

(* A control that lowers a classification still stands: no evaluation of   *)
(* an issued report rests on a compensating control whose conclusion a     *)
(* reviewer withdrew, or that nobody tested.                               *)
CompensationStands ==
    stage = "issued" =>
        \A ev \in ToSet(evaluations) : \A id \in ev.cited :
            id \in FindingIds(papers) \ withdrawn

(* The cascade and the linter agree: what is accepted without a second     *)
(* look passes every trap and is in the vault, whatever the probabilities; *)
(* what falls into a trap goes to a human and not to another model.        *)
AcceptedFindingsPassTheLinter ==
    \A f \in ToSet(papers), c \in ToSet(ControlsOf(racm)) :
        c.id = f.control =>
            \A confidence \in {0, 60, 100}, sequence \in {0, 90, 100}, key \in BOOLEAN :
                LET action == CascadeAction(f, c, key, confidence, sequence)
                IN  /\ action = "fast_accept" =>
                          Unverified(<<f>>) = {} /\ LintDistortionTraps(f, c) = {}
                    /\ LintDistortionTraps(f, c) # {} => action = "abstain_to_human"
=============================================================================
