----------------------------- MODULE AuditRules -----------------------------
(***************************************************************************)
(* The deterministic rules an artifact is held to: the validators of       *)
(* swarm/schema.py, the linters of swarm/linters.py, the sample sizes of   *)
(* swarm/sampling.py and the cascade of swarm/decision_engine.py.          *)
(*                                                                         *)
(* Text is abstracted to what the patterns find in it.  A RACM is a        *)
(* sequence of risks [id, standards (a mapping cites an auditing           *)
(* standard), controls], a control a record                                *)
(*   [id, nature, frequency, method, size, minimum (the length its steps   *)
(*    ask for), period (first and last day), change_mgmt, ipe, steps (both *)
(*    tests have some), complete (the other attributes are given),         *)
(*    procedure (a concrete completeness_procedure), slop]                 *)
(* and working papers are a sequence of findings (see Finding).  An        *)
(* optional value is NotGiven where it is missing.  Names of several words *)
(* ("Not tested") have hyphens here.                                       *)
(***************************************************************************)
EXTENDS Integers, Sequences, FiniteSets, TLC, SequencesExt

CONSTANT NotGiven

OrZero(n) == IF n = NotGiven THEN 0 ELSE n

----------------------------------------------------------------------------
(* Violations.                                                             *)

Violation(rule, subject) == [rule |-> rule, subject |-> subject, severity |-> "error"]
Warning(rule, subject) == [Violation(rule, subject) EXCEPT !.severity = "warning"]

Errors(violations) == {v \in violations : v.severity = "error"}
Passed(violations) == Errors(violations) = {}
AffectedSubjects(violations) == UNION {v.subject : v \in Errors(violations)}

\* A rule that is broken when the condition holds.
Broken(condition, rule, subject) == IF condition THEN {Violation(rule, subject)} ELSE {}

----------------------------------------------------------------------------
(* Sample sizes and the RACM.                                              *)

Frequencies == {"Annual", "Quarterly", "Monthly", "Weekly", "Daily",
                "Multiple-times-per-day", "Continuous", "Event-driven"}
Natures == {"Manual", "Automated", "IT-dependent-manual"}
Ratings == {"Low", "Medium", "High"}

\* _SAMPLE_TABLE: for low or medium risk, for high risk.
SampleTable == [f \in Frequencies |->
    CASE f = "Annual"                 -> <<1, 1>>
      [] f = "Quarterly"              -> <<2, 2>>
      [] f = "Monthly"                -> <<2, 5>>
      [] f = "Weekly"                 -> <<5, 15>>
      [] f = "Daily"                  -> <<20, 40>>
      [] f = "Continuous"             -> <<25, 45>>
      [] f = "Multiple-times-per-day" -> <<25, 60>>
      [] f = "Event-driven"           -> <<5, 15>>]

\* Mutant of RecommendedSampleSize: one occurrence tells enough of a low risk.
TestOfOneForLowRisk(frequency, nature, rating) ==
    IF nature = "Automated" \/ rating = "Low" THEN 1
    ELSE SampleTable[frequency][IF rating = "High" THEN 2 ELSE 1]

RecommendedSampleSize(frequency, nature, rating) ==
    IF nature = "Automated" THEN 1
    ELSE SampleTable[frequency][IF rating = "High" THEN 2 ELSE 1]

\* deterministic_sample_selection: how many of a population, and by which method.
SampleSelection(population, size) ==
    IF size <= 0 \/ population = 0 THEN [size |-> 0, method |-> "Not-applicable"]
    ELSE IF size >= population THEN [size |-> population, method |-> "Full-population"]
    ELSE [size |-> size, method |-> IF size = 1 THEN "Test-of-one" ELSE "Random"]

\* AICPA_MIN_SAMPLE_SIZE_BY_FREQUENCY
MinimumSampleSize == [f \in Frequencies |->
    CASE f \in {"Annual", "Continuous", "Event-driven"} -> 1
      [] f \in {"Quarterly", "Monthly"}                 -> 2
      [] f = "Weekly"                                   -> 5
      [] f = "Daily"                                    -> 20
      [] f = "Multiple-times-per-day"                   -> 25]

\* A control is a record of these attributes.
IsControl(c) ==
    c = [id |-> c.id, nature |-> c.nature, frequency |-> c.frequency, method |-> c.method,
         size |-> c.size, minimum |-> c.minimum, period |-> c.period,
         change_mgmt |-> c.change_mgmt, ipe |-> c.ipe, steps |-> c.steps,
         complete |-> c.complete, procedure |-> c.procedure, slop |-> c.slop]

ByHand(control) == control.nature \in {"Manual", "IT-dependent-manual"}

\* D7
SampleViolations(c) ==
    Broken(c.method = "Test-of-one" /\ ByHand(c) /\ c.frequency \notin {"Annual", NotGiven},
           "D7", {c.id})
    \cup Broken(/\ ByHand(c)
                /\ c.frequency \in DOMAIN MinimumSampleSize
                /\ c.method # "Full-population"
                /\ c.size # NotGiven
                /\ c.size < MinimumSampleSize[c.frequency], "D7", {c.id})

\* D10
IpeViolations(c, strict) ==
    Broken(c.nature = "IT-dependent-manual" /\ ~ c.ipe, "D10", {c.id})
    \cup Broken((c.ipe \/ ByHand(c)) /\ strict /\ ~ c.procedure, "D10", {c.id})

\* D6, D7, D10 and D14 of one control.
ControlViolations(c, strict) ==
    Broken(~ c.steps \/ (strict /\ ~ c.complete), "D6", {c.id})
    \cup IpeViolations(c, strict)
    \cup SampleViolations(c)
    \cup Broken(c.slop, "D14", {c.id})

\* The controls in the order in which the loops over risks meet them.
ControlsOf(racm) == FlattenSeq([r \in DOMAIN racm |-> racm[r].controls])

Repeated(controls) ==
    {controls[i].id : i \in {i \in DOMAIN controls : \E j \in DOMAIN controls :
                                i < j /\ controls[i].id = controls[j].id}}

\* Mutant of DuplicateIds: seen_control_ids starts anew with every risk.
DuplicateIdsOfARisk(racm) == UNION {Repeated(racm[r].controls) : r \in DOMAIN racm}

\* D1: control IDs that more than one control has.
DuplicateIds(racm) == Repeated(ControlsOf(racm))

\* D6 and D13 of one risk.
RiskViolations(r) ==
    Broken(r.standards, "D13", {r.id}) \cup Broken(r.controls = <<>>, "D6", {r.id})

LintRacm(racm, strict) ==
    IF racm = <<>> THEN {Violation("D6", {"RACM"})}
    ELSE (UNION {RiskViolations(r) : r \in ToSet(racm)})
         \cup {Violation("D1", {id}) : id \in DuplicateIds(racm)}
         \cup UNION {ControlViolations(c, strict) : c \in ToSet(ControlsOf(racm))}

RacmIds(racm) == {c.id : c \in ToSet(ControlsOf(racm))}

----------------------------------------------------------------------------
(* Findings.  What the quote of a finding shows: "none", "failure",        *)
(* "partial" (a read that was denied or unknown), "envelope" (metadata),   *)
(* or "length" (a password length, in measured), or only what it should.   *)
(* verified is the verdict of the evidence vault on the quote; collected   *)
(* is the day of the evidence; basis says what ToE 'Effective' rests on.   *)

\* _derive_result
DeriveResult(tod, toe, exceptions) ==
    CASE tod = "Ineffective" \/ toe \in {"Exceptions-noted", "Ineffective"}
            \/ OrZero(exceptions) > 0 -> "Exception"
      [] tod = "Not-tested" /\ toe = "Not-tested" /\ OrZero(exceptions) = 0 -> "Not-tested"
      [] OTHER -> "No-exception"

Finding(id, tod, toe, tested, exceptions, quote) ==
    [control |-> id, tod |-> tod, toe |-> toe, tested |-> tested, exceptions |-> exceptions,
     result |-> DeriveResult(tod, toe, exceptions),
     prelim |-> DeriveResult(tod, toe, exceptions) = "Exception",
     quote |-> quote, measured |-> 0, verified |-> quote # "none", collected |-> NotGiven,
     basis |-> "none", slop |-> FALSE]

\* A finding is a record of these attributes.
IsFinding(f) ==
    f = [control |-> f.control, tod |-> f.tod, toe |-> f.toe, tested |-> f.tested,
         exceptions |-> f.exceptions, result |-> f.result, prelim |-> f.prelim,
         quote |-> f.quote, measured |-> f.measured, verified |-> f.verified,
         collected |-> f.collected, basis |-> f.basis, slop |-> f.slop]

\* _consistent: what the validator of a finding accepts.
Consistent(f) ==
    /\ ~ (f.toe = "Effective" /\ OrZero(f.exceptions) > 0)
    /\ f.result = DeriveResult(f.tod, f.toe, f.exceptions)
    /\ f.prelim => f.result = "Exception"
    /\ f.result # "Not-tested" => f.quote # "none"

\* to_finding of a skipped probe, for a control that no collector covers.
NotTested(id) == Finding(id, "Not-tested", "Not-tested", NotGiven, NotGiven, "none")

\* resolve_unmapped_controls_deterministically
ResolveUnmapped(racm, mapped) == {NotTested(id) : id \in RacmIds(racm) \ mapped}

FindingIds(papers) == {f.control : f \in ToSet(papers)}

\* findings_by_id: of findings on one control the last one counts.
FindingOf(papers, id) == papers[SelectLastInSeq(papers, LAMBDA f : f.control = id)]

\* merge_surgical_finding_retries
MergeRepairs(papers, repaired) ==
    [i \in DOMAIN papers |->
        IF papers[i].control \in FindingIds(repaired)
        THEN FindingOf(repaired, papers[i].control)
        ELSE papers[i]]

----------------------------------------------------------------------------
(* The distortion traps.                                                   *)

ClaimsEffective(f) ==
    (f.tod = "Effective" \/ f.toe = "Effective") /\ f.result = "No-exception"

Required(control) == IF control.minimum = NotGiven THEN 14 ELSE control.minimum

\* control is NotGiven for a finding whose control the RACM does not have.
IsSnapshot(f, control) ==
    /\ f.tested \in {NotGiven, 1}
    /\ control # NotGiven => control.nature = "Automated" \/ control.method = "Test-of-one"

LintDistortionTraps(f, control) ==
    IF f.result = "Not-tested" \/ f.quote = "none" THEN {}
    ELSE Broken(ClaimsEffective(f) /\ f.quote = "failure", "TRAP-1", {f.control})
         \cup Broken(ClaimsEffective(f) /\ f.quote = "partial", "TRAP-2", {f.control})
         \cup Broken(f.toe = "Effective" /\ IsSnapshot(f, control) /\ f.basis = "none",
                     "TRAP-3", {f.control})
         \cup (IF ClaimsEffective(f) /\ control # NotGiven /\ f.quote = "length"
               THEN Broken(f.measured < Required(control), "TRAP-4", {f.control})
               ELSE {})
         \cup Broken(f.quote = "envelope", "TRAP-5", {f.control})

----------------------------------------------------------------------------
(* Working papers.                                                         *)

\* controls_by_id
ControlOf(racm, id) ==
    LET controls == ControlsOf(racm)
    IN  IF id \in RacmIds(racm) THEN controls[SelectLastInSeq(controls, LAMBDA c : c.id = id)]
        ELSE NotGiven

\* D1
CoverageViolations(racm, papers) ==
    LET missing == RacmIds(racm) \ FindingIds(papers)
        extra == FindingIds(papers) \ RacmIds(racm)
    IN  Broken(missing # {}, "D1", missing) \cup Broken(extra # {}, "D1", extra)

\* Mutant of PreliminaryViolations: only a deficiency without an exception.
ClaimedDeficiencies(f) == Broken(f.prelim /\ f.result # "Exception", "D3", {f.control})

\* D3
PreliminaryViolations(f) == Broken(f.prelim # (f.result = "Exception"), "D3", {f.control})

\* D2 and D12, with a tolerable rate of 0.
CountViolations(f) ==
    Broken(f.tested # NotGiven /\ f.exceptions # NotGiven /\ OrZero(f.exceptions) > OrZero(f.tested),
           "D2", {f.control})
    \cup Broken(f.result = "Not-tested" /\ (OrZero(f.tested) > 0 \/ OrZero(f.exceptions) > 0),
                "D2", {f.control})
    \cup Broken(OrZero(f.tested) > 0 /\ OrZero(f.exceptions) > 0 /\ f.toe = "Effective",
                "D12", {f.control})

\* D11: the quote, and the day of the evidence with 90 days after the period.
QuoteViolations(f) ==
    Broken(f.result # "Not-tested" /\ (f.quote = "none" \/ ~ f.verified), "D11", {f.control})

PeriodViolations(f, control) ==
    IF control # NotGiven /\ control.period # NotGiven /\ f.collected # NotGiven
    THEN {Warning("D11", {f.control}) :
            day \in {f.collected} \ (control.period[1]..(control.period[2] + 90))}
    ELSE {}

ChangeManagement(racm) ==
    {id \in RacmIds(racm) : ControlOf(racm, id).change_mgmt}

OperatesEffectively(papers, id) ==
    id \in FindingIds(papers) /\ FindingOf(papers, id).toe = "Effective"

\* D8
RelianceViolations(f, racm, papers) ==
    Broken(/\ f.toe = "Effective"
           /\ f.basis = "itgc"
           /\ \E id \in ChangeManagement(racm) \ {f.control} : ~ OperatesEffectively(papers, id),
           "D8", {f.control})

LintWorkingPapers(papers, racm, verify_vault_quotes) ==
    CoverageViolations(racm, papers)
    \cup UNION {
        LET control == ControlOf(racm, f.control)
        IN  CountViolations(f) \cup PreliminaryViolations(f)
            \cup (IF verify_vault_quotes THEN QuoteViolations(f) ELSE {})
            \cup RelianceViolations(f, racm, papers)
            \cup PeriodViolations(f, control)
            \cup LintDistortionTraps(f, control)
            \cup Broken(f.slop, "D14", {f.control}) : f \in ToSet(papers)}

----------------------------------------------------------------------------
(* The report: evaluations [id, findings, risks, cited (the compensating   *)
(* controls it names), likelihood, magnitude, classification, slop].       *)

ScaleClassifications ==
    ("ICFR" :> {"Control-Deficiency", "Significant-Deficiency", "Material-Weakness",
                "Not-a-deficiency"})
        @@ ("Risk-rating" :> {"Low", "Medium", "High", "Not-a-deficiency"})

BelowWeakness(ev) ==
    /\ ev.classification = "Material-Weakness"
    /\ ev.likelihood = "Low" \/ ev.magnitude # "High"

\* The validators of an evaluation and of a report: one scale, and the floor.
ReportConsistent(evaluations) ==
    /\ \A ev \in ToSet(evaluations) : ev.findings # {} /\ ~ BelowWeakness(ev)
    /\ \E scale \in DOMAIN ScaleClassifications :
          \A ev \in ToSet(evaluations) : ev.classification \in ScaleClassifications[scale]

\* D9: what a cited compensating control concluded.
CompensatingViolations(ev, papers) ==
    Broken(\E id \in ev.cited :
              id \in FindingIds(papers)
                => \/ FindingOf(papers, id).result # "No-exception"
                   \/ FindingOf(papers, id).toe # "Effective", "D9", {ev.id})

\* D14 of an evaluation.
ClassificationViolations(ev, scale) ==
    Broken(ev.classification \notin ScaleClassifications[scale] \/ BelowWeakness(ev) \/ ev.slop,
           "D14", {ev.id})

\* Preliminary deficiencies that no evaluation covers.
Uncovered(evaluations, papers) ==
    {f.control : f \in {f \in ToSet(papers) : f.prelim}}
        \ UNION {ev.findings : ev \in ToSet(evaluations)}

LintDeficiencyEvaluations(evaluations, papers, racm, scale) ==
    (UNION {
        Broken(ev.findings \ FindingIds(papers) # {}, "D4", {ev.id})
        \cup Broken(ev.risks \ {r.id : r \in ToSet(racm)} # {}, "D4", {ev.id})
        \cup ClassificationViolations(ev, scale)
        \cup CompensatingViolations(ev, papers) : ev \in ToSet(evaluations)})
    \cup LET uncovered == Uncovered(evaluations, papers)
         IN  Broken(uncovered # {}, "D4", uncovered)

\* prose: which of the forbidden kinds of text the two sections hold.
LintReport(evaluations, prose, papers, racm, scale) ==
    LintDeficiencyEvaluations(evaluations, papers, racm, scale)
    \cup Broken(prose \cap {"slop", "certification"} # {}, "D14", {"report"})
    \cup Broken(scale = "Risk-rating" /\ "sox-terms" \in prose, "D14", {"report"})

----------------------------------------------------------------------------
(* The cascade, in ten-thousandths; probabilities come in percent.         *)

\* compute_control_complexity
Complexity(key, nature, exception, regulations) ==
    (IF key THEN 3500 ELSE 0) + (IF nature = "IT-dependent-manual" THEN 2500 ELSE 0)
        + (IF exception THEN 2500 ELSE 0) + 500 * (IF regulations > 3 THEN 3 ELSE regulations)

\* evaluate_premise_entailment: confidence is what the decision engine says.
PremiseEntailment(f, control, confidence) ==
    IF f.result = "Not-tested" THEN 10000
    ELSE IF f.quote = "none" THEN 0
    ELSE IF LintDistortionTraps(f, control) # {} THEN 500
    ELSE 7990 + 15 * (IF confidence < 60 THEN 60 ELSE confidence)

Span(f) == IF (f.result = "Not-tested" /\ f.quote = "none") \/ f.verified THEN 1 ELSE 0

\* Mutant of Trust: the span of the quote is not asked for.
TrustWithoutSpan(f, control, confidence, sequence) ==
    (3 * PremiseEntailment(f, control, confidence) + 100 * sequence + 2) \div 4

\* s_hat, rounded to four digits; sequence is p_seq.
Trust(f, control, confidence, sequence) ==
    Span(f) * ((3 * PremiseEntailment(f, control, confidence) + 100 * sequence + 2) \div 4)

\* evaluate_finding_cascade
CascadeAction(f, control, key, confidence, sequence) ==
    LET trust == Trust(f, control, confidence, sequence)
        clean == LintDistortionTraps(f, control) = {}
    IN  IF trust >= (IF key THEN 9200 ELSE 8000) /\ clean THEN "fast_accept"
        ELSE IF trust >= 5500 THEN "escalate_system2"
        ELSE "abstain_to_human"
=============================================================================
