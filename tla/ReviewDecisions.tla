-------------------------- MODULE ReviewDecisions --------------------------
(***************************************************************************)
(* src/swarm/review_decisions.py: the states of recorded reviewer          *)
(* decisions, the conclusion of record they lead to, what each gate still  *)
(* misses, and the validation of one request.  A context ctx holds the     *)
(* drafts the decisions are about; a draft is its digest, and what the     *)
(* decisions read of its content is given by the constants.  A decision is *)
(* named by its place in the append-only list, and 0 means "none".         *)
(***************************************************************************)
EXTENDS ReviewPolicy, Sequences, FiniteSetsExt, Functions

CONSTANTS
    None,            \* an absent value
    Plans,           \* risk-control matrices the planning crew may draft
    Papers,          \* working papers the fieldwork crew may draft
    Reports,         \* reports the reporting crew may draft
    Controls,        \* control IDs
    Deficiencies,    \* deficiency IDs
    KeyControls,     \* plan   -> the controls it marks as key
    Findings,        \* papers -> the findings drafted, in order
    Classification,  \* report -> deficiency -> the classification drafted
    Classifications  \* the classifications on the report's scale

DesignConclusions    == {"Effective", "Ineffective", "Not tested"}
OperatingConclusions == {"Effective", "Exceptions noted", "Ineffective", "Not tested"}

\* What a finding's evidence quote is: absent, one the vault holds, or one it
\* never held.
Quotes == {"none", "held", "fabricated"}

\* exceptions stands for (exceptions_noted or 0) > 0.
FindingType ==
    [control : Controls, tod : DesignConclusions, toe : OperatingConclusions,
     exceptions : BOOLEAN, quote : Quotes]

\* schema._derive_result
DeriveResult(tod, toe, exceptions) ==
    IF tod = "Ineffective" \/ toe \in {"Exceptions noted", "Ineffective"} \/ exceptions
    THEN "Exception"
    ELSE IF tod = "Not tested" /\ toe = "Not tested" THEN "Not tested"
    ELSE "No exception"

DraftResult(f) == DeriveResult(f.tod, f.toe, f.exceptions)

\* AuditFindingSchema._consistent: no finding that breaks these is ever stored.
FindingConsistent(f) ==
    /\ ~ (f.toe = "Effective" /\ f.exceptions)
    /\ DraftResult(f) # "Not tested" => f.quote # "none"

SubsetFunctions(D, R) == UNION {[S -> R] : S \in SUBSET D}

ASSUME DraftsAssumption ==
    /\ None \notin Plans \cup Papers \cup Reports
    /\ KeyControls \in [Plans -> SUBSET Controls]
    /\ Findings \in [Papers -> Seq(FindingType)]
    /\ \A w \in Papers : \A i \in DOMAIN Findings[w] : FindingConsistent(Findings[w][i])
    /\ Classification \in [Reports -> SubsetFunctions(Deficiencies, Classifications)]

---------------------------------------------------------------------------
SubjectKind(type) ==
    CASE type \in {"sign_off", "challenge", "scope_limitation"} -> "finding"
      [] type = "engagement_conclusion"                         -> "engagement"
      [] OTHER                                                  -> "deficiency"

\* Gate whose approval seals a decision of each type.
PhaseForType(type) == IF type \in {"sign_off", "challenge"} THEN 2 ELSE 3

\* sign_off and challenge share a slot: either one is the review of a finding.
SlotOf(type) ==
    IF type \in {"sign_off", "challenge"} THEN "finding_review" ELSE type

\* The draft a decision of this type is about, in context ctx.
DraftFor(ctx, type) ==
    IF SubjectKind(type) = "finding" THEN ctx.papers ELSE ctx.report

FindingControls(papers) == {f.control : f \in Range(Findings[papers])}

\* DecisionContext.finding: the first finding on a control.  Nothing keeps working
\* papers from holding two; they then share one subject.
FindingOn(papers, c) ==
    LET on == {i \in DOMAIN Findings[papers] : Findings[papers][i].control = c}
    IN  Findings[papers][Min(on)]

SubjectsFor(ctx, type) ==
    CASE DraftFor(ctx, type) = None          -> {}
      [] SubjectKind(type) = "finding"       -> FindingControls(ctx.papers)
      [] SubjectKind(type) = "engagement"    -> {"engagement"}
      [] SubjectKind(type) = "deficiency"    -> DOMAIN Classification[ctx.report]

---------------------------------------------------------------------------
DecisionState(ctx, ds, i) ==
    IF \E j \in DOMAIN ds : ds[j].supersedes = i THEN "superseded"
    ELSE IF ds[i].draft # DraftFor(ctx, ds[i].type) THEN "stale"
    ELSE "active"

ActiveDecisions(ctx, ds, slot, subject) ==
    {i \in DOMAIN ds : /\ SlotOf(ds[i].type) = slot
                       /\ ds[i].subject = subject
                       /\ DecisionState(ctx, ds, i) = "active"}

\* active_by_slot: the latest active decision of a slot, or 0.
ActiveBySlot(ctx, ds, slot, subject) ==
    LET active == ActiveDecisions(ctx, ds, slot, subject)
    IN  IF active = {} THEN 0 ELSE Max(active)

\* _effective_conclusions: a finding after an active challenge, as
\* <<ToD, ToE, result>>.
EffectiveConclusions(ctx, ds, c) ==
    LET f       == FindingOn(ctx.papers, c)
        review  == ActiveBySlot(ctx, ds, "finding_review", c)
        changed == IF review = 0 THEN <<>> ELSE ds[review].values
        tod     == IF "tod" \in DOMAIN changed THEN changed.tod ELSE f.tod
        toe     == IF "toe" \in DOMAIN changed THEN changed.toe ELSE f.toe
    IN  <<tod, toe, DeriveResult(tod, toe, f.exceptions)>>

EffectiveResult(ctx, ds, c) == EffectiveConclusions(ctx, ds, c)[3]

---------------------------------------------------------------------------
\* _missing: the subjects that still need a decision before a gate.
IsKey(ctx, c) == ctx.plan # None /\ c \in KeyControls[ctx.plan]

MissingForGate2(ctx, ds) ==
    {c \in SubjectsFor(ctx, "sign_off") :
        /\ FindingNeedsReview(DraftResult(FindingOn(ctx.papers, c)), IsKey(ctx, c))
        /\ ActiveBySlot(ctx, ds, "finding_review", c) = 0}

MissingForGate3(ctx, ds) ==
    {d \in SubjectsFor(ctx, "classify") : ActiveBySlot(ctx, ds, "classify", d) = 0}
    \cup {c \in SubjectsFor(ctx, "scope_limitation") :
            /\ ctx.report # None
            /\ FindingNeedsScopeLimitation(EffectiveResult(ctx, ds, c), IsKey(ctx, c))
            /\ ActiveBySlot(ctx, ds, "scope_limitation", c) = 0}
    \cup {s \in SubjectsFor(ctx, "engagement_conclusion") :
            ActiveBySlot(ctx, ds, "engagement_conclusion", s) = 0}

MissingForGate(ctx, ds, g) ==
    CASE g = 2 -> MissingForGate2(ctx, ds)
      [] g = 3 -> MissingForGate3(ctx, ds)
      [] OTHER -> {}

---------------------------------------------------------------------------
\* The values a request may carry: the conclusions a challenge changes, the
\* classification a reviewer decides on, nothing the properties read otherwise.
ValuesFor(type) ==
    CASE type = "challenge" -> {v \in SubsetFunctions({"tod", "toe"}, OperatingConclusions) :
                                    "tod" \in DOMAIN v => v.tod \in DesignConclusions}
      [] type = "classify"  -> [{"classification"} -> Classifications]
      [] OTHER              -> {<<>>}

\* Mutant of ValuesFit: a scope limitation is taken for any control.
ChallengeFitsOnly(ctx, ds, d) ==
    d.type = "challenge" =>
        LET f     == FindingOn(ctx.papers, d.subject)
            draft == [tod |-> f.tod, toe |-> f.toe]
        IN  \A k \in DOMAIN d.values :
                d.values[k] # draft[k] /\ ConclusionChangeAllowed(draft[k], d.values[k])

\* What build_decision requires of the values and the subject beyond their
\* types.  Only changed conclusions are stored.
ValuesFit(ctx, ds, d) ==
    /\ d.type = "challenge" =>
        LET f     == FindingOn(ctx.papers, d.subject)
            draft == [tod |-> f.tod, toe |-> f.toe]
        IN  \A k \in DOMAIN d.values :
                /\ d.values[k] # draft[k]
                /\ ConclusionChangeAllowed(draft[k], d.values[k])
    /\ d.type = "scope_limitation" => EffectiveResult(ctx, ds, d.subject) = "Not tested"

\* Mutant of TakesTheSlot: a request that names no decision takes any slot.
TakesAnySlot(ctx, ds, d) ==
    d.supersedes \in {0, ActiveBySlot(ctx, ds, SlotOf(d.type), d.subject)}

\* A request supersedes exactly the decision in force in its slot, and none when
\* there is none.
TakesTheSlot(ctx, ds, d) ==
    d.supersedes = ActiveBySlot(ctx, ds, SlotOf(d.type), d.subject)

\* build_decision: the request d is accepted.
DecisionAccepted(ctx, preparers, ds, d) ==
    /\ status \in RecordableStatuses(d.type)
    /\ ~ DecisionSodViolation(d.type, d.by, preparers)
    /\ DraftFor(ctx, d.type) # None
    /\ d.subject \in SubjectsFor(ctx, d.type)
    /\ ValuesFit(ctx, ds, d)
    /\ TakesTheSlot(ctx, ds, d)
===========================================================================
