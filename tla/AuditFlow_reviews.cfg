\* The reviewer's decisions on findings: a key control that was read but not tested
\* in operation, or one that failed; papers redrafted twice, so that a draft decided
\* on goes away and comes back; audits that require decisions.  A preparer and one
\* reviewer, who may do all but pass both Gate 2 and Gate 3.
SPECIFICATION Spec
CONSTANTS
    None = None
    pat = pat
    pat_alias = pat_alias
    ann = ann
    ann_alias = ann_alias
    bob = bob
    c1 = c1
    c2 = c2
    d1 = d1
    planA = planA
    planB = planB
    paperA = paperA
    paperB = paperB
    reportA = reportA
    reportB = reportB
    Names = {pat, ann}
    Identity <- MCPlainIdentities
    Plans = {planA}
    Papers = {paperA, paperB}
    Reports = {reportB}
    Controls = {c1}
    Deficiencies = {d1}
    KeyControls <- MCKeyControls
    Findings <- MCReviewFindings
    Classification <- MCClassification
    Classifications <- MCClassifications
    ReviewDecisionsRequired = TRUE
    EnforceCrossFamily = FALSE
    VolatileControls = {}
    MaxSetbacks = 0
    MaxReruns = 2
    MaxDecisions = 4
    RequestTypes = {"sign_off", "challenge", "scope_limitation", "engagement_conclusion"}
SYMMETRY MCPeople
INVARIANTS
    OneActiveDecisionPerSlot
    ApprovedGatesStayReviewed
    ExceptionsAreNeverWithdrawn
    ScopeLimitationsAreTrue
PROPERTY
    ConclusionsOfRecordAreFrozen
CHECK_DEADLOCK FALSE
