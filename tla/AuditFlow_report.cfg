\* The reviewer's decisions on the report, before and after it is issued: papers
\* that need no review, a report with a deficiency and one without.
SPECIFICATION Spec
CONSTANTS
    None = None
    pat = pat
    pat_alias = pat_alias
    ann = ann
    ann_alias = ann_alias
    bob = bob
    c1 = c1
    c2 = c2
    d1 = d1
    planA = planA
    planB = planB
    paperA = paperA
    paperB = paperB
    reportA = reportA
    reportB = reportB
    Names = {pat, ann, bob}
    Identity <- MCPlainIdentities
    Plans = {planB}
    Papers = {paperA}
    Reports = {reportA, reportB}
    Controls = {c1}
    Deficiencies = {d1}
    KeyControls <- MCKeyControls
    Findings <- MCReviewFindings
    Classification <- MCClassification
    Classifications = {"Low"}
    ReviewDecisionsRequired = TRUE
    EnforceCrossFamily = FALSE
    VolatileControls = {}
    MaxSetbacks = 0
    MaxReruns = 1
    MaxDecisions = 4
    RequestTypes = {"classify", "engagement_conclusion", "writeup", "management_response", "remediation_verification"}
SYMMETRY MCPeople
INVARIANTS
    DecisionsAreTheReviewers
    SealedDecisionsAreComplete
CHECK_DEADLOCK FALSE
