\* Working papers with two findings on a control that is not key: sound, and failed.
SPECIFICATION Spec
CONSTANTS
    None = None
    pat = pat
    pat_alias = pat_alias
    ann = ann
    ann_alias = ann_alias
    bob = bob
    c1 = c1
    c2 = c2
    d1 = d1
    planA = planA
    planB = planB
    paperA = paperA
    paperB = paperB
    reportA = reportA
    reportB = reportB
    Names = {pat, ann}
    Identity <- MCPlainIdentities
    Plans = {planB}
    Papers = {paperA}
    Reports = {reportA}
    Controls = {c1}
    Deficiencies = {d1}
    KeyControls <- MCKeyControls
    Findings <- MCDoubleFindings
    Classification <- MCClassification
    Classifications <- MCClassifications
    ReviewDecisionsRequired = TRUE
    EnforceCrossFamily = FALSE
    VolatileControls = {}
    MaxSetbacks = 0
    MaxReruns = 0
    MaxDecisions = 2
    RequestTypes = {"sign_off", "challenge"}
INVARIANT
    EveryExceptionIsReviewed
CHECK_DEADLOCK FALSE
