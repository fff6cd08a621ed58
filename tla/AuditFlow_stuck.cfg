\* A run whose models are of one family, where the environment forbids that.
SPECIFICATION Spec
CONSTANTS
    None = None
    pat = pat
    pat_alias = pat_alias
    ann = ann
    ann_alias = ann_alias
    bob = bob
    c1 = c1
    c2 = c2
    d1 = d1
    planA = planA
    planB = planB
    paperA = paperA
    paperB = paperB
    reportA = reportA
    reportB = reportB
    Names = {pat, ann}
    Identity <- MCPlainIdentities
    Plans = {planA}
    Papers = {paperA}
    Reports = {reportA}
    Controls = {c1}
    Deficiencies = {d1}
    KeyControls <- MCKeyControls
    Findings <- MCFlowFindings
    Classification <- MCClassification
    Classifications <- MCClassifications
    ReviewDecisionsRequired = FALSE
    EnforceCrossFamily = TRUE
    VolatileControls = {}
    MaxSetbacks = 2
    MaxReruns = 1
    MaxDecisions = 0
    RequestTypes = {}
INVARIANT
    RunningMeansInFlight
CHECK_DEADLOCK FALSE
