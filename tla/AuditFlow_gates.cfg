\* Every way through the gates: three people, one with two names, one re-run; no
\* reviewer decisions (as in audits created without the flag); the phase threads
\* make progress, and no configuration stops a run from starting.
SPECIFICATION FairSpec
CONSTANTS
    None = None
    pat = pat
    pat_alias = pat_alias
    ann = ann
    ann_alias = ann_alias
    bob = bob
    c1 = c1
    c2 = c2
    d1 = d1
    planA = planA
    planB = planB
    paperA = paperA
    paperB = paperB
    reportA = reportA
    reportB = reportB
    Names = {pat, pat_alias, ann, bob}
    Identity <- MCIdentities
    Plans = {planA}
    Papers = {paperA}
    Reports = {reportA}
    Controls = {c1}
    Deficiencies = {d1}
    KeyControls <- MCKeyControls
    Findings <- MCFlowFindings
    Classification <- MCClassification
    Classifications <- MCClassifications
    ReviewDecisionsRequired = FALSE
    EnforceCrossFamily = FALSE
    VolatileControls = {}
    MaxSetbacks = 2
    MaxReruns = 1
    MaxDecisions = 0
    RequestTypes = {}
INVARIANTS
    TypeOK
    ApprovalsFollowTheStatus
    SegregationOfDuties
    ApprovedArtifactsAreSealed
PROPERTIES
    ImplementsSignOff
    RunsSettle
CHECK_DEADLOCK FALSE
