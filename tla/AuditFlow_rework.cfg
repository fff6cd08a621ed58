\* Two re-runs of an audit whose working papers may quote evidence that was never
\* held, or that goes missing and comes back; three people, nothing tells them apart;
\* runs that a configuration of one model family stops from starting.
SPECIFICATION Spec
CONSTANTS
    None = None
    pat = pat
    pat_alias = pat_alias
    ann = ann
    ann_alias = ann_alias
    bob = bob
    c1 = c1
    c2 = c2
    d1 = d1
    planA = planA
    planB = planB
    paperA = paperA
    paperB = paperB
    reportA = reportA
    reportB = reportB
    Names = {pat, ann, bob}
    Identity <- MCPlainIdentities
    Plans = {planA}
    Papers = {paperA, paperB}
    Reports = {reportA}
    Controls = {c1}
    Deficiencies = {d1}
    KeyControls <- MCKeyControls
    Findings <- MCFlowFindings
    Classification <- MCClassification
    Classifications <- MCClassifications
    ReviewDecisionsRequired = FALSE
    EnforceCrossFamily = TRUE
    VolatileControls = {c1}
    MaxSetbacks = 3
    MaxReruns = 2
    MaxDecisions = 0
    RequestTypes = {}
SYMMETRY MCPeople
INVARIANTS
    ProvenanceNamesTheProducer
    
PROPERTY
    UnverifiedEvidenceWasAccepted
CHECK_DEADLOCK FALSE
