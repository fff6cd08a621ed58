\* A local model whose name speaks of another family than its weights are of.
SPECIFICATION PartsSpec
CONSTANTS
    None = None
    ann = ann
    bob = bob
    r1 = r1
    r2 = r2
    job1 = job1
    job2 = job2
    stream1 = stream1
    q1 = q1
    q2 = q2
    Callers = {q1, q2}
    MaxTrail = 2
    MaxTails = 1
    Faults = {"write", "restart"}
    Clients = {r1, r2}
    MaxFailures = 2
    Window = 2
    MaxTime = 5
    MaxRecorded = 4
    Pushers = {job1, job2}
    Streams = {stream1}
    MaxEvents = 2
    MaxQueues = 4
    Unset = Unset
    LocalNames <- MCLocalNames
    RouterNames <- MCRouterNames
    QaModels <- MCQaModels
    NotGiven = NotGiven
    Planned <- MCPlanned
    Populations = {1, 50}
    Drafts <- MCDrafts
    Evaluations <- MCEvaluations
    Proses <- MCProses
    MaxCrewRuns = 2
    MaxControls = 2
    MaxFindings = 2
    MaxEvaluations = 1
INVARIANT
    VerifiedCrossFamily
CHECK_DEADLOCK FALSE
