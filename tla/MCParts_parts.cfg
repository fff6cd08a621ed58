\* One part of the API process after the other, each with the instance that its
\* hazards need: two handlers and what may fail; two clients at the limit; two job
\* threads and a stream; one environment after the other; a crew that runs again
\* after a setback; two controls and two findings.
SPECIFICATION PartsSpec
CONSTANTS
    None = None
    ann = ann
    bob = bob
    r1 = r1
    r2 = r2
    job1 = job1
    job2 = job2
    stream1 = stream1
    q1 = q1
    q2 = q2
    Callers = {q1, q2}
    MaxTrail = 2
    MaxTails = 1
    Faults = {"write", "restart"}
    Clients = {r1, r2}
    MaxFailures = 2
    Window = 2
    MaxTime = 4
    MaxRecorded = 4
    Pushers = {job1, job2}
    Streams = {stream1}
    MaxEvents = 2
    MaxQueues = 4
    Unset = Unset
    LocalNames <- MCLocalNames
    RouterNames <- MCRouterNames
    QaModels <- MCOneQaModel
    NotGiven = NotGiven
    Planned <- MCPlanned
    Populations = {1, 50}
    Drafts <- MCDrafts
    Evaluations <- MCEvaluations
    Proses <- MCProses
    MaxCrewRuns = 2
    MaxControls = 2
    MaxFindings = 2
    MaxEvaluations = 1
INVARIANTS
    FailuresAreBounded
    EventsComeOnceInOrder
    VerdictsAreIndependent
    StoredDraftsWereReviewed
    RecommendedSamplesPass
    
    
    
    AcceptedFindingsPassTheLinter
PROPERTY
    EverybodyFinishes
CHECK_DEADLOCK FALSE
