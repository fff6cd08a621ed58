-------------------------- MODULE AuditRunsProofs --------------------------
(***************************************************************************)
(* Theorems about the crew runs of AuditFlow: which run the approved       *)
(* drafts came from, and what a repeated run was told of the one before.   *)
(*                                                                         *)
(* Both rest on ThreadOwnsTheLastRun: the run whose attempts the phase     *)
(* thread makes is the last of generation_runs, so an edit of the last run *)
(* (GenerationRun.attempts, qa_outcome) never touches a settled one.       *)
(***************************************************************************)
EXTENDS AuditFlowProofs

\* The runs of a phase.
RunsOf(p) == {i \in DOMAIN generation_runs : generation_runs[i].phase = p}

\* The latest run of a phase is the greatest of its runs.
LEMMA LatestRunIsGreatest ==
    ASSUME TypeOK, NEW p
    PROVE  /\ RunsOf(p) = {} => LatestRun(p) = 0
           /\ RunsOf(p) # {} => /\ LatestRun(p) \in RunsOf(p)
                                /\ \A i \in RunsOf(p) : i <= LatestRun(p)
                                /\ LatestRun(p) = Max(RunsOf(p))
                                /\ LatestRun(p) \in 1..Len(generation_runs)
<1>1. /\ Len(generation_runs) \in Nat
      /\ RunsOf(p) \in SUBSET (1..Len(generation_runs))
    BY LenProperties DEF TypeOK, RunsOf
<1>2. RunsOf(p) # {} => /\ Max(RunsOf(p)) \in RunsOf(p)
                        /\ \A i \in RunsOf(p) : Max(RunsOf(p)) >= i
    BY <1>1, MaxOfIndices
<1>3. LatestRun(p) = IF RunsOf(p) = {} THEN 0 ELSE Max(RunsOf(p))
    BY DEF LatestRun, RunsOf
<1> HIDE DEF RunsOf
<1> QED
    BY <1>1, <1>2, <1>3

\* The greatest of a set of indices that holds an upper bound of it.
LEMMA MaxIs ==
    ASSUME NEW n \in Nat, NEW S \in SUBSET (1..n), NEW m \in S, \A i \in S : i <= m
    PROVE  Max(S) = m
<1>1. Max(S) \in S /\ Max(S) >= m
    BY MaxOfIndices
<1>2. Max(S) <= m /\ Max(S) \in 1..n /\ m \in 1..n
    BY <1>1
<1> QED
    BY <1>1, <1>2

\* One run more.
LEMMA RunAppended ==
    ASSUME TypeOK, NEW run, generation_runs' = Append(generation_runs, run)
    PROVE  LET n == Len(generation_runs)
           IN  /\ n \in Nat
               /\ DOMAIN generation_runs = 1..n
               /\ DOMAIN generation_runs' = 1..(n + 1)
               /\ Len(generation_runs') = n + 1
               /\ \A i \in 1..n : generation_runs'[i] = generation_runs[i]
               /\ generation_runs'[n + 1] = run
    BY DEF TypeOK

\* A run that ends, or is attempted once more, stays where it is.
LEMMA RunEdited ==
    ASSUME TypeOK, Len(generation_runs) >= 1,
           \/ \E o : generation_runs' =
                        [generation_runs EXCEPT ![Len(generation_runs)].outcome = o]
           \/ generation_runs' =
                [generation_runs EXCEPT ![Len(generation_runs)].attempts = @ + 1]
    PROVE  LET n == Len(generation_runs)
           IN  /\ n \in Nat
               /\ DOMAIN generation_runs = 1..n
               /\ DOMAIN generation_runs' = 1..n
               /\ Len(generation_runs') = n
               /\ \A i \in 1..n : /\ i # n => generation_runs'[i] = generation_runs[i]
                                  /\ generation_runs'[i].phase = generation_runs[i].phase
                                  /\ generation_runs'[i].feedback = generation_runs[i].feedback
<1> DEFINE n == Len(generation_runs)
<1>1. n \in Nat /\ n \in 1..n /\ DOMAIN generation_runs = 1..n
    BY LenProperties DEF TypeOK
<1>2. generation_runs[n] \in RunType
    BY <1>1, ElementOfSeq DEF TypeOK
<1>3. PICK run : /\ run.phase = generation_runs[n].phase
                 /\ run.feedback = generation_runs[n].feedback
                 /\ generation_runs' = [i \in 1..n |-> IF i = n THEN run ELSE generation_runs[i]]
    <2>1. ASSUME NEW o, generation_runs' = [generation_runs EXCEPT ![n].outcome = o]
          PROVE  \E run : /\ run.phase = generation_runs[n].phase
                 /\ run.feedback = generation_runs[n].feedback
                 /\ generation_runs' = [i \in 1..n |-> IF i = n THEN run ELSE generation_runs[i]]
        BY <1>1, <1>2, <2>1 DEF RunType
    <2>2. ASSUME generation_runs' = [generation_runs EXCEPT ![n].attempts = @ + 1]
          PROVE  \E run : /\ run.phase = generation_runs[n].phase
                 /\ run.feedback = generation_runs[n].feedback
                 /\ generation_runs' = [i \in 1..n |-> IF i = n THEN run ELSE generation_runs[i]]
        BY <1>1, <1>2, <2>2 DEF RunType
    <2> QED
        BY <2>1, <2>2
<1>4. Len(generation_runs') = n
    BY <1>1, <1>3
<1> HIDE DEF n
<1> QED
    BY <1>1, <1>3, <1>4 DEF n

---------------------------------------------------------------------------
\* A thread in its n-th attempt is the one the status waits for, and the last run
\* is its own.
ThreadOwnsTheLastRun ==
    crew.attempt >= 1 =>
        /\ crew.phase \in Phases
        /\ status = Running(crew.phase)
        /\ Len(generation_runs) >= 1
        /\ generation_runs[Len(generation_runs)].phase = crew.phase
        /\ generation_runs[Len(generation_runs)].outcome = "running"

\* An audit without runs has nothing to be wrong about.
LEMMA InitRuns == Init => ThreadOwnsTheLastRun /\ ProvenanceNamesTheProducer
<1>1. ASSUME Init PROVE \A g : Approvals(g) = {}
    BY <1>1 DEF Init, Approvals
<1> QED
    BY <1>1 DEF Init, ThreadOwnsTheLastRun, NoCrew, ProvenanceNamesTheProducer,
           WaitingForScope, Gate, QARejected

\* Every step keeps ThreadOwnsTheLastRun: StartRun appends the run it owns, the other
\* steps of the thread keep it or give it up, and no human action is accepted while a
\* phase runs.
LEMMA ThreadOwnsStep ==
    ASSUME TypeOK, ThreadOwnsTheLastRun, [Next]_vars
    PROVE  ThreadOwnsTheLastRun'
<1> USE DEF ThreadOwnsTheLastRun
<1>1. ASSUME NEW p \in Phases, PhaseThread(p) PROVE ThreadOwnsTheLastRun'
    <2>1. CASE StartRun(p)
        BY <1>1, <2>1, RunAppended DEF StartRun
    <2>2. CASE AttemptRejected(p)
        <3>1. crew.attempt = 1 /\ crew' = [crew EXCEPT !.attempt = 2]
            BY <2>2 DEF AttemptRejected, MaxQAAttempts
        <3>2. crew'.phase = crew.phase
            BY <3>1 DEF TypeOK
        <3>3. generation_runs[Len(generation_runs)] \in RunType
            BY <3>1, ElementOfSeq DEF TypeOK
        <3>4. generation_runs'[Len(generation_runs)].outcome = "running"
            BY <2>2, <3>1, <3>3 DEF AttemptRejected, TypeOK, RunType
        <3> QED
            BY <2>2, <3>1, <3>2, <3>4, RunEdited DEF AttemptRejected
    <2>3. CASE crew' = NoCrew
        BY <2>3 DEF NoCrew
    <2> QED
        BY <1>1, <2>1, <2>2, <2>3 DEF PhaseThread, RunAborts, RunFails, RunRejected, RunApproved,
            RunEnds
<1>2. ASSUME NEW h \in Names, Human(h) PROVE ThreadOwnsTheLastRun'
    <2>1. CASE \E d \in Requests(h) : RecordDecision(d)
        BY <2>1 DEF RecordDecision
    <2>2. CASE \E p \in Phases : OverrideQA(p, h)
        BY <2>2 DEF OverrideQA, OverridePhase, Transition, Can, QARejected, Running
    <2>3. CASE \E p : crew' \in {NoCrew, Submitted(p)}
        BY <2>3 DEF NoCrew, Submitted
    <2> QED
        BY <1>2, <2>1, <2>2, <2>3 DEF Human, CreateAudit, ApproveGate, RetryPhase, ReturnForRework
<1>3. CASE Vault
    BY <1>3 DEF Vault, LoseEvidence, RestoreEvidence
<1>4. CASE UNCHANGED vars
    BY <1>4 DEF vars
<1> QED
    BY <1>1, <1>2, <1>3, <1>4 DEF Next

---------------------------------------------------------------------------
(* Provenance.                                                             *)

\* Which run of a phase is the latest depends on the set of its runs alone.
LEMMA LatestRunKept ==
    ASSUME TypeOK, TypeOK', NEW p, RunsOf(p)' = RunsOf(p)
    PROVE  LatestRun(p)' = LatestRun(p)
<1>1. LatestRun(p)' = IF RunsOf(p)' = {} THEN 0 ELSE Max(RunsOf(p)')
    BY DEF LatestRun, RunsOf
<1>2. LatestRun(p) = IF RunsOf(p) = {} THEN 0 ELSE Max(RunsOf(p))
    BY DEF LatestRun, RunsOf
<1> QED
    BY <1>1, <1>2

\* While a phase runs, what is settled about the phases before it stays.
\* Every step keeps ProvenanceNamesTheProducer.
LEMMA ProvenanceStep ==
    ASSUME IInv, IInv', ThreadOwnsTheLastRun, ProvenanceNamesTheProducer, [Next]_vars
    PROVE  ProvenanceNamesTheProducer'
<1>0. TypeOK /\ TypeOK' /\ (\A g \in Phases : Approvals(g) # {} <=> g <= GatesPassed)
    BY DEF IInv, ApprovalsFollowTheStatus, Approved
<1>1. ASSUME NEW p \in Phases, PhaseThread(p) PROVE ProvenanceNamesTheProducer'
    <2>1. status = Running(p) /\ GatesPassed = p - 1
        BY <1>1 DEF PhaseThread, StartRun, RunAborts, AttemptRejected, RunFails, RunRejected,
           RunApproved, ThreadOwnsTheLastRun, ErrorPhase, RejectPhase, CompletePhase, Transition,
           Can, GatesPassed, Running, Completed, WaitingForScope
    <2>2. Approvals(p) = {} /\ approval_trail' = approval_trail /\ \A g : Approvals(g)' = Approvals(g)
        BY <1>0, <1>1, <2>1, PhaseThreadQuiet DEF Quiet, Phases, Approvals
    <2>3. \A g \in Phases : g # p => producer'[g] = producer[g]
        BY <1>0, <1>1 DEF PhaseThread, StartRun, RunAborts, AttemptRejected, RunFails, RunRejected,
           RunApproved, TypeOK
    <2>4. \A g \in Phases : \A i \in Approvals(g)' : approval_trail'[i].run = producer'[g]
        BY <2>2, <2>3 DEF ProvenanceNamesTheProducer
    <2>5. ASSUME NEW g \in Phases, status' \in {Gate(g), QARejected(g)}
          PROVE  producer'[g] = LatestRun(g)'
        <3>1. g = p /\ \E o : /\ RunEnds(o)
                              /\ producer' = [producer EXCEPT ![p] = Len(generation_runs)]
                              /\ crew.attempt >= 1
            BY <1>1, <2>1, <2>5 DEF PhaseThread, StartRun, RunAborts, AttemptRejected, RunFails,
               RunRejected, RunApproved, ErrorPhase, RejectPhase, CompletePhase, Transition, Can,
               Running, Gate, QARejected, Error, MaxQAAttempts
        <3>2. /\ Len(generation_runs) \in Nat
              /\ Len(generation_runs) \in RunsOf(p)'
              /\ RunsOf(p)' \in SUBSET (1..Len(generation_runs))
              /\ \A i \in RunsOf(p)' : i <= Len(generation_runs)
            BY <1>0, <2>1, <3>1, RunEdited
               DEF RunEnds, ThreadOwnsTheLastRun, RunsOf, Running
        <3>3. Max(RunsOf(p)') = Len(generation_runs)
            BY <3>2, MaxIs
        <3>4. LatestRun(p)' = Max(RunsOf(p)')
            BY <3>2 DEF LatestRun, RunsOf
        <3> QED
            BY <1>0, <3>1, <3>3, <3>4 DEF TypeOK
    <2> QED
        BY <2>4, <2>5 DEF ProvenanceNamesTheProducer
<1>2. ASSUME NEW h \in Names, Human(h) PROVE ProvenanceNamesTheProducer'
    <2>1. generation_runs' = generation_runs /\ producer' = producer
        BY <1>2 DEF Human, CreateAudit, ApproveGate, RetryPhase, ReturnForRework, OverrideQA,
           RecordDecision
    <2>2. \A g : LatestRun(g)' = LatestRun(g)
        BY <2>1 DEF LatestRun
    <2>3. \A g \in Phases : status' \in {Gate(g), QARejected(g)} =>
                                status \in {Gate(g), QARejected(g)}
        <3>1. \/ \E p \in Phases : status' = Running(p) \/ status' = AfterGate(p)
              \/ \E p \in Phases : status = QARejected(p) /\ status' = Gate(p)
              \/ status' = status
            <4>1. CASE CreateAudit(h)
                BY <4>1 DEF CreateAudit, StartPhase1, Transition, Phases
            <4>2. ASSUME NEW p \in Phases, RetryPhase(p, h) \/ ReturnForRework(p, h)
                  PROVE  status' = Running(p)
                BY <4>2 DEF RetryPhase, ReturnForRework, ReopenPhase, ReturnPhase, Transition
            <4>3. ASSUME NEW p \in Phases, ApproveGate(p, h)
                  PROVE  status' = AfterGate(p)
                BY <4>3 DEF ApproveGate, PassGate, Transition
            <4>4. ASSUME NEW p \in Phases, OverrideQA(p, h)
                  PROVE  status = QARejected(p) /\ status' = Gate(p)
                BY <4>4 DEF OverrideQA, OverridePhase, Transition, Can
            <4>5. ASSUME NEW d, RecordDecision(d)
                  PROVE  status' = status
                BY <4>5 DEF RecordDecision
            <4> QED
                BY <1>2, <4>1, <4>2, <4>3, <4>4, <4>5 DEF Human
        <3> QED
            BY <3>1 DEF AfterGate, Running, Gate, QARejected, Completed
    <2>4. ASSUME NEW g \in Phases, NEW i \in Approvals(g)'
          PROVE  approval_trail'[i].run = producer[g]
        <3>1. CASE \E q \in Phases : ApproveGate(q, h)
            <4>1. PICK q \in Phases : ApproveGate(q, h)
                BY <3>1
            <4> DEFINE entry == [Entry("gate_approval", q, h) EXCEPT
                                    !.digest = artifact[q],
                                    !.run = LatestRun(q),
                                    !.sealed = IF q = 1 THEN {} ELSE PhaseDecisions(q)]
                       n == Len(approval_trail) + 1
            <4>2. approval_trail' = Append(approval_trail, entry)
                BY <4>1 DEF ApproveGate, Stamp
            <4>3. entry.run = LatestRun(q) /\ entry.phase = q
                BY DEF Entry
            <4>4. status = Gate(q)
                BY <4>1 DEF ApproveGate, Can
            <4> HIDE DEF entry
            <4>5. i \in 1..n /\ (i # n => i \in Approvals(g) /\ approval_trail'[i] = approval_trail[i])
                    /\ (i = n => approval_trail'[i] = entry /\ g = q)
                BY <1>0, <2>4, <4>2, <4>3 DEF TypeOK, Approvals, IsApproval
            <4> QED
                BY <4>3, <4>4, <4>5 DEF ProvenanceNamesTheProducer
        <3>2. ASSUME NEW entry, approval_trail' = Append(approval_trail, entry),
                     entry.action # "gate_approval"
              PROVE  i \in Approvals(g) /\ approval_trail'[i] = approval_trail[i]
            BY <1>0, <2>4, <3>2 DEF TypeOK, Approvals, IsApproval
        <3>3. CASE ~ \E q \in Phases : ApproveGate(q, h)
            <4>1. \E entry : approval_trail' = Append(approval_trail, entry)
                                /\ entry.action # "gate_approval"
                BY <1>2, <3>3, HumanEntries
            <4> QED
                BY <3>2, <4>1 DEF ProvenanceNamesTheProducer
        <3> QED
            BY <3>1, <3>3
    <2> QED
        BY <2>1, <2>2, <2>3, <2>4 DEF ProvenanceNamesTheProducer
<1>3. CASE Vault \/ UNCHANGED vars
    <2>1. UNCHANGED <<status, approval_trail, generation_runs, producer>>
        BY <1>3 DEF Vault, LoseEvidence, RestoreEvidence, vars
    <2> QED
        BY <2>1 DEF ProvenanceNamesTheProducer, LatestRun, Approvals
<1> QED
    BY <1>1, <1>2, <1>3 DEF Next

\* The run an approval is stamped with, or a gate is waiting on, is the one that produced
\* the draft: a later run of the phase, which _latest_run_for_phase would find instead,
\* has replaced the draft or taken it away before its phase reaches a gate.
THEOREM RunsAreNamedCorrectly == Spec => []ProvenanceNamesTheProducer
<1>1. IInv /\ ThreadOwnsTheLastRun /\ [Next]_vars => ThreadOwnsTheLastRun'
    BY ThreadOwnsStep DEF IInv
<1>2. IInv /\ IInv' /\ ThreadOwnsTheLastRun /\ ProvenanceNamesTheProducer /\ [Next]_vars
        => ProvenanceNamesTheProducer'
    BY ProvenanceStep
<1> QED
    BY <1>1, <1>2, InitRuns, IInvIsInvariant, PTL DEF Spec

---------------------------------------------------------------------------
(* Feedback.                                                               *)

\* A feedback that fits another run after run n.
Fits(feedback, n) ==
    CASE generation_runs[n].outcome = "error" -> feedback = None
      [] generation_runs[n].outcome = "qa_approved" -> feedback[1] = "notes"
      [] generation_runs[n].outcome = "qa_rejected" ->
            feedback = <<"rejection", n>> \/ feedback[1] = "notes"

\* A feedback that fits the next run of phase p.
FitsPhase(feedback, p) ==
    IF RunsOf(p) = {} THEN feedback = None ELSE Fits(feedback, LatestRun(p))

\* Only the last run can be in flight, and no run is of a phase that has not been
\* reached.
OutcomesSettle ==
    \A k \in DOMAIN generation_runs :
        /\ generation_runs[k].outcome = "running" =>
                k = Len(generation_runs) /\ crew.attempt >= 1
        /\ generation_runs[k].phase <= GatesPassed + 1
        /\ status # WaitingForScope

\* What the status says of the latest run of its phase.
StatusTellsTheOutcome ==
    \A p \in Phases :
        /\ status \in {Gate(p), QARejected(p), Error(p)} => RunsOf(p) # {}
        /\ status = Gate(p) =>
                generation_runs[LatestRun(p)].outcome \in {"qa_approved", "qa_rejected"}
        /\ status = QARejected(p) =>
                /\ generation_runs[LatestRun(p)].outcome = "qa_rejected"
                /\ qa_rejection_reason = <<"rejection", LatestRun(p)>>
        /\ status = Error(p) => generation_runs[LatestRun(p)].outcome = "error"

\* A phase about to run carries the feedback that fits its next run.
NextRunIsFed ==
    \A p \in Phases :
        status = Running(p) /\ crew.attempt = 0 => FitsPhase(CarriedFeedback(p), p)

\* FeedbackIsOfTheRunRepeated is about the runs that have started.  What it needs of
\* the next one is spread over the status, the rejection reason and the reviewers' notes
\* from the moment the run before it ends.
FeedbackInv ==
    /\ IInv
    /\ ThreadOwnsTheLastRun
    /\ OutcomesSettle
    /\ StatusTellsTheOutcome
    /\ NextRunIsFed
    /\ FeedbackIsOfTheRunRepeated

\* An audit that waits for its scope has no runs.
LEMMA InitFeedback == Init => FeedbackInv
<1>1. ASSUME Init PROVE DOMAIN generation_runs = {}
    BY <1>1 DEF Init
<1> QED
    BY <1>1, InitIInv, InitRuns, StatusesDiffer
       DEF Init, FeedbackInv, OutcomesSettle, StatusTellsTheOutcome, NextRunIsFed,
           FeedbackIsOfTheRunRepeated

\* A run that is appended is fed what fits.
LEMMA StartKeepsFeedback ==
    ASSUME FeedbackInv, IInv', ThreadOwnsTheLastRun', NEW p \in Phases, StartRun(p)
    PROVE  FeedbackInv'
<1> DEFINE n == Len(generation_runs)
<1>1. /\ n \in Nat
      /\ DOMAIN generation_runs = 1..n
      /\ DOMAIN generation_runs' = 1..(n + 1)
      /\ Len(generation_runs') = n + 1
      /\ \A i \in 1..n : generation_runs'[i] = generation_runs[i]
      /\ generation_runs'[n + 1] = [phase |-> p, outcome |-> "running", attempts |-> 1,
                                    feedback |-> CarriedFeedback(p)]
      /\ TypeOK
    BY RunAppended DEF StartRun, FeedbackInv, IInv
<1>2. status = Running(p) /\ status' = status /\ crew.attempt = 0 /\ crew'.attempt = 1
    BY DEF StartRun
<1> HIDE DEF n
<1>3. GatesPassed = p - 1 /\ GatesPassed' = p - 1
    BY <1>2 DEF GatesPassed, Running, Completed, WaitingForScope
<1>4. OutcomesSettle'
    <2>1. \A k \in 1..n : generation_runs[k].outcome # "running" /\ generation_runs[k].phase <= p
        BY <1>1, <1>2, <1>3 DEF FeedbackInv, OutcomesSettle, Phases
    <2>2. status' # WaitingForScope
        BY <1>2, StatusesDiffer
    <2> QED
        BY <1>1, <1>2, <1>3, <2>1, <2>2 DEF OutcomesSettle, Phases
<1>5. StatusTellsTheOutcome' /\ NextRunIsFed'
    BY <1>2, StatusesDiffer DEF StatusTellsTheOutcome, NextRunIsFed
<1>6. FeedbackIsOfTheRunRepeated'
    <2>1. ASSUME NEW k \in 1..n
          PROVE  LET run     == generation_runs'[k]
                     earlier == {i \in 1..(k - 1) : generation_runs'[i].phase = run.phase}
                     before  == Max(earlier)
                 IN  IF earlier = {} THEN run.feedback = None
                     ELSE CASE generation_runs'[before].outcome = "error" -> run.feedback = None
                            [] generation_runs'[before].outcome = "qa_approved" ->
                                    run.feedback[1] = "notes"
                            [] generation_runs'[before].outcome = "qa_rejected" ->
                                    \/ run.feedback = <<"rejection", before>>
                                    \/ run.feedback[1] = "notes"
        <3> DEFINE earlier == {i \in 1..(k - 1) : generation_runs[i].phase = generation_runs[k].phase}
        <3>1. generation_runs'[k] = generation_runs[k]
                /\ {i \in 1..(k - 1) : generation_runs'[i].phase = generation_runs'[k].phase} = earlier
            BY <1>1
        <3>2. earlier # {} => Max(earlier) \in 1..n
            <4>1. k - 1 \in Nat /\ earlier \in SUBSET (1..(k - 1))
                BY <1>1
            <4>2. earlier # {} => Max(earlier) \in 1..(k - 1)
                BY <4>1, MaxOfIndices
            <4> QED
                BY <1>1, <4>2
        <3>3. earlier # {} => generation_runs'[Max(earlier)] = generation_runs[Max(earlier)]
            BY <1>1, <3>2
        <3>4. IF earlier = {} THEN generation_runs[k].feedback = None
              ELSE CASE generation_runs[Max(earlier)].outcome = "error" ->
                            generation_runs[k].feedback = None
                     [] generation_runs[Max(earlier)].outcome = "qa_approved" ->
                            generation_runs[k].feedback[1] = "notes"
                     [] generation_runs[Max(earlier)].outcome = "qa_rejected" ->
                            \/ generation_runs[k].feedback = <<"rejection", Max(earlier)>>
                            \/ generation_runs[k].feedback[1] = "notes"
            BY <1>1 DEF FeedbackInv, FeedbackIsOfTheRunRepeated
        <3> HIDE DEF earlier
        <3> QED
            BY <3>1, <3>3, <3>4
    <2>2. LET run     == generation_runs'[n + 1]
              earlier == {i \in 1..n : generation_runs'[i].phase = run.phase}
              before  == Max(earlier)
          IN  IF earlier = {} THEN run.feedback = None
              ELSE CASE generation_runs'[before].outcome = "error" -> run.feedback = None
                     [] generation_runs'[before].outcome = "qa_approved" ->
                             run.feedback[1] = "notes"
                     [] generation_runs'[before].outcome = "qa_rejected" ->
                             \/ run.feedback = <<"rejection", before>>
                             \/ run.feedback[1] = "notes"
        <3>1. {i \in 1..n : generation_runs'[i].phase = generation_runs'[n + 1].phase} = RunsOf(p)
            BY <1>1 DEF RunsOf
        <3>2. FitsPhase(CarriedFeedback(p), p)
            BY <1>2 DEF FeedbackInv, NextRunIsFed
        <3>3. RunsOf(p) # {} => /\ LatestRun(p) = Max(RunsOf(p))
                                /\ LatestRun(p) \in 1..n
            BY <1>1, LatestRunIsGreatest DEF n
        <3> HIDE DEF RunsOf
        <3>4. CASE RunsOf(p) = {}
            BY <1>1, <3>1, <3>2, <3>4 DEF FitsPhase
        <3>5. CASE RunsOf(p) # {}
            <4>1. generation_runs'[LatestRun(p)] = generation_runs[LatestRun(p)]
                BY <1>1, <3>3, <3>5
            <4>2. Fits(CarriedFeedback(p), LatestRun(p))
                BY <3>2, <3>5 DEF FitsPhase
            <4>3. generation_runs'[n + 1].feedback = CarriedFeedback(p)
                BY <1>1
            <4> QED
                BY <3>1, <3>3, <3>5, <4>1, <4>2, <4>3 DEF Fits
        <3> QED
            BY <3>4, <3>5
    <2>3. \A k \in 1..(n + 1) : k \in 1..n \/ k = n + 1
        BY <1>1
    <2>4. (n + 1) - 1 = n
        BY <1>1
    <2> QED
        BY <1>1, <2>1, <2>2, <2>3, <2>4 DEF FeedbackIsOfTheRunRepeated
<1> QED
    BY <1>4, <1>5, <1>6 DEF FeedbackInv

\* The outcome of the last run says nothing of the feedback of an earlier one.
LEMMA EditKeepsFeedback ==
    ASSUME TypeOK, FeedbackIsOfTheRunRepeated,
           DOMAIN generation_runs' = DOMAIN generation_runs,
           \A i \in DOMAIN generation_runs :
                /\ i # Len(generation_runs) => generation_runs'[i] = generation_runs[i]
                /\ generation_runs'[i].phase = generation_runs[i].phase
                /\ generation_runs'[i].feedback = generation_runs[i].feedback
    PROVE  FeedbackIsOfTheRunRepeated'
<1> DEFINE n == Len(generation_runs)
<1>1. n \in Nat /\ DOMAIN generation_runs = 1..n
    BY LenProperties DEF TypeOK
<1> SUFFICES ASSUME NEW k \in 1..n
          PROVE  LET run     == generation_runs'[k]
                     earlier == {i \in 1..(k - 1) : generation_runs'[i].phase = run.phase}
                     before  == Max(earlier)
                 IN  IF earlier = {} THEN run.feedback = None
                     ELSE CASE generation_runs'[before].outcome = "error" -> run.feedback = None
                            [] generation_runs'[before].outcome = "qa_approved" ->
                                    run.feedback[1] = "notes"
                            [] generation_runs'[before].outcome = "qa_rejected" ->
                                    \/ run.feedback = <<"rejection", before>>
                                    \/ run.feedback[1] = "notes"
    BY <1>1 DEF FeedbackIsOfTheRunRepeated
<1> DEFINE earlier == {i \in 1..(k - 1) : generation_runs[i].phase = generation_runs[k].phase}
<1> HIDE DEF n
<1>2. /\ generation_runs'[k].feedback = generation_runs[k].feedback
      /\ {i \in 1..(k - 1) : generation_runs'[i].phase = generation_runs'[k].phase} = earlier
    BY <1>1
<1>3. earlier # {} => Max(earlier) \in 1..n /\ Max(earlier) # n
    <2>1. k - 1 \in Nat /\ earlier \in SUBSET (1..(k - 1))
        BY <1>1
    <2>2. earlier # {} => Max(earlier) \in 1..(k - 1)
        BY <2>1, MaxOfIndices
    <2> QED
        BY <1>1, <2>2
<1>4. earlier # {} => generation_runs'[Max(earlier)] = generation_runs[Max(earlier)]
    BY <1>1, <1>3 DEF n
<1>5. IF earlier = {} THEN generation_runs[k].feedback = None
      ELSE CASE generation_runs[Max(earlier)].outcome = "error" ->
                    generation_runs[k].feedback = None
             [] generation_runs[Max(earlier)].outcome = "qa_approved" ->
                    generation_runs[k].feedback[1] = "notes"
             [] generation_runs[Max(earlier)].outcome = "qa_rejected" ->
                    \/ generation_runs[k].feedback = <<"rejection", Max(earlier)>>
                    \/ generation_runs[k].feedback[1] = "notes"
    BY <1>1 DEF FeedbackIsOfTheRunRepeated
<1> HIDE DEF earlier
<1> QED
    BY <1>2, <1>4, <1>5

\* A run that ends leaves the status of its outcome, and with a rejection its reason.
LEMMA EndKeepsFeedback ==
    ASSUME FeedbackInv, IInv', ThreadOwnsTheLastRun', NEW p \in Phases,
           crew.phase = p, crew.attempt >= 1,
           NEW outcome, RunEnds(outcome),
           \/ status' = Gate(p) /\ outcome = "qa_approved"
           \/ /\ status' = QARejected(p) /\ outcome = "qa_rejected"
              /\ qa_rejection_reason' = <<"rejection", Len(generation_runs)>>
           \/ status' = Error(p) /\ outcome = "error"
    PROVE  FeedbackInv'
<1> DEFINE n == Len(generation_runs)
<1>1. /\ n \in Nat /\ n >= 1
      /\ status = Running(p)
      /\ generation_runs[n].phase = p
      /\ DOMAIN generation_runs = 1..n
      /\ DOMAIN generation_runs' = 1..n
      /\ Len(generation_runs') = n
      /\ \A i \in 1..n : /\ i # n => generation_runs'[i] = generation_runs[i]
                         /\ generation_runs'[i].phase = generation_runs[i].phase
                         /\ generation_runs'[i].feedback = generation_runs[i].feedback
      /\ TypeOK
    BY RunEdited DEF FeedbackInv, IInv, ThreadOwnsTheLastRun, RunEnds
<1> HIDE DEF n
<1>2. generation_runs'[n].outcome = outcome
    <2>1. n \in 1..n
        BY <1>1
    <2>2. generation_runs[n] \in RunType
        BY <1>1, <2>1, ElementOfSeq DEF TypeOK
    <2> QED
        BY <1>1, <2>1, <2>2 DEF RunEnds, RunType, n
<1>3. GatesPassed = p - 1 /\ GatesPassed' = p - 1 /\ status' # WaitingForScope
    BY <1>1 DEF GatesPassed, Running, Completed, WaitingForScope, Gate, QARejected, Error
<1>4. \A i \in 1..n : i # n => generation_runs[i].outcome # "running"
    BY <1>1 DEF FeedbackInv, OutcomesSettle, n
<1>5. OutcomesSettle'
    <2>1. outcome # "running"
        OBVIOUS
    <2>2. \A k \in 1..n : generation_runs[k].phase <= p
        BY <1>1, <1>3 DEF FeedbackInv, OutcomesSettle, Phases
    <2> QED
        BY <1>1, <1>2, <1>3, <1>4, <2>1, <2>2 DEF OutcomesSettle, Phases
<1>6. LatestRun(p)' = n /\ RunsOf(p)' # {}
    <2>1. n \in RunsOf(p)' /\ RunsOf(p)' \in SUBSET (1..n) /\ \A i \in RunsOf(p)' : i <= n
        BY <1>1 DEF RunsOf
    <2>2. Max(RunsOf(p)') = n
        BY <1>1, <2>1, MaxIs
    <2>3. LatestRun(p)' = Max(RunsOf(p)')
        BY <2>1 DEF LatestRun, RunsOf
    <2> QED
        BY <2>1, <2>2, <2>3
<1>7. StatusTellsTheOutcome'
    BY <1>2, <1>6, StatusesDiffer DEF StatusTellsTheOutcome, n
<1>8. NextRunIsFed'
    BY StatusesDiffer DEF NextRunIsFed
<1>9. FeedbackIsOfTheRunRepeated'
    BY <1>1, EditKeepsFeedback DEF FeedbackInv, n
<1> QED
    BY <1>5, <1>7, <1>8, <1>9 DEF FeedbackInv

\* A step of the phase thread.
LEMMA ThreadKeepsFeedback ==
    ASSUME FeedbackInv, IInv', ThreadOwnsTheLastRun', NEW p \in Phases, PhaseThread(p)
    PROVE  FeedbackInv'
<1>1. CASE StartRun(p)
    BY <1>1, StartKeepsFeedback
<1>2. CASE RunAborts(p)
    <2>1. /\ status' = status /\ generation_runs' = generation_runs
          /\ approval_trail' = approval_trail /\ crew.attempt = 0
          /\ status = Running(p)
        BY <1>2 DEF RunAborts
    <2>2. OutcomesSettle'
        BY <2>1 DEF FeedbackInv, OutcomesSettle, GatesPassed
    <2>3. StatusTellsTheOutcome'
        BY <2>1, StatusesDiffer DEF StatusTellsTheOutcome
    <2>4. NextRunIsFed'
        <3>1. /\ \A q : CarriedFeedback(q)' = CarriedFeedback(q)
              /\ \A q : RunsOf(q)' = RunsOf(q) /\ LatestRun(q)' = LatestRun(q)
            BY <2>1 DEF CarriedFeedback, LatestRun, RunsOf
        <3>2. \A q \in Phases : FitsPhase(CarriedFeedback(q), q)' <=> FitsPhase(CarriedFeedback(q), q)
            BY <2>1, <3>1 DEF FitsPhase, Fits
        <3> QED
            BY <2>1, <3>2 DEF FeedbackInv, NextRunIsFed
    <2>5. FeedbackIsOfTheRunRepeated'
        BY <2>1, EditKeepsFeedback DEF FeedbackInv, IInv
    <2> QED
        BY <2>2, <2>3, <2>4, <2>5 DEF FeedbackInv
<1>3. CASE AttemptRejected(p)
    <2> DEFINE n == Len(generation_runs)
    <2>1. crew.attempt >= 1 /\ crew'.attempt >= 1 /\ status' = status /\ TypeOK
        BY <1>3 DEF AttemptRejected, FeedbackInv, IInv, TypeOK, MaxQAAttempts
    <2>2. /\ n \in Nat /\ n >= 1
          /\ DOMAIN generation_runs = 1..n
          /\ DOMAIN generation_runs' = 1..n
          /\ Len(generation_runs') = n
          /\ \A i \in 1..n : /\ i # n => generation_runs'[i] = generation_runs[i]
                             /\ generation_runs'[i].phase = generation_runs[i].phase
                             /\ generation_runs'[i].feedback = generation_runs[i].feedback
        BY <1>3, <2>1, RunEdited DEF FeedbackInv, IInv, ThreadOwnsTheLastRun, AttemptRejected
    <2>3. status = Running(p)
        BY <1>3, <2>1 DEF AttemptRejected, FeedbackInv, ThreadOwnsTheLastRun
    <2>4. OutcomesSettle'
        BY <2>1, <2>2 DEF FeedbackInv, OutcomesSettle, GatesPassed
    <2>5. StatusTellsTheOutcome'
        BY <2>1, <2>3, StatusesDiffer DEF StatusTellsTheOutcome
    <2>6. NextRunIsFed'
        BY <2>1 DEF NextRunIsFed
    <2>7. FeedbackIsOfTheRunRepeated'
        BY <2>1, <2>2, EditKeepsFeedback DEF FeedbackInv
    <2> QED
        BY <2>4, <2>5, <2>6, <2>7 DEF FeedbackInv
<1>4. CASE RunFails(p)
    BY <1>4, EndKeepsFeedback DEF RunFails, ErrorPhase, Transition
<1>5. ASSUME NEW draft, RunRejected(p, draft) PROVE FeedbackInv'
    BY <1>5, EndKeepsFeedback DEF RunRejected, RejectPhase, Transition, MaxQAAttempts
<1>6. ASSUME NEW draft, RunApproved(p, draft) PROVE FeedbackInv'
    BY <1>6, EndKeepsFeedback DEF RunApproved, CompletePhase, Transition
<1> QED
    BY <1>1, <1>2, <1>3, <1>4, <1>5, <1>6 DEF PhaseThread

\* An approval, a return or a retry leaves the phase that runs next with feedback
\* that fits.
LEMMA HumansFeed ==
    ASSUME FeedbackInv, IInv', NEW h \in Names, Human(h)
    PROVE  NextRunIsFed'
<1>1. \A q : RunsOf(q)' = RunsOf(q) /\ LatestRun(q)' = LatestRun(q)
        /\ generation_runs' = generation_runs
    BY DEF Human, CreateAudit, ApproveGate, RetryPhase, ReturnForRework, OverrideQA,
       RecordDecision, RunsOf, LatestRun
<1>2. \A q \in Phases : \A f : FitsPhase(f, q)' <=> FitsPhase(f, q)
    BY <1>1 DEF FitsPhase, Fits
<1>3. TypeOK /\ approval_trail \in Seq(EntryType) /\ Len(approval_trail) \in Nat
    BY LenProperties DEF FeedbackInv, IInv, TypeOK
<1>4. \A entry : approval_trail' = Append(approval_trail, entry) =>
            approval_trail' # <<>> /\ approval_trail'[Len(approval_trail')] = entry
                /\ Len(approval_trail') = Len(approval_trail) + 1
    BY <1>3
<1>5. CASE CreateAudit(h)
    <2>1. status = WaitingForScope /\ status' = Running(1)
        BY <1>5 DEF CreateAudit, StartPhase1, Transition, Can
    <2>2. RunsOf(1) = {}
        BY <2>1 DEF FeedbackInv, OutcomesSettle, RunsOf
    <2>3. CarriedFeedback(1)' = None
        <3>1. Entry("audit_created", 0, h).phase = 0
            BY DEF Entry
        <3> QED
            BY <1>4, <1>5, <3>1 DEF CreateAudit, Stamp, CarriedFeedback
    <2>4. FitsPhase(CarriedFeedback(1)', 1)
        BY <2>2, <2>3 DEF FitsPhase
    <2>5. 1 \in Phases /\ \A p \in Phases : status' = Running(p) => p = 1
        BY <2>1, StatusesDiffer DEF Phases
    <2> QED
        BY <1>2, <2>4, <2>5 DEF NextRunIsFed
<1>6. ASSUME NEW g \in Phases, ApproveGate(g, h) PROVE NextRunIsFed'
    <2>1. status = Gate(g) /\ status' = AfterGate(g)
        BY <1>6 DEF ApproveGate, PassGate, Transition, Can
    <2>2. \A p \in Phases : status' = Running(p) => p = g + 1
        BY <2>1, StatusesDiffer DEF AfterGate
    <2>3. GatesPassed = g - 1
        BY <2>1 DEF GatesPassed, Gate, Completed, WaitingForScope
    <2>4. \A k \in DOMAIN generation_runs : generation_runs[k].phase # g + 1
        <3>1. \A k \in DOMAIN generation_runs : generation_runs[k].phase <= g
            BY <2>3 DEF FeedbackInv, OutcomesSettle, Phases
        <3> QED
            BY <3>1 DEF Phases
    <2>5. RunsOf(g + 1) = {}
        BY <2>4 DEF RunsOf
    <2>6. CarriedFeedback(g + 1)' = None
        <3> DEFINE e == [Entry("gate_approval", g, h) EXCEPT
                            !.digest = artifact[g],
                            !.run = LatestRun(g),
                            !.sealed = IF g = 1 THEN {} ELSE PhaseDecisions(g)]
        <3>1. e.phase = g /\ g # g + 1
            BY DEF Entry, Phases
        <3>2. approval_trail' = Append(approval_trail, e)
            BY <1>6 DEF ApproveGate, Stamp
        <3> HIDE DEF e
        <3> QED
            BY <1>4, <3>1, <3>2 DEF CarriedFeedback
    <2>7. FitsPhase(CarriedFeedback(g + 1)', g + 1)
        BY <2>5, <2>6 DEF FitsPhase
    <2> QED
        BY <1>2, <2>2, <2>7 DEF NextRunIsFed
<1>7. ASSUME NEW p \in Phases, RetryPhase(p, h) PROVE NextRunIsFed'
    <2> DEFINE e == [Entry("retry", p, h) EXCEPT
                        !.previous_status = status,
                        !.reason = qa_rejection_reason,
                        !.run = LatestRun(p)]
    <2>1. status \in {QARejected(p), Error(p)} /\ status' = Running(p)
        BY <1>7 DEF RetryPhase, ReopenPhase, Transition, Can
    <2>2. /\ e.phase = p /\ e.action = "retry" /\ e.previous_status = status
          /\ e.reason = qa_rejection_reason
        BY DEF Entry
    <2>3. approval_trail' = Append(approval_trail, e)
        BY <1>7 DEF RetryPhase, Stamp
    <2> HIDE DEF e
    <2>4. CarriedFeedback(p)' = IF status = QARejected(p) THEN qa_rejection_reason ELSE None
        BY <1>4, <2>2, <2>3 DEF CarriedFeedback
    <2>5. /\ RunsOf(p) # {}
          /\ status = QARejected(p) =>
                /\ generation_runs[LatestRun(p)].outcome = "qa_rejected"
                /\ qa_rejection_reason = <<"rejection", LatestRun(p)>>
          /\ status = Error(p) => generation_runs[LatestRun(p)].outcome = "error"
        BY <2>1 DEF FeedbackInv, StatusTellsTheOutcome
    <2>6. QARejected(p) # Error(p)
        BY StatusesDiffer
    <2>7. FitsPhase(CarriedFeedback(p)', p)
        BY <2>1, <2>4, <2>5, <2>6 DEF FitsPhase, Fits
    <2>8. \A q \in Phases : status' = Running(q) => q = p
        BY <2>1, StatusesDiffer
    <2> QED
        BY <1>2, <2>7, <2>8 DEF NextRunIsFed
<1>8. ASSUME NEW p \in Phases, ReturnForRework(p, h) PROVE NextRunIsFed'
    <2> DEFINE e == [Entry("return_for_rework", p, h) EXCEPT
                        !.digest = artifact[p],
                        !.run = LatestRun(p)]
    <2>1. status = Gate(p) /\ status' = Running(p)
        BY <1>8 DEF ReturnForRework, ReturnPhase, Transition, Can
    <2>2. e.phase = p /\ e.action = "return_for_rework"
        BY DEF Entry
    <2>3. approval_trail' = Append(approval_trail, e)
        BY <1>8 DEF ReturnForRework, Stamp
    <2> HIDE DEF e
    <2>4. CarriedFeedback(p)' = <<"notes", Len(approval_trail')>>
        BY <1>4, <2>2, <2>3 DEF CarriedFeedback
    <2>5. /\ RunsOf(p) # {}
          /\ generation_runs[LatestRun(p)].outcome \in {"qa_approved", "qa_rejected"}
        BY <2>1 DEF FeedbackInv, StatusTellsTheOutcome
    <2>6. FitsPhase(CarriedFeedback(p)', p)
        <3>1. (CarriedFeedback(p)')[1] = "notes"
            BY <2>4
        <3> QED
            BY <2>5, <3>1 DEF FitsPhase, Fits
    <2>7. \A q \in Phases : status' = Running(q) => q = p
        BY <2>1, StatusesDiffer
    <2> QED
        BY <1>2, <2>6, <2>7 DEF NextRunIsFed
<1>9. ASSUME NEW p \in Phases, OverrideQA(p, h) PROVE NextRunIsFed'
    BY <1>9, StatusesDiffer DEF OverrideQA, OverridePhase, Transition, NextRunIsFed
<1>10. ASSUME NEW d, RecordDecision(d) PROVE NextRunIsFed'
    BY <1>10, HumansWait DEF RecordDecision, NextRunIsFed
<1> QED
    BY <1>5, <1>6, <1>7, <1>8, <1>9, <1>10 DEF Human

\* Every human action keeps the invariant: it touches no run, and moves the status
\* only to a phase that is fed.
LEMMA HumansKeepFeedback ==
    ASSUME FeedbackInv, IInv', ThreadOwnsTheLastRun', [Next]_vars, NEW h \in Names, Human(h)
    PROVE  FeedbackInv'
<1>1. /\ \A q : RunsOf(q)' = RunsOf(q) /\ LatestRun(q)' = LatestRun(q)
      /\ generation_runs' = generation_runs
    BY DEF Human, CreateAudit, ApproveGate, RetryPhase, ReturnForRework, OverrideQA,
       RecordDecision, RunsOf, LatestRun
<1>2. TypeOK /\ RunInFlight
    BY DEF FeedbackInv, IInv
<1>3. crew.attempt = 0
    <2>1. crew.attempt \in Nat
        BY <1>2 DEF TypeOK, MaxQAAttempts
    <2> QED
        BY <2>1, HumansWait DEF FeedbackInv, ThreadOwnsTheLastRun
<1>4. OutcomesSettle'
    <2>1. status' # WaitingForScope
        BY <1>2, HumanStep DEF StampsOther, StampsApproval
    <2>2. GatesPassed' >= GatesPassed /\ GatesPassed \in 0..3 /\ GatesPassed' \in 0..3
        BY <1>2, GatesOnlyPass
    <2>3. \A k \in DOMAIN generation_runs : generation_runs[k].phase \in Nat
        <3>1. \A k \in DOMAIN generation_runs : generation_runs[k] \in RunType
            BY <1>2, ElementOfSeq, LenProperties DEF TypeOK
        <3> QED
            BY <3>1 DEF RunType, Phases
    <2> QED
        BY <1>1, <1>3, <2>1, <2>2, <2>3 DEF FeedbackInv, OutcomesSettle
<1>5. StatusTellsTheOutcome'
    <2>1. CASE \E p \in Phases : OverrideQA(p, h)
        <3>1. PICK p \in Phases : OverrideQA(p, h)
            BY <2>1
        <3>2. status = QARejected(p) /\ status' = Gate(p)
            BY <3>1 DEF OverrideQA, OverridePhase, Transition, Can
        <3>3. \A q \in Phases : /\ status' = Gate(q) => q = p
                                /\ status' \notin {QARejected(q), Error(q)}
            BY <3>2, StatusesDiffer
        <3>4. RunsOf(p) # {} /\ generation_runs[LatestRun(p)].outcome = "qa_rejected"
            BY <3>2 DEF FeedbackInv, StatusTellsTheOutcome
        <3> QED
            BY <1>1, <3>3, <3>4 DEF StatusTellsTheOutcome
    <2>2. CASE \E d : RecordDecision(d)
        <3>1. status' = status /\ qa_rejection_reason' = qa_rejection_reason
            BY <2>2 DEF RecordDecision
        <3> QED
            BY <1>1, <3>1 DEF FeedbackInv, StatusTellsTheOutcome
    <2>3. CASE \E p : status' \in {Running(p), Completed}
        BY <2>3, StatusesDiffer DEF StatusTellsTheOutcome
    <2> QED
        BY <2>1, <2>2, <2>3 DEF Human, CreateAudit, ApproveGate, RetryPhase, ReturnForRework,
           StartPhase1, PassGate, ReopenPhase, ReturnPhase, Transition, AfterGate
<1>6. FeedbackIsOfTheRunRepeated'
    BY <1>1, <1>2, EditKeepsFeedback DEF FeedbackInv
<1> QED
    BY <1>4, <1>5, <1>6, HumansFeed DEF FeedbackInv

\* Every step keeps the invariant.
LEMMA FeedbackStep ==
    ASSUME FeedbackInv, IInv', ThreadOwnsTheLastRun', [Next]_vars
    PROVE  FeedbackInv'
<1>1. CASE Vault \/ UNCHANGED vars
    <2>1. UNCHANGED <<status, approval_trail, generation_runs, crew, qa_rejection_reason>>
        BY <1>1 DEF Vault, LoseEvidence, RestoreEvidence, vars
    <2>2. OutcomesSettle'
        BY <2>1 DEF FeedbackInv, OutcomesSettle, GatesPassed
    <2>3. /\ \A q : CarriedFeedback(q)' = CarriedFeedback(q)
          /\ \A q : RunsOf(q)' = RunsOf(q) /\ LatestRun(q)' = LatestRun(q)
        BY <2>1 DEF CarriedFeedback, LatestRun, RunsOf
    <2>4. StatusTellsTheOutcome'
        BY <2>1, <2>3 DEF FeedbackInv, StatusTellsTheOutcome
    <2>5. \A q \in Phases : FitsPhase(CarriedFeedback(q), q)' <=> FitsPhase(CarriedFeedback(q), q)
        BY <2>1, <2>3 DEF FitsPhase, Fits
    <2>6. NextRunIsFed'
        BY <2>1, <2>5 DEF FeedbackInv, NextRunIsFed
    <2>7. FeedbackIsOfTheRunRepeated'
        BY <2>1, EditKeepsFeedback DEF FeedbackInv, IInv
    <2> QED
        BY <2>2, <2>4, <2>6, <2>7 DEF FeedbackInv
<1> QED
    BY <1>1, ThreadKeepsFeedback, HumansKeepFeedback DEF Next

\* A run that repeats a phase is told why: the QA rejection of the very run it repeats
\* (qa_rejection_reason), or the notes of the reviewer who returned the draft, and after
\* an error nothing, since _carried_feedback reads what the last transition left.
THEOREM FeedbackFits == Spec => []FeedbackIsOfTheRunRepeated
<1>1. FeedbackInv /\ [Next]_vars => ThreadOwnsTheLastRun'
    BY ThreadOwnsStep DEF FeedbackInv, IInv
<1>2. FeedbackInv /\ IInv' /\ [Next]_vars => FeedbackInv'
    BY <1>1, FeedbackStep
<1>3. FeedbackInv => FeedbackIsOfTheRunRepeated
    BY DEF FeedbackInv
<1> QED
    BY <1>2, <1>3, InitFeedback, IInvIsInvariant, PTL DEF Spec
=============================================================================
