--------------------------- MODULE AuditFlowProofs ---------------------------
(***************************************************************************)
(* Theorems about AuditFlow, for every set of names, drafts and controls   *)
(* and every bound: gates, seals and duties, and the refinement of SignOff.*)
(***************************************************************************)
EXTENDS AuditFlow, SequenceTheorems, WellFoundedInduction, TLAPS

---------------------------------------------------------------------------
(* Lemmas about the operators the model is built from.                     *)

\* A set of indices has a greatest element, and Max is it.
LEMMA MaxOfIndices ==
    ASSUME NEW n \in Nat, NEW S \in SUBSET (1..n), S # {}
    PROVE  /\ Max(S) \in S
           /\ \A i \in S : Max(S) >= i
<1> DEFINE T == {n - i : i \in S}
           R == {ss \in Nat \X Nat : ss[1] < ss[2]}
<1>1. T \subseteq Nat
  <2> SUFFICES ASSUME NEW i \in S PROVE n - i \in Nat
    OBVIOUS
  <2> i \in 1..n
    OBVIOUS
  <2> QED
    OBVIOUS
<1>2. T # {}
  OBVIOUS
<1>3. IsWellFoundedOn(R, Nat)
  BY NatLessThanWellFounded DEF OpToRel
<1> HIDE DEF T
<1>4. PICK m \in T : \A k \in T : ~ (<<k, m>> \in R)
  <2> HIDE DEF R
  <2> QED
    BY <1>1, <1>2, <1>3, WFMin, Zenon
<1>5. ASSUME NEW k \in T PROVE m <= k
  <2>1. k \in Nat /\ m \in Nat
    BY <1>1
  <2>2. k < m => <<k, m>> \in R
    BY <2>1
  <2> QED
    BY <2>1, <2>2, <1>4
<1>6. PICK x \in S : m = n - x
  BY <1>4 DEF T
<1>7. \A i \in S : x >= i
  <2> SUFFICES ASSUME NEW i \in S PROVE x >= i
    OBVIOUS
  <2>1. n - i \in T
    BY DEF T
  <2>2. i \in 1..n /\ x \in 1..n
    OBVIOUS
  <2> QED
    BY <2>1, <2>2, <1>5, <1>6
<1> QED
  BY <1>6, <1>7 DEF Max

\* The statuses of a phase are statuses.
LEMMA PhaseStatuses ==
    ASSUME NEW p \in Phases
    PROVE  {Running(p), Gate(p), QARejected(p), Error(p), AfterGate(p)} \subseteq Statuses
BY DEF Phases, Statuses, AfterGate, Running

\* The latest run of a phase is an index of the runs, or 0.
LEMMA LatestRunType ==
    ASSUME TypeOK, NEW p \in Phases
    PROVE  LatestRun(p) \in 0..Len(generation_runs)
<1> DEFINE runs == {i \in DOMAIN generation_runs : generation_runs[i].phase = p}
<1>1. Len(generation_runs) \in Nat /\ DOMAIN generation_runs = 1..Len(generation_runs)
  BY DEF TypeOK
<1>2. runs # {} => Max(runs) \in runs
  BY <1>1, MaxOfIndices
<1> QED
  BY <1>1, <1>2 DEF LatestRun

\* An entry as it is made, before an action fills it in, has the type of entries.
LEMMA EntryHasType ==
    ASSUME NEW p \in Phases \cup {0}, NEW h \in Names,
           NEW action \in {"audit_created", "gate_approval", "retry",
                           "return_for_rework", "qa_override", "review_decision"}
    PROVE  /\ Entry(action, p, h) \in EntryType
           /\ Entry(action, p, h).action = action
           /\ Entry(action, p, h).phase = p
           /\ Entry(action, p, h).human = h
BY DEF Entry, EntryType

\* The findings of working papers are about controls.
LEMMA FindingControlsType ==
    ASSUME NEW w \in Papers
    PROVE  FindingControls(w) \subseteq Controls
<1>1. Findings[w] \in Seq(FindingType)
  BY DraftsAssumption
<1>2. \A i \in DOMAIN Findings[w] : Findings[w][i] \in FindingType
  BY <1>1, ElementOfSeq
<1> QED
  BY <1>2 DEF FindingControls, Range, FindingType

\* A decision that is accepted fits the type of decisions.
LEMMA RequestsHaveType ==
    ASSUME TypeOK, NEW h \in Names, NEW d \in Requests(h),
           DraftFor(Context, d.type) # None
    PROVE  /\ d \in DecisionType
           /\ PhaseForType(d.type) \in Phases
           /\ d.by = h
<1>1. PICK t \in RequestTypes :
        d \in [type : {t}, subject : SubjectsFor(Context, t), draft : {DraftFor(Context, t)},
               values : ValuesFor(t), by : {h}, supersedes : 0..Len(review_decisions)]
  BY DEF Requests
<1>2. d.type = t /\ t \in DecisionTypes
  BY <1>1, BoundsAssumption
<1>3. artifact[2] \in Papers \cup {None} /\ artifact[3] \in Reports \cup {None}
  BY DEF TypeOK, Phases, Drafts
<1>4. DraftFor(Context, t) \in Papers \cup Reports
  BY <1>2, <1>3 DEF DraftFor, Context
<1>5. SubjectsFor(Context, t) \subseteq Controls \cup Deficiencies \cup {"engagement"}
  <2>1. CASE SubjectKind(t) = "finding"
    <3>1. artifact[2] \in Papers
      BY <1>2, <1>3, <2>1 DEF DraftFor, Context
    <3>2. FindingControls(artifact[2]) \subseteq Controls
      BY <3>1, FindingControlsType
    <3> QED
      BY <1>2, <2>1, <3>2 DEF SubjectsFor, Context
  <2>2. CASE SubjectKind(t) = "engagement"
    BY <1>2, <2>2 DEF SubjectsFor
  <2>3. CASE SubjectKind(t) = "deficiency"
    <3>1. artifact[3] \in Reports
      BY <1>2, <1>3, <2>3 DEF DraftFor, Context
    <3>2. DOMAIN Classification[artifact[3]] \subseteq Deficiencies
      BY <3>1, DraftsAssumption DEF SubsetFunctions
    <3> QED
      BY <1>2, <2>3, <3>2 DEF SubjectsFor, Context
  <2> QED
    BY <2>1, <2>2, <2>3 DEF SubjectKind
<1>6. d.values \in UNION {ValuesFor(u) : u \in DecisionTypes}
  BY <1>1, <1>2
<1>7. d \in DecisionType
  <2>1. Len(review_decisions) \in Nat
    BY DEF TypeOK
  <2>2. d.supersedes \in Nat
    BY <1>1, <2>1
  <2> HIDE DEF ValuesFor
  <2> QED
    BY <1>1, <1>2, <1>4, <1>5, <1>6, <2>2 DEF DecisionType
<1> QED
  BY <1>1, <1>7 DEF PhaseForType, Phases

---------------------------------------------------------------------------
(* Type correctness.                                                       *)

\* A new audit has the types.
LEMMA InitTypeOK == Init => TypeOK
BY DEF Init, TypeOK, Statuses, Phases, NoCrew, MaxQAAttempts

\* A thread in its n-th attempt owns the latest run, which counts its attempts.
\* TypeOK alone is not inductive: that a run has at most MaxQAAttempts attempts
\* is only known from the thread that counts them.
RunInFlight ==
    crew.attempt >= 1 =>
        /\ Len(generation_runs) >= 1
        /\ generation_runs[Len(generation_runs)].attempts = crew.attempt

\* A phase thread only rewrites the run it owns, and the run keeps its type.
LEMMA RunRewritten ==
    ASSUME TypeOK, NEW n \in Nat, n = Len(generation_runs), NEW run,
           n >= 1 => run \in RunType /\ run.phase = generation_runs[n].phase,
           generation_runs' = [i \in 1..n |-> IF i = n THEN run ELSE generation_runs[i]]
    PROVE  /\ generation_runs' \in Seq(RunType)
           /\ Len(generation_runs') = n
<1>1. \A i \in 1..n : generation_runs[i] \in RunType
  BY ElementOfSeq DEF TypeOK
<1>2. generation_runs' \in [1..n -> RunType]
  BY <1>1
<1>3. generation_runs' \in Seq(RunType)
  BY <1>2, SeqDef
<1> QED
  BY <1>2, <1>3, LenProperties

\* A run that ends keeps its type.
LEMMA RunEndsType ==
    ASSUME TypeOK, NEW outcome \in {"error", "qa_rejected", "qa_approved"}, RunEnds(outcome)
    PROVE  generation_runs' \in Seq(RunType)
<1> DEFINE n == Len(generation_runs)
           run == [generation_runs[n] EXCEPT !.outcome = outcome]
<1>1. n \in Nat /\ DOMAIN generation_runs = 1..n
  BY LenProperties DEF TypeOK
<1>2. n >= 1 => generation_runs[n] \in RunType
  BY <1>1, ElementOfSeq DEF TypeOK
<1>3. n >= 1 => run \in RunType /\ run.phase = generation_runs[n].phase
  BY <1>2 DEF RunType
<1>4. generation_runs' = [i \in 1..n |-> IF i = n THEN run ELSE generation_runs[i]]
  BY <1>1 DEF RunEnds
<1> HIDE DEF run
<1> QED
  BY <1>1, <1>3, <1>4, RunRewritten

\* So does a run with one attempt more, for which the thread still has a count.
LEMMA AttemptRejectedType ==
    ASSUME TypeOK, RunInFlight, NEW p \in Phases, AttemptRejected(p)
    PROVE  /\ generation_runs' \in Seq(RunType)
           /\ crew' \in [phase : Phases \cup {0}, attempt : 0..MaxQAAttempts,
                         feedback : Reasons \cup {None}]
           /\ RunInFlight'
<1> DEFINE n == Len(generation_runs)
           run == [generation_runs[n] EXCEPT !.attempts = @ + 1]
<1>1. n \in Nat /\ DOMAIN generation_runs = 1..n
  BY LenProperties DEF TypeOK
<1>2. crew.attempt = 1 /\ crew' = [crew EXCEPT !.attempt = 2]
  BY DEF AttemptRejected, MaxQAAttempts
<1>3. n >= 1 /\ generation_runs[n].attempts = 1
  BY <1>1, <1>2 DEF RunInFlight
<1>4. generation_runs[n] \in RunType
  BY <1>1, <1>3, ElementOfSeq DEF TypeOK
<1>5. run \in RunType /\ run.phase = generation_runs[n].phase /\ run.attempts = 2
  BY <1>3, <1>4 DEF RunType, MaxQAAttempts
<1>6. generation_runs' = [i \in 1..n |-> IF i = n THEN run ELSE generation_runs[i]]
  BY <1>1 DEF AttemptRejected
<1>7. crew = [phase |-> crew.phase, attempt |-> crew.attempt, feedback |-> crew.feedback]
        /\ crew.phase \in Phases \cup {0} /\ crew.feedback \in Reasons \cup {None}
  BY DEF TypeOK
<1>8. crew' = [phase |-> crew.phase, attempt |-> 2, feedback |-> crew.feedback]
  BY <1>2, <1>7
<1> HIDE DEF run
<1>9. generation_runs' \in Seq(RunType) /\ Len(generation_runs') = n
  BY <1>1, <1>5, <1>6, RunRewritten
<1>10. generation_runs'[n] = run
  <2>1. n \in 1..n
    BY <1>1, <1>3
  <2> HIDE DEF n
  <2> QED
    BY <1>6, <2>1
<1> HIDE DEF n
<1> QED
  BY <1>3, <1>5, <1>7, <1>8, <1>9, <1>10 DEF RunInFlight, MaxQAAttempts

\* What the thread of a phase leaves behind.
LEMMA PhaseThreadTypeOK ==
    ASSUME TypeOK, RunInFlight, NEW p \in Phases, PhaseThread(p)
    PROVE  TypeOK' /\ RunInFlight'
<1> DEFINE CrewType == [phase : Phases \cup {0}, attempt : 0..MaxQAAttempts,
                        feedback : Reasons \cup {None}]
<1>1. Len(generation_runs) \in Nat
  BY LenProperties DEF TypeOK
<1>2. {Running(p), Gate(p), QARejected(p), Error(p)} \subseteq Statuses
  BY PhaseStatuses
<1>3. NoCrew \in CrewType /\ NoCrew.attempt = 0
  BY DEF NoCrew, MaxQAAttempts
<1>4. \A kind \in {"rejection", "error"} : <<kind, Len(generation_runs)>> \in Reasons
  BY <1>1 DEF Reasons
<1>5. CASE StartRun(p)
  <2> DEFINE run == [phase |-> p, outcome |-> "running", attempts |-> 1,
                     feedback |-> CarriedFeedback(p)]
  <2>1. CarriedFeedback(p) \in Reasons \cup {None}
    <3>1. Len(approval_trail) \in Nat
      BY LenProperties DEF TypeOK
    <3>2. <<"notes", Len(approval_trail)>> \in Reasons
      BY <3>1 DEF Reasons
    <3>3. CASE approval_trail = <<>>
      BY <3>3 DEF CarriedFeedback
    <3>4. CASE approval_trail # <<>>
      <4>1. Len(approval_trail) \in 1..Len(approval_trail)
        BY <3>1, <3>4, EmptySeq DEF TypeOK
      <4>2. approval_trail[Len(approval_trail)] \in EntryType
        BY <4>1, ElementOfSeq DEF TypeOK
      <4>3. approval_trail[Len(approval_trail)].reason \in Reasons \cup {None}
        BY <4>2 DEF EntryType
      <4> QED
        BY <3>2, <4>3 DEF CarriedFeedback
    <3> QED
      BY <3>3, <3>4
  <2>2. run \in RunType /\ run.attempts = 1
    BY <2>1 DEF RunType, MaxQAAttempts
  <2> HIDE DEF run
  <2>3. generation_runs' = Append(generation_runs, run)
    BY <1>5 DEF StartRun, run
  <2>4. generation_runs' \in Seq(RunType) /\ Len(generation_runs') = Len(generation_runs) + 1
        /\ generation_runs'[Len(generation_runs) + 1] = run
    BY <2>2, <2>3, AppendProperties DEF TypeOK
  <2>5. crew' \in CrewType /\ crew'.attempt = 1
    BY <1>5, <2>1 DEF StartRun, MaxQAAttempts
  <2>6. TypeOK'
    BY <1>5, <2>4, <2>5 DEF StartRun, TypeOK
  <2> QED
    BY <1>1, <2>2, <2>4, <2>5, <2>6 DEF RunInFlight
<1>6. CASE RunAborts(p)
  BY <1>3, <1>6 DEF RunAborts, TypeOK, RunInFlight
<1>7. CASE AttemptRejected(p)
  BY <1>7, AttemptRejectedType DEF AttemptRejected, TypeOK
<1>8. CASE RunFails(p)
  <2>1. generation_runs' \in Seq(RunType)
    BY <1>8, RunEndsType DEF RunFails
  <2> QED
    BY <1>2, <1>3, <1>4, <1>8, <2>1
    DEF RunFails, RunEnds, ErrorPhase, Transition, TypeOK, RunInFlight
<1>9. ASSUME NEW draft \in Drafts(p) \cup {None}, RunRejected(p, draft)
      PROVE  TypeOK' /\ RunInFlight'
  <2>1. generation_runs' \in Seq(RunType)
    BY <1>9, RunEndsType DEF RunRejected
  <2>2. \A q \in Phases : artifact'[q] \in Drafts(q) \cup {None}
    BY <1>9 DEF RunRejected, TypeOK
  <2>3. DOMAIN artifact' = Phases /\ producer' \in [Phases -> Nat]
    BY <1>1, <1>9 DEF RunRejected, TypeOK
  <2> QED
    BY <1>2, <1>3, <1>4, <1>9, <2>1, <2>2, <2>3
    DEF RunRejected, RunEnds, RejectPhase, Transition, TypeOK, RunInFlight
<1>10. ASSUME NEW draft \in Drafts(p), RunApproved(p, draft)
       PROVE  TypeOK' /\ RunInFlight'
  <2>1. generation_runs' \in Seq(RunType)
    BY <1>10, RunEndsType DEF RunApproved
  <2>2. \A q \in Phases : artifact'[q] \in Drafts(q) \cup {None}
    BY <1>10 DEF RunApproved, TypeOK
  <2>3. DOMAIN artifact' = Phases /\ producer' \in [Phases -> Nat]
    BY <1>1, <1>10 DEF RunApproved, TypeOK
  <2> QED
    BY <1>2, <1>3, <1>10, <2>1, <2>2, <2>3
    DEF RunApproved, RunEnds, CompletePhase, Transition, TypeOK, RunInFlight
<1> QED
  BY <1>5, <1>6, <1>7, <1>8, <1>9, <1>10 DEF PhaseThread

---------------------------------------------------------------------------
(* What a step of a human does, in the terms the invariants need.          *)

\* An entry that is no approval: the gates passed and the drafts stay.
StampsOther(entry) ==
    /\ Stamp(entry)
    /\ entry.action # "gate_approval"
    /\ entry.action = "audit_created" => status = WaitingForScope
    /\ entry.action \in PreparerExcludedActions =>
            \A n \in Preparers : ~ SamePerson(entry.human, n)
    /\ artifact' = artifact
    /\ GatesPassed' = GatesPassed
    /\ status' # WaitingForScope

\* The approval of gate g, the first that is not passed.
StampsApproval(g, entry) ==
    /\ Stamp(entry)
    /\ IsApproval(entry, g)
    /\ entry.digest = artifact[g]
    /\ artifact[g] # None
    /\ ~ SodViolation("gate_approval", entry.human, g)
    /\ artifact' = artifact
    /\ GatesPassed = g - 1
    /\ GatesPassed' = g
    /\ status' # WaitingForScope

\* An entry that is stamped is the trail's last, and nothing before it moves.
LEMMA StampAppends ==
    ASSUME TypeOK, NEW entry \in EntryType, Stamp(entry)
    PROVE  /\ approval_trail' \in Seq(EntryType)
           /\ Len(approval_trail) \in Nat
           /\ DOMAIN approval_trail = 1..Len(approval_trail)
           /\ DOMAIN approval_trail' = 1..(Len(approval_trail) + 1)
           /\ \A i \in 1..Len(approval_trail) : approval_trail'[i] = approval_trail[i]
           /\ approval_trail'[Len(approval_trail) + 1] = entry
<1>1. approval_trail \in Seq(EntryType) /\ Len(approval_trail) \in Nat
        /\ DOMAIN approval_trail = 1..Len(approval_trail)
  BY LenProperties DEF TypeOK
<1>2. approval_trail' \in Seq(EntryType)
  BY <1>1, AppendProperties DEF Stamp
<1>3. DOMAIN approval_trail' = 1..Len(approval_trail')
  BY <1>2, LenProperties
<1> QED
  BY <1>1, <1>2, <1>3, AppendProperties DEF Stamp

\* Values an entry is filled in with.
LEMMA EntryValues ==
    ASSUME TypeOK, NEW p \in Phases
    PROVE  /\ artifact[p] \in Plans \cup Papers \cup Reports \cup {None}
           /\ LatestRun(p) \in Nat
           /\ PhaseDecisions(p) \in SUBSET Nat
           /\ p = 2 /\ artifact[p] # None => Unverified(artifact[2]) \in SUBSET Controls
<1>1. artifact[p] \in Drafts(p) \cup {None}
  BY DEF TypeOK
<1>2. LatestRun(p) \in Nat
  <2>1. Len(generation_runs) \in Nat
    BY LenProperties DEF TypeOK
  <2> QED
    BY <2>1, LatestRunType
<1>3. PhaseDecisions(p) \in SUBSET Nat
  BY LenProperties DEF PhaseDecisions, TypeOK
<1>4. ASSUME p = 2, artifact[p] # None PROVE Unverified(artifact[2]) \in SUBSET Controls
  <2>1. artifact[2] \in Papers
    BY <1>1, <1>4 DEF Drafts
  <2>2. FindingControls(artifact[2]) \subseteq Controls
    BY <2>1, FindingControlsType
  <2> QED
    BY <2>2 DEF Unverified, FindingControls
<1> QED
  BY <1>1, <1>2, <1>3, <1>4 DEF Drafts, Phases

\* Every action of a human stamps one entry, and keeps the types.
LEMMA HumanStep ==
    ASSUME TypeOK, RunInFlight, NEW h \in Names, Human(h)
    PROVE  /\ TypeOK'
           /\ RunInFlight'
           /\ \E entry \in EntryType :
                StampsOther(entry) \/ \E g \in Phases : StampsApproval(g, entry)
<1> DEFINE CrewType == [phase : Phases \cup {0}, attempt : 0..MaxQAAttempts,
                        feedback : Reasons \cup {None}]
           Stamped == \E entry \in EntryType :
                        StampsOther(entry) \/ \E g \in Phases : StampsApproval(g, entry)
<1>1. \A p \in Phases : Submitted(p) \in CrewType /\ Submitted(p).attempt = 0
  BY DEF Submitted, MaxQAAttempts
<1>2. NoCrew \in CrewType /\ NoCrew.attempt = 0
  BY DEF NoCrew, MaxQAAttempts
<1>3. CASE CreateAudit(h)
  <2> DEFINE entry == Entry("audit_created", 0, h)
  <2>1. entry \in EntryType /\ entry.action = "audit_created"
    BY EntryHasType
  <2>2. Stamp(entry) /\ crew' = Submitted(1) /\ status = WaitingForScope
          /\ status' = Running(1) /\ artifact' = artifact
    BY <1>3 DEF CreateAudit, StartPhase1, Transition, Can
  <2>3. StampsOther(entry)
    BY <2>1, <2>2 DEF StampsOther, GatesPassed, PreparerExcludedActions, WaitingForScope,
                      Running, Completed
  <2> HIDE DEF entry
  <2>4. approval_trail' \in Seq(EntryType)
    BY <2>1, <2>2, StampAppends
  <2>5. Running(1) \in Statuses /\ 1 \in Phases
    BY PhaseStatuses DEF Phases
  <2>6. crew' \in CrewType /\ crew'.attempt = 0
    BY <1>1, <2>2, <2>5
  <2>7. TypeOK' /\ RunInFlight'
    BY <1>3, <2>2, <2>4, <2>5, <2>6 DEF CreateAudit, TypeOK, RunInFlight
  <2> QED
    BY <2>1, <2>3, <2>7
<1>4. ASSUME NEW p \in Phases, ApproveGate(p, h)
      PROVE  TypeOK' /\ RunInFlight' /\ Stamped
  <2> DEFINE entry == [Entry("gate_approval", p, h) EXCEPT
                          !.digest = artifact[p],
                          !.run = LatestRun(p),
                          !.sealed = IF p = 1 THEN {} ELSE PhaseDecisions(p)]
  <2>1. entry \in EntryType /\ IsApproval(entry, p) /\ entry.human = h
          /\ entry.digest = artifact[p]
    <3>1. LET blank == Entry("gate_approval", p, h)
          IN  blank \in EntryType /\ blank.action = "gate_approval" /\ blank.phase = p
                /\ blank.human = h
      BY EntryHasType
    <3>2. /\ artifact[p] \in Plans \cup Papers \cup Reports \cup {None}
          /\ LatestRun(p) \in Nat
          /\ PhaseDecisions(p) \in SUBSET Nat
          /\ status \in Statuses \cup {None}
          /\ qa_rejection_reason \in Reasons \cup {None}
      BY EntryValues DEF TypeOK
    <3> QED
      BY <3>1, <3>2 DEF EntryType, IsApproval
  <2>2. Stamp(entry) /\ status = Gate(p) /\ status' = AfterGate(p) /\ artifact' = artifact
          /\ artifact[p] # None /\ ~ SodViolation("gate_approval", h, p)
    BY <1>4 DEF ApproveGate, PassGate, Transition, Can
  <2>3. GatesPassed = p - 1 /\ GatesPassed' = p /\ status' # WaitingForScope
    BY <2>2 DEF GatesPassed, WaitingForScope, Running, Completed, Gate, AfterGate, Phases
  <2> HIDE DEF entry
  <2>4. StampsApproval(p, entry)
    BY <2>1, <2>2, <2>3 DEF StampsApproval
  <2>5. approval_trail' \in Seq(EntryType)
    BY <2>1, <2>2, StampAppends
  <2>6. crew' \in CrewType /\ crew'.attempt = 0
    BY <1>1, <1>2, <1>4 DEF ApproveGate, Phases
  <2>7. status' \in Statuses
    BY <2>2, PhaseStatuses
  <2>8. TypeOK' /\ RunInFlight'
    BY <1>4, <2>5, <2>6, <2>7 DEF ApproveGate, TypeOK, RunInFlight
  <2> QED
    BY <2>1, <2>4, <2>8
<1>5. ASSUME NEW p \in Phases, RetryPhase(p, h)
      PROVE  TypeOK' /\ RunInFlight' /\ Stamped
  <2> DEFINE entry == [Entry("retry", p, h) EXCEPT
                          !.previous_status = status,
                          !.reason = qa_rejection_reason,
                          !.run = LatestRun(p)]
  <2>1. entry \in EntryType /\ entry.action = "retry"
    <3>1. LET blank == Entry("retry", p, h)
          IN  blank \in EntryType /\ blank.action = "retry" /\ blank.phase = p
                /\ blank.human = h
      BY EntryHasType
    <3>2. /\ artifact[p] \in Plans \cup Papers \cup Reports \cup {None}
          /\ LatestRun(p) \in Nat
          /\ PhaseDecisions(p) \in SUBSET Nat
          /\ status \in Statuses \cup {None}
          /\ qa_rejection_reason \in Reasons \cup {None}
      BY EntryValues DEF TypeOK
    <3> QED
      BY <3>1, <3>2 DEF EntryType
  <2>2. Stamp(entry) /\ status \in {QARejected(p), Error(p)} /\ status' = Running(p)
          /\ artifact' = artifact /\ crew' = Submitted(p)
    BY <1>5 DEF RetryPhase, ReopenPhase, Transition, Can
  <2> HIDE DEF entry
  <2>3. StampsOther(entry)
    BY <2>1, <2>2 DEF StampsOther, GatesPassed, PreparerExcludedActions, WaitingForScope,
                      Running, Completed, QARejected, Error
  <2>4. approval_trail' \in Seq(EntryType)
    BY <2>1, <2>2, StampAppends
  <2>5. status' \in Statuses /\ crew' \in CrewType /\ crew'.attempt = 0
    BY <1>1, <2>2, PhaseStatuses
  <2>6. TypeOK' /\ RunInFlight'
    BY <1>5, <2>4, <2>5 DEF RetryPhase, TypeOK, RunInFlight
  <2> QED
    BY <2>1, <2>3, <2>6
<1>6. ASSUME NEW p \in Phases, ReturnForRework(p, h)
      PROVE  TypeOK' /\ RunInFlight' /\ Stamped
  <2> DEFINE entry == [Entry("return_for_rework", p, h) EXCEPT
                          !.digest = artifact[p],
                          !.run = LatestRun(p)]
  <2>1. entry \in EntryType /\ entry.action = "return_for_rework" /\ entry.human = h
    <3>1. LET blank == Entry("return_for_rework", p, h)
          IN  blank \in EntryType /\ blank.action = "return_for_rework" /\ blank.phase = p
                /\ blank.human = h
      BY EntryHasType
    <3>2. /\ artifact[p] \in Plans \cup Papers \cup Reports \cup {None}
          /\ LatestRun(p) \in Nat
          /\ PhaseDecisions(p) \in SUBSET Nat
          /\ status \in Statuses \cup {None}
          /\ qa_rejection_reason \in Reasons \cup {None}
      BY EntryValues DEF TypeOK
    <3> QED
      BY <3>1, <3>2 DEF EntryType
  <2>2. Stamp(entry) /\ status = Gate(p) /\ status' = Running(p)
          /\ artifact' = artifact /\ crew' = Submitted(p)
          /\ ~ SodViolation("return_for_rework", h, 0)
    BY <1>6 DEF ReturnForRework, ReturnPhase, Transition, Can
  <2> HIDE DEF entry
  <2>3. StampsOther(entry)
    BY <2>1, <2>2 DEF StampsOther, GatesPassed, PreparerExcludedActions, WaitingForScope,
                      Running, Completed, Gate, SodViolation
  <2>4. approval_trail' \in Seq(EntryType)
    BY <2>1, <2>2, StampAppends
  <2>5. status' \in Statuses /\ crew' \in CrewType /\ crew'.attempt = 0
    BY <1>1, <2>2, PhaseStatuses
  <2>6. TypeOK' /\ RunInFlight'
    BY <1>6, <2>4, <2>5 DEF ReturnForRework, TypeOK, RunInFlight
  <2> QED
    BY <2>1, <2>3, <2>6
<1>7. ASSUME NEW p \in Phases, OverrideQA(p, h)
      PROVE  TypeOK' /\ RunInFlight' /\ Stamped
  <2> DEFINE entry == [Entry("qa_override", p, h) EXCEPT
                          !.digest = artifact[p],
                          !.reason = qa_rejection_reason,
                          !.unverified = IF p = 2 THEN Unverified(artifact[2]) ELSE {},
                          !.run = LatestRun(p)]
  <2>1. artifact[p] # None
    BY <1>7 DEF OverrideQA
  <2>2. entry \in EntryType /\ entry.action = "qa_override" /\ entry.human = h
    <3>1. LET blank == Entry("qa_override", p, h)
          IN  blank \in EntryType /\ blank.action = "qa_override" /\ blank.phase = p
                /\ blank.human = h
      BY EntryHasType
    <3>2. /\ artifact[p] \in Plans \cup Papers \cup Reports \cup {None}
          /\ LatestRun(p) \in Nat
          /\ PhaseDecisions(p) \in SUBSET Nat
          /\ status \in Statuses \cup {None}
          /\ qa_rejection_reason \in Reasons \cup {None}
      BY EntryValues DEF TypeOK
    <3>3. (IF p = 2 THEN Unverified(artifact[2]) ELSE {}) \in SUBSET Controls
      BY <2>1, EntryValues
    <3>4. \A controls \in SUBSET Controls :
            LET e == [Entry("qa_override", p, h) EXCEPT
                        !.digest = artifact[p],
                        !.reason = qa_rejection_reason,
                        !.unverified = controls,
                        !.run = LatestRun(p)]
            IN  e \in EntryType /\ e.action = "qa_override" /\ e.human = h
      BY <3>1, <3>2 DEF EntryType
    <3> QED
      BY <3>3, <3>4
  <2>3. Stamp(entry) /\ status = QARejected(p) /\ status' = Gate(p)
          /\ artifact' = artifact /\ ~ SodViolation("qa_override", h, 0)
    BY <1>7 DEF OverrideQA, OverridePhase, Transition, Can
  <2> HIDE DEF entry
  <2>4. StampsOther(entry)
    BY <2>2, <2>3 DEF StampsOther, GatesPassed, PreparerExcludedActions, WaitingForScope,
                      QARejected, Completed, Gate, SodViolation
  <2>5. approval_trail' \in Seq(EntryType)
    BY <2>2, <2>3, StampAppends
  <2>6. status' \in Statuses
    BY <2>3, PhaseStatuses
  <2>7. TypeOK' /\ RunInFlight'
    BY <1>7, <2>5, <2>6 DEF OverrideQA, TypeOK, RunInFlight
  <2> QED
    BY <2>2, <2>4, <2>7
<1>8. ASSUME NEW d \in Requests(h), RecordDecision(d)
      PROVE  TypeOK' /\ RunInFlight' /\ Stamped
  <2> DEFINE entry == [Entry("review_decision", PhaseForType(d.type), d.by) EXCEPT
                          !.decision = Len(review_decisions) + 1,
                          !.digest = d.draft]
  <2>1. d \in DecisionType /\ PhaseForType(d.type) \in Phases /\ d.by = h
    BY <1>8, RequestsHaveType DEF RecordDecision, DecisionAccepted
  <2>2. Len(review_decisions) \in Nat
    BY LenProperties DEF TypeOK
  <2>3. Entry("review_decision", PhaseForType(d.type), d.by) \in EntryType
    BY <2>1, EntryHasType
  <2>4. entry \in EntryType /\ entry.action = "review_decision"
    <3>1. LET blank == Entry("review_decision", PhaseForType(d.type), d.by)
          IN  blank \in EntryType /\ blank.action = "review_decision"
      BY <2>1, EntryHasType
    <3>2. d.draft \in Papers \cup Reports
      BY <2>1 DEF DecisionType
    <3>3. \A i \in Nat :
            LET e == [Entry("review_decision", PhaseForType(d.type), d.by) EXCEPT
                        !.decision = i, !.digest = d.draft]
            IN  e \in EntryType /\ e.action = "review_decision"
      BY <3>1, <3>2 DEF EntryType
    <3>4. Len(review_decisions) + 1 \in Nat
      BY <2>2
    <3> QED
      BY <3>3, <3>4
  <2>5. Stamp(entry) /\ artifact' = artifact /\ status' = status
    BY <1>8 DEF RecordDecision
  <2>6. status # WaitingForScope
    BY <1>8 DEF RecordDecision, DecisionAccepted, RecordableStatuses, WaitingForScope, Gate,
                Completed
  <2> HIDE DEF entry
  <2>7. StampsOther(entry)
    BY <2>4, <2>5, <2>6 DEF StampsOther, GatesPassed, PreparerExcludedActions
  <2>8. approval_trail' \in Seq(EntryType)
    BY <2>4, <2>5, StampAppends
  <2>9. review_decisions' \in Seq(DecisionType)
    BY <1>8, <2>1, AppendProperties DEF RecordDecision, TypeOK
  <2>10. TypeOK' /\ RunInFlight'
    BY <1>8, <2>8, <2>9 DEF RecordDecision, TypeOK, RunInFlight
  <2> QED
    BY <2>4, <2>7, <2>10
<1> QED
  BY <1>3, <1>4, <1>5, <1>6, <1>7, <1>8 DEF Human

---------------------------------------------------------------------------
(* What the other steps do, in the same terms.                             *)

\* The trail, the gates passed and the drafts under them stay.
Quiet ==
    /\ approval_trail' = approval_trail
    /\ GatesPassed' = GatesPassed
    /\ \A g \in Phases : g <= GatesPassed => artifact'[g] = artifact[g]
    /\ status' = WaitingForScope => status = WaitingForScope

\* No step of a phase thread touches the trail, passes a gate or redrafts what lies
\* under a gate that was passed.
LEMMA PhaseThreadQuiet ==
    ASSUME TypeOK, NEW p \in Phases, PhaseThread(p)
    PROVE  Quiet
<1> USE DEF Quiet, GatesPassed, Running, Gate, QARejected, Error, WaitingForScope, Completed
<1>1. CASE StartRun(p)
  BY <1>1 DEF StartRun
<1>2. CASE RunAborts(p)
  BY <1>2 DEF RunAborts
<1>3. CASE AttemptRejected(p)
  BY <1>3 DEF AttemptRejected
<1>4. CASE RunFails(p)
  BY <1>4 DEF RunFails, ErrorPhase, Transition, Can
<1>5. ASSUME NEW draft, RunRejected(p, draft) PROVE Quiet
  <2>1. status = <<"RUNNING_PHASE", p>> /\ status' = <<"QA_REJECTED_PHASE", p>>
          /\ approval_trail' = approval_trail
    BY <1>5 DEF RunRejected, RejectPhase, Transition, Can
  <2>2. GatesPassed = p - 1 /\ GatesPassed' = p - 1
    BY <2>1
  <2>3. \A g \in Phases : g <= p - 1 => artifact'[g] = artifact[g]
    BY <1>5 DEF RunRejected, Phases, TypeOK
  <2> QED
    BY <2>1, <2>2, <2>3
<1>6. ASSUME NEW draft, RunApproved(p, draft) PROVE Quiet
  <2>1. status = <<"RUNNING_PHASE", p>> /\ status' = <<"WAITING_HUMAN_GATE", p>>
          /\ approval_trail' = approval_trail
    BY <1>6 DEF RunApproved, CompletePhase, Transition, Can
  <2>2. GatesPassed = p - 1 /\ GatesPassed' = p - 1
    BY <2>1
  <2>3. \A g \in Phases : g <= p - 1 => artifact'[g] = artifact[g]
    BY <1>6 DEF RunApproved, Phases, TypeOK
  <2> QED
    BY <2>1, <2>2, <2>3
<1> QED
  BY <1>1, <1>2, <1>3, <1>4, <1>5, <1>6 DEF PhaseThread

\* No two statuses are the same, and a status has one phase.
LEMMA StatusesDiffer ==
    ASSUME NEW p, NEW q
    PROVE  /\ Running(p) \notin {Gate(q), QARejected(q), Error(q), WaitingForScope, Completed}
           /\ Gate(p) \notin {QARejected(q), Error(q), WaitingForScope, Completed}
           /\ QARejected(p) \notin {Error(q), WaitingForScope, Completed}
           /\ Error(p) \notin {WaitingForScope, Completed}
           /\ WaitingForScope # Completed
           /\ Running(p) = Running(q) => p = q
           /\ Gate(p) = Gate(q) => p = q
           /\ QARejected(p) = QARejected(q) => p = q
           /\ Error(p) = Error(q) => p = q
    BY DEF Running, Gate, QARejected, Error, WaitingForScope, Completed

\* Nobody acts on an audit that runs.
LEMMA HumansWait ==
    ASSUME NEW h \in Names, Human(h)
    PROVE  \A p \in Phases : status # Running(p)
<1>1. ASSUME NEW d, RecordDecision(d) PROVE \A p \in Phases : status # Running(p)
    BY <1>1 DEF RecordDecision, DecisionAccepted, RecordableStatuses, Running, Gate, Completed
<1> QED
    BY <1>1, StatusesDiffer DEF Human, CreateAudit, ApproveGate, RetryPhase, ReturnForRework,
       OverrideQA, StartPhase1, PassGate, ReopenPhase, ReturnPhase, OverridePhase, Transition, Can

\* The entry that is stamped tells what a human did.
LEMMA HumanEntries ==
    ASSUME NEW h \in Names, Human(h)
    PROVE  \E entry :
                /\ approval_trail' = Append(approval_trail, entry)
                /\ entry.action = "audit_created" => CreateAudit(h)
                /\ entry.action = "gate_approval" => \E g \in Phases : ApproveGate(g, h)
                /\ entry.action = "review_decision" => \E d \in Requests(h) : RecordDecision(d)
<1> DEFINE Tells(entry) ==
                /\ approval_trail' = Append(approval_trail, entry)
                /\ entry.action = "audit_created" => CreateAudit(h)
                /\ entry.action = "gate_approval" => \E g \in Phases : ApproveGate(g, h)
                /\ entry.action = "review_decision" => \E d \in Requests(h) : RecordDecision(d)
<1>1. ASSUME CreateAudit(h) PROVE \E entry : Tells(entry)
    <2> DEFINE e == Entry("audit_created", 0, h)
    <2>1. approval_trail' = Append(approval_trail, e)
        BY <1>1 DEF CreateAudit, Stamp
    <2>2. e.action = "audit_created"
        BY DEF Entry
    <2> HIDE DEF e
    <2>3. Tells(e)
        BY <1>1, <2>1, <2>2
    <2> QED
        BY <2>3
<1>2. ASSUME NEW p \in Phases, ApproveGate(p, h) PROVE \E entry : Tells(entry)
    <2> DEFINE e == [Entry("gate_approval", p, h) EXCEPT
                    !.digest = artifact[p],
                    !.run = LatestRun(p),
                    !.sealed = IF p = 1 THEN {} ELSE PhaseDecisions(p)]
    <2>1. approval_trail' = Append(approval_trail, e)
        BY <1>2 DEF ApproveGate, Stamp
    <2>2. e.action = "gate_approval"
        BY DEF Entry
    <2> HIDE DEF e
    <2>3. Tells(e)
        BY <1>2, <2>1, <2>2
    <2> QED
        BY <2>3
<1>3. ASSUME NEW p \in Phases, RetryPhase(p, h) PROVE \E entry : Tells(entry)
    <2> DEFINE e == [Entry("retry", p, h) EXCEPT
                    !.previous_status = status,
                    !.reason = qa_rejection_reason,
                    !.run = LatestRun(p)]
    <2>1. approval_trail' = Append(approval_trail, e)
        BY <1>3 DEF RetryPhase, Stamp
    <2>2. e.action = "retry"
        BY DEF Entry
    <2> HIDE DEF e
    <2>3. Tells(e)
        BY <1>3, <2>1, <2>2
    <2> QED
        BY <2>3
<1>4. ASSUME NEW p \in Phases, ReturnForRework(p, h) PROVE \E entry : Tells(entry)
    <2> DEFINE e == [Entry("return_for_rework", p, h) EXCEPT
                    !.digest = artifact[p],
                    !.run = LatestRun(p)]
    <2>1. approval_trail' = Append(approval_trail, e)
        BY <1>4 DEF ReturnForRework, Stamp
    <2>2. e.action = "return_for_rework"
        BY DEF Entry
    <2> HIDE DEF e
    <2>3. Tells(e)
        BY <1>4, <2>1, <2>2
    <2> QED
        BY <2>3
<1>5. ASSUME NEW p \in Phases, OverrideQA(p, h) PROVE \E entry : Tells(entry)
    <2> DEFINE e == [Entry("qa_override", p, h) EXCEPT
                    !.digest = artifact[p],
                    !.reason = qa_rejection_reason,
                    !.unverified = IF p = 2 THEN Unverified(artifact[2]) ELSE {},
                    !.run = LatestRun(p)]
    <2>1. approval_trail' = Append(approval_trail, e)
        BY <1>5 DEF OverrideQA, Stamp
    <2>2. e.action = "qa_override"
        BY DEF Entry
    <2> HIDE DEF e
    <2>3. Tells(e)
        BY <1>5, <2>1, <2>2
    <2> QED
        BY <2>3
<1>6. ASSUME NEW d \in Requests(h), RecordDecision(d) PROVE \E entry : Tells(entry)
    <2> DEFINE e == [Entry("review_decision", PhaseForType(d.type), d.by) EXCEPT
                    !.decision = Len(review_decisions) + 1,
                    !.digest = d.draft]
    <2>1. approval_trail' = Append(approval_trail, e)
        BY <1>6 DEF RecordDecision, Stamp
    <2>2. e.action = "review_decision"
        BY DEF Entry
    <2> HIDE DEF e
    <2>3. Tells(e)
        BY <1>6, <2>1, <2>2
    <2> QED
        BY <2>3
<1> QED
    BY <1>1, <1>2, <1>3, <1>4, <1>5, <1>6 DEF Human

\* The evidence vault changes nothing of the audit.
LEMMA VaultStep ==
    ASSUME TypeOK, RunInFlight, Vault
    PROVE  TypeOK' /\ RunInFlight' /\ Quiet
BY DEF Vault, LoseEvidence, RestoreEvidence, TypeOK, RunInFlight, Quiet, GatesPassed

\* Nor does a step that changes nothing.
LEMMA StutteringStep ==
    ASSUME TypeOK, RunInFlight, UNCHANGED vars
    PROVE  TypeOK' /\ RunInFlight' /\ Quiet
BY DEF vars, TypeOK, RunInFlight, Quiet, GatesPassed

\* Every step is quiet or stamps an entry, and keeps the types.
LEMMA EveryStep ==
    ASSUME TypeOK, RunInFlight, [Next]_vars
    PROVE  /\ TypeOK' /\ RunInFlight'
           /\ \/ Quiet
              \/ \E entry \in EntryType :
                    StampsOther(entry) \/ \E g \in Phases : StampsApproval(g, entry)
<1>1. ASSUME NEW p \in Phases, PhaseThread(p)
      PROVE  TypeOK' /\ RunInFlight' /\ Quiet
  BY <1>1, PhaseThreadTypeOK, PhaseThreadQuiet
<1>2. ASSUME NEW h \in Names, Human(h)
      PROVE  /\ TypeOK' /\ RunInFlight'
             /\ \E entry \in EntryType :
                    StampsOther(entry) \/ \E g \in Phases : StampsApproval(g, entry)
  BY <1>2, HumanStep
<1>3. CASE Vault
  BY <1>3, VaultStep
<1>4. CASE UNCHANGED vars
  BY <1>4, StutteringStep
<1> QED
  BY <1>1, <1>2, <1>3, <1>4 DEF Next

\* The number of gates passed.
LEMMA GatesPassedType == TypeOK => GatesPassed \in 0..3
    BY DEF TypeOK, GatesPassed, Statuses, WaitingForScope, Completed, Running, Gate,
       QARejected, Error, Phases

\* Gates once passed stay passed.
LEMMA GatesOnlyPass ==
    ASSUME TypeOK, RunInFlight, [Next]_vars
    PROVE  GatesPassed \in 0..3 /\ GatesPassed' \in 0..3 /\ GatesPassed' >= GatesPassed
<1>1. GatesPassed \in 0..3 /\ GatesPassed' \in 0..3
    <2>1. TypeOK'
        BY EveryStep
    <2> QED
        BY <2>1 DEF TypeOK, GatesPassed, Statuses, WaitingForScope, Completed, Running, Gate,
            QARejected, Error, Phases
<1> QED
    BY <1>1, EveryStep DEF Quiet, StampsOther, StampsApproval

---------------------------------------------------------------------------
(* Type correctness.                                                       *)

\* Every variable of an audit keeps its type, and no run has more attempts than
\* _MAX_QA_ATTEMPTS, whatever the threads and the reviewers do.
THEOREM TypeCorrect == Spec => []TypeOK
<1>1. Init => TypeOK /\ RunInFlight
  BY InitTypeOK DEF Init, RunInFlight, NoCrew
<1>2. TypeOK /\ RunInFlight /\ [Next]_vars => TypeOK' /\ RunInFlight'
  BY EveryStep
<1> QED
  BY <1>1, <1>2, PTL DEF Spec

---------------------------------------------------------------------------
(* The gates.  The three properties stand on each other: that the second   *)
(* reviewer of a report is not the reviewer of its fieldwork is only known *)
(* because Gate 2 is approved once, which is only known because approvals  *)
(* follow the status.                                                      *)

\* Before an audit is created nothing is on its trail.
TrailStartsEmpty == status = WaitingForScope => approval_trail = <<>>

IInv ==
    /\ TypeOK
    /\ RunInFlight
    /\ TrailStartsEmpty
    /\ ApprovalsFollowTheStatus
    /\ ApprovedArtifactsAreSealed
    /\ SegregationOfDuties

\* A new audit satisfies the inductive invariant.
LEMMA InitIInv == Init => IInv
<1>1. ASSUME Init PROVE IInv
  <2>1. DOMAIN approval_trail = {} /\ GatesPassed = 0
    BY <1>1 DEF Init, GatesPassed, WaitingForScope, Completed
  <2>2. \A g \in Phases : Approvals(g) = {}
    BY <2>1 DEF Approvals
  <2>3. ApprovalsFollowTheStatus /\ ApprovedArtifactsAreSealed
    BY <2>1, <2>2 DEF ApprovalsFollowTheStatus, ApprovedArtifactsAreSealed, Approved, Phases
  <2>4. SegregationOfDuties
    BY <2>1 DEF SegregationOfDuties
  <2> QED
    BY <1>1, <2>3, <2>4, InitTypeOK DEF Init, IInv, RunInFlight, NoCrew, TrailStartsEmpty
<1> QED
  BY <1>1

\* How one entry more changes the approvals of a gate.
LEMMA ApprovalsAfterStamp ==
    ASSUME TypeOK, NEW entry \in EntryType, Stamp(entry), NEW k \in Phases
    PROVE  LET n == Len(approval_trail) + 1
           IN  /\ n \in Nat
               /\ \A i \in Approvals(k) : i \in 1..(n - 1)
               /\ Approvals(k)' = Approvals(k) \cup (IF IsApproval(entry, k) THEN {n} ELSE {})
<1> DEFINE n == Len(approval_trail) + 1
<1>1. /\ Len(approval_trail) \in Nat
      /\ DOMAIN approval_trail = 1..Len(approval_trail)
      /\ DOMAIN approval_trail' = 1..n
      /\ \A i \in 1..Len(approval_trail) : approval_trail'[i] = approval_trail[i]
      /\ approval_trail'[n] = entry
  BY StampAppends
<1>2. Approvals(k)' = {i \in 1..n : IsApproval(approval_trail'[i], k)}
  BY <1>1 DEF Approvals, IsApproval
<1>3. ASSUME NEW i \in 1..n
      PROVE  IsApproval(approval_trail'[i], k) <=>
                \/ i \in Approvals(k)
                \/ i = n /\ IsApproval(entry, k)
  <2>1. CASE i = n
    BY <1>1, <2>1 DEF Approvals
  <2>2. CASE i # n
    <3>1. i \in 1..Len(approval_trail)
      BY <1>1, <2>2
    <3> QED
      BY <1>1, <2>2, <3>1 DEF Approvals
  <2> QED
    BY <2>1, <2>2
<1>4. \A i \in Approvals(k) : i \in 1..(n - 1) /\ i \in 1..n
  BY <1>1 DEF Approvals
<1>5. n \in 1..n
  BY <1>1
<1> QED
  BY <1>1, <1>2, <1>3, <1>4, <1>5

\* A step that approves nothing.
LEMMA SealsSurvive ==
    ASSUME IInv, \A k \in Phases : Approvals(k)' = Approvals(k),
           \A i \in DOMAIN approval_trail : approval_trail'[i] = approval_trail[i],
           GatesPassed' = GatesPassed,
           \A g \in Phases : g <= GatesPassed => artifact'[g] = artifact[g]
    PROVE  ApprovalsFollowTheStatus' /\ ApprovedArtifactsAreSealed'
<1>1. ApprovalsFollowTheStatus'
  BY DEF IInv, ApprovalsFollowTheStatus, Approved
<1>2. ASSUME NEW g \in Phases, NEW i \in Approvals(g)'
      PROVE  artifact'[g] # None /\ approval_trail'[i].digest = artifact'[g]
  <2>1. i \in Approvals(g) /\ i \in DOMAIN approval_trail
    BY <1>2 DEF Approvals
  <2>2. g <= GatesPassed
    BY <2>1 DEF IInv, ApprovalsFollowTheStatus, Approved
  <2> QED
    BY <2>1, <2>2 DEF IInv, ApprovedArtifactsAreSealed
<1>3. ApprovedArtifactsAreSealed'
  BY <1>2 DEF ApprovedArtifactsAreSealed
<1> QED
  BY <1>1, <1>3

\* A quiet step keeps the inductive invariant.
LEMMA QuietKeepsIInv ==
    ASSUME IInv, TypeOK', RunInFlight', Quiet
    PROVE  IInv'
<1>1. /\ \A k \in Phases : Approvals(k)' = Approvals(k)
      /\ \A i \in DOMAIN approval_trail : approval_trail'[i] = approval_trail[i]
  BY DEF Quiet, Approvals
<1>2. ApprovalsFollowTheStatus' /\ ApprovedArtifactsAreSealed'
  BY <1>1, SealsSurvive DEF Quiet
<1>3. SegregationOfDuties' /\ TrailStartsEmpty'
  BY DEF IInv, SegregationOfDuties, Quiet, TrailStartsEmpty
<1> QED
  BY <1>2, <1>3 DEF IInv

\* So does a step that stamps anything but an approval.
LEMMA OtherEntryKeepsIInv ==
    ASSUME IInv, TypeOK', RunInFlight', NEW entry \in EntryType, StampsOther(entry)
    PROVE  IInv'
<1> DEFINE n == Len(approval_trail) + 1
<1>1. /\ Len(approval_trail) \in Nat
      /\ DOMAIN approval_trail = 1..Len(approval_trail)
      /\ DOMAIN approval_trail' = 1..n
      /\ \A i \in 1..Len(approval_trail) : approval_trail'[i] = approval_trail[i]
      /\ approval_trail'[n] = entry
  BY StampAppends DEF IInv, StampsOther
<1>2. \A k \in Phases : Approvals(k)' = Approvals(k)
  BY ApprovalsAfterStamp DEF IInv, StampsOther, IsApproval
<1>3. ApprovalsFollowTheStatus' /\ ApprovedArtifactsAreSealed'
  BY <1>1, <1>2, SealsSurvive DEF StampsOther
<1>4. ASSUME NEW i \in 1..n, NEW j \in 1..n,
             SamePerson(approval_trail'[i].human, approval_trail'[j].human)
      PROVE  /\ ~ (/\ approval_trail'[i].action = "audit_created"
                   /\ approval_trail'[j].action \in PreparerExcludedActions)
             /\ ~ (IsApproval(approval_trail'[i], 2) /\ IsApproval(approval_trail'[j], 3))
  <2>1. CASE i # n /\ j # n
    <3>1. i \in DOMAIN approval_trail /\ j \in DOMAIN approval_trail
      BY <1>1, <2>1
    <3> QED
      BY <1>1, <1>4, <3>1 DEF IInv, SegregationOfDuties
  <2>2. CASE i = n
    <3>1. ~ IsApproval(approval_trail'[i], 2)
      BY <1>1, <2>2 DEF StampsOther, IsApproval
    <3>2. entry.action = "audit_created" => n = 1
      BY <1>1, EmptySeq DEF StampsOther, IInv, TrailStartsEmpty
    <3>3. entry.action = "audit_created" => approval_trail'[j] = entry
      BY <1>1, <3>2
    <3> QED
      BY <1>1, <2>2, <3>1, <3>3 DEF PreparerExcludedActions
  <2>3. CASE i # n /\ j = n
    <3>1. ~ IsApproval(approval_trail'[j], 3)
      BY <1>1, <2>3 DEF StampsOther, IsApproval
    <3>2. i \in DOMAIN approval_trail /\ approval_trail'[i] = approval_trail[i]
      BY <1>1, <2>3
    <3>3. approval_trail'[i].action = "audit_created" => approval_trail'[i].human \in Preparers
      BY <3>2 DEF Preparers
    <3> QED
      BY <1>1, <1>4, <2>3, <3>1, <3>3 DEF StampsOther, SamePerson
  <2> QED
    BY <2>1, <2>2, <2>3
<1>5. SegregationOfDuties'
  BY <1>1, <1>4 DEF SegregationOfDuties, SamePerson, IsApproval
<1> QED
  BY <1>3, <1>5 DEF IInv, StampsOther, TrailStartsEmpty

\* So does the approval of a gate: it is the first of its gate, it comes last, it
\* seals the draft as it is, and its person is neither a preparer nor, at Gate 3, the
\* one who approved Gate 2.
LEMMA ApprovalKeepsIInv ==
    ASSUME IInv, TypeOK', RunInFlight', NEW entry \in EntryType, NEW g \in Phases,
           StampsApproval(g, entry)
    PROVE  IInv'
<1> DEFINE n == Len(approval_trail) + 1
<1>1. /\ Len(approval_trail) \in Nat
      /\ DOMAIN approval_trail = 1..Len(approval_trail)
      /\ DOMAIN approval_trail' = 1..n
      /\ \A i \in 1..Len(approval_trail) : approval_trail'[i] = approval_trail[i]
      /\ approval_trail'[n] = entry
  BY StampAppends DEF IInv, StampsApproval
<1>2. /\ n \in Nat
      /\ \A k \in Phases : /\ \A i \in Approvals(k) : i \in 1..(n - 1)
                           /\ k # g => Approvals(k)' = Approvals(k)
      /\ Approvals(g)' = Approvals(g) \cup {n}
  BY ApprovalsAfterStamp DEF IInv, StampsApproval, IsApproval
<1>3. GatesPassed = g - 1 /\ GatesPassed' = g
  BY DEF StampsApproval
<1>4. Approvals(g) = {} /\ Approvals(g)' = {n}
  BY <1>2, <1>3 DEF IInv, ApprovalsFollowTheStatus, Approved, Phases
<1>5. \A k \in Phases : k > g => Approvals(k) = {}
  BY <1>3 DEF IInv, ApprovalsFollowTheStatus, Approved, Phases
<1> HIDE DEF n
<1>6. ApprovalsFollowTheStatus'
  <2>1. \A k \in Phases : Approved(k)' <=> k <= GatesPassed'
    <3>1. \A k \in Phases : Approved(k) <=> k <= GatesPassed
      BY DEF IInv, ApprovalsFollowTheStatus
    <3> QED
      BY <1>2, <1>3, <1>4, <3>1 DEF Approved, Phases
  <2>2. ASSUME NEW k \in Phases, NEW m \in Phases,
               NEW i \in Approvals(k)', NEW j \in Approvals(m)'
        PROVE  (k = m => i = j) /\ (k < m => i < j)
    <3>1. CASE k = g
      <4>1. i = n
        BY <1>4, <2>2, <3>1
      <4>2. m = g => j = n
        BY <1>4, <2>2
      <4>3. ~ (m > g)
        BY <1>2, <1>5, <2>2 DEF Phases
      <4> QED
        BY <3>1, <4>1, <4>2, <4>3 DEF Phases
    <3>2. CASE m = g /\ k # g
      BY <1>2, <1>4, <2>2, <3>2
    <3>3. CASE m # g /\ k # g
      BY <1>2, <2>2, <3>3 DEF IInv, ApprovalsFollowTheStatus
    <3> QED
      BY <3>1, <3>2, <3>3
  <2> QED
    BY <2>1, <2>2 DEF ApprovalsFollowTheStatus
<1>7. ApprovedArtifactsAreSealed'
  <2>1. ASSUME NEW k \in Phases, NEW i \in Approvals(k)'
        PROVE  artifact'[k] # None /\ approval_trail'[i].digest = artifact'[k]
    <3>1. CASE k = g
      BY <1>1, <1>4, <2>1, <3>1 DEF StampsApproval, n
    <3>2. CASE k # g
      <4>1. i \in Approvals(k) /\ i \in DOMAIN approval_trail
        BY <1>2, <2>1, <3>2 DEF Approvals
      <4> QED
        BY <1>1, <4>1 DEF IInv, ApprovedArtifactsAreSealed, StampsApproval
    <3> QED
      BY <3>1, <3>2
  <2> QED
    BY <2>1 DEF ApprovedArtifactsAreSealed
<1>8. ASSUME NEW i \in 1..n, NEW j \in 1..n,
             SamePerson(approval_trail'[i].human, approval_trail'[j].human)
      PROVE  /\ ~ (/\ approval_trail'[i].action = "audit_created"
                   /\ approval_trail'[j].action \in PreparerExcludedActions)
             /\ ~ (IsApproval(approval_trail'[i], 2) /\ IsApproval(approval_trail'[j], 3))
  <2>0. n \in 1..n /\ approval_trail'[n] = entry
    BY <1>1, <1>2 DEF n
  <2>1. CASE i # n /\ j # n
    <3>1. i \in DOMAIN approval_trail /\ j \in DOMAIN approval_trail
      BY <1>1, <2>1 DEF n
    <3> QED
      BY <1>1, <1>8, <3>1 DEF IInv, SegregationOfDuties
  <2>2. CASE i = n
    <3>1. entry.action = "gate_approval" /\ entry.phase = g
      BY DEF StampsApproval, IsApproval
    <3>2. ASSUME IsApproval(approval_trail'[j], 3), g = 2 PROVE FALSE
      <4>1. j # n
        BY <2>0, <3>1, <3>2 DEF IsApproval
      <4>2. j \in DOMAIN approval_trail /\ IsApproval(approval_trail[j], 3)
        BY <1>1, <3>2, <4>1 DEF n
      <4> QED
        BY <1>5, <3>2, <4>2 DEF Approvals, Phases
    <3> QED
      BY <2>0, <2>2, <3>1, <3>2 DEF IsApproval
  <2>3. CASE i # n /\ j = n
    <3>1. i \in DOMAIN approval_trail /\ approval_trail'[i] = approval_trail[i]
      BY <1>1, <2>3 DEF n
    <3>2. approval_trail[i].action # "audit_created"
      <4>1. \A m \in Preparers : ~ SamePerson(entry.human, m)
        BY DEF StampsApproval, SodViolation, PreparerExcludedActions
      <4> QED
        BY <1>8, <2>0, <2>3, <3>1, <4>1 DEF Preparers, SamePerson
    <3>3. ASSUME IsApproval(approval_trail[i], 2), g = 3 PROVE FALSE
      <4>1. i \in Approvals(2) /\ 2 \in Phases
        BY <3>1, <3>3 DEF Approvals, Phases
      <4>2. Approvals(2) = {i}
        <5>1. \A k \in Phases : \A l, m \in Approvals(k) : l = m
          BY DEF IInv, ApprovalsFollowTheStatus
        <5>2. \A l \in Approvals(2) : l = i
          BY <4>1, <5>1, Zenon
        <5> QED
          BY <4>1, <5>2, Zenon
      <4>3. Max({i}) = i
        <5>1. i \in 1..Len(approval_trail)
          BY <1>1, <3>1
        <5>2. Max({i}) \in {i}
          BY <1>1, <5>1, MaxOfIndices
        <5> QED
          BY <5>2
      <4>4. approval_trail[i].human \in GateApprover(2)
        BY <4>2, <4>3 DEF GateApprover, Approvals
      <4>5. ~ SamePerson(entry.human, approval_trail[i].human)
        BY <3>3, <4>4 DEF StampsApproval, SodViolation, DistinctApproverGates
      <4> QED
        BY <1>8, <2>0, <2>3, <3>1, <4>5 DEF SamePerson
    <3> QED
      BY <2>0, <2>3, <3>1, <3>2, <3>3 DEF StampsApproval, IsApproval
  <2> QED
    BY <2>1, <2>2, <2>3
<1>9. SegregationOfDuties'
  BY <1>1, <1>8 DEF SegregationOfDuties, SamePerson, IsApproval, n
<1> QED
  BY <1>6, <1>7, <1>9 DEF IInv, StampsApproval, TrailStartsEmpty

\* The inductive invariant holds in every reachable state.
LEMMA IInvIsInvariant == Spec => []IInv
<1>1. IInv /\ [Next]_vars => IInv'
  <2> SUFFICES ASSUME IInv, [Next]_vars PROVE IInv'
    OBVIOUS
  <2>1. TypeOK /\ RunInFlight
    BY DEF IInv
  <2> QED
    BY <2>1, EveryStep, QuietKeepsIInv, OtherEntryKeepsIInv, ApprovalKeepsIInv
<1> QED
  BY <1>1, InitIInv, PTL DEF Spec

\* A status of phase n is only reached over the approvals of all gates before it,
\* each given once and in order.
THEOREM GatesInOrder == Spec => []ApprovalsFollowTheStatus
<1>1. IInv => ApprovalsFollowTheStatus
  BY DEF IInv
<1> QED
  BY <1>1, IInvIsInvariant, PTL

\* What an approval sealed is what a verification of the trail still finds.
THEOREM SealsHold == Spec => []ApprovedArtifactsAreSealed
<1>1. IInv => ApprovedArtifactsAreSealed
  BY DEF IInv
<1> QED
  BY <1>1, IInvIsInvariant, PTL

\* The preparer approves, overrides and returns nothing, under whatever spelling,
\* and the reviewer of the fieldwork does not approve the report.
THEOREM DutiesAreSegregated == Spec => []SegregationOfDuties
<1>1. IInv => SegregationOfDuties
  BY DEF IInv
<1> QED
  BY <1>1, IInvIsInvariant, PTL

---------------------------------------------------------------------------
(* AuditFlow implements SignOff: seen as a preparer, three drafts and the  *)
(* names that signed them, every step of the crews, the reviewers and the  *)
(* evidence vault is a step of SignOff or none at all.                     *)
(*                                                                         *)
(* The steps of AuditFlow fall into three kinds (EveryStep): those that    *)
(* stamp nothing, those that stamp an entry that is no approval, and the   *)
(* approvals of ApproveGate.  Each kind is mapped in a lemma of its own.   *)

\* Once its scope is given, an audit has a preparer who is one of the names.
PreparerIsNamed ==
    status # WaitingForScope => prepared_by \in Names

\* Only the creation of the audit (record_preparer) writes prepared_by.
LEMMA PreparerChanges ==
    ASSUME [Next]_vars
    PROVE  \/ prepared_by' = prepared_by
           \/ \E h \in Names : CreateAudit(h)
    BY DEF Next, PhaseThread, Human, Vault, vars, StartRun, RunAborts, AttemptRejected, RunFails,
       RunRejected, RunApproved, ApproveGate, RetryPhase, ReturnForRework, OverrideQA,
       RecordDecision, LoseEvidence, RestoreEvidence

\* A draft is written, or taken away, by the run of its own phase and by nothing else:
\* no approval, override, decision or retry touches it.
LEMMA DraftChanges ==
    ASSUME [Next]_vars
    PROVE  \/ artifact' = artifact
           \/ \E p \in Phases : \E d \in Drafts(p) \cup {None} :
                status = Running(p) /\ artifact' = [artifact EXCEPT ![p] = d]
    BY DEF Next, PhaseThread, Human, Vault, vars, StartRun, RunAborts, AttemptRejected, RunFails,
       RunRejected, RejectPhase, RunApproved, CompletePhase, Transition, Can,
       CreateAudit, ApproveGate, RetryPhase, ReturnForRework, OverrideQA,
       RecordDecision, LoseEvidence, RestoreEvidence

\* An audit leaves WaitingForScope only by being created: no run is scheduled and no
\* human action is accepted before.
LEMMA StartChanges ==
    ASSUME [Next]_vars, status = WaitingForScope
    PROVE  \/ status' = status
           \/ \E h \in Names : CreateAudit(h)
<1>1. \A p : /\ Running(p) # WaitingForScope /\ Gate(p) # WaitingForScope
             /\ QARejected(p) # WaitingForScope /\ Error(p) # WaitingForScope
    BY DEF WaitingForScope, Running, Gate, QARejected, Error
<1> QED
    BY <1>1
       DEF Next, PhaseThread, Human, Vault, vars, StartRun, RunAborts, AttemptRejected, RunFails,
           RunRejected, RunApproved, ApproveGate, RetryPhase, ReturnForRework, OverrideQA,
           RecordDecision, LoseEvidence, RestoreEvidence, ErrorPhase, RejectPhase,
           CompletePhase, PassGate, ReopenPhase, ReturnPhase, OverridePhase, Transition, Can

\* Every step keeps PreparerIsNamed.
LEMMA PreparerInv ==
    ASSUME PreparerIsNamed, [Next]_vars
    PROVE  PreparerIsNamed'
    BY PreparerChanges, StartChanges DEF PreparerIsNamed, CreateAudit

---------------------------------------------------------------------------
(* The observer's view.                                                    *)

\* A gate without an approval in the trail counts as signed by nobody.
LEMMA SignedByNobody ==
    ASSUME NEW g, Approvals(g) = {}
    PROVE  SignedBy(g) = None
    BY DEF SignedBy

\* A gate with an approval was signed by the human of that entry, over the digest
\* the entry seals, and since no gate is approved twice the latest approval is that one.
LEMMA SignedBySomebody ==
    ASSUME IInv, NEW g \in Phases, NEW i \in Approvals(g)
    PROVE  /\ SignedBy(g) = [by |-> approval_trail[i].human, draft |-> approval_trail[i].digest]
           /\ SignedBy(g) # None
           /\ Max(Approvals(g)) = i
<1>1. Approvals(g) \in SUBSET (1..Len(approval_trail)) /\ Len(approval_trail) \in Nat
    BY LenProperties DEF IInv, TypeOK, Approvals
<1>2. Max(Approvals(g)) \in Approvals(g)
    BY <1>1, MaxOfIndices
<1>3. Max(Approvals(g)) = i
    BY <1>2 DEF IInv, ApprovalsFollowTheStatus
<1>4. approval_trail[i] \in EntryType
    BY <1>1, ElementOfSeq DEF IInv, TypeOK
<1>5. /\ approval_trail[i].human \in Names
      /\ approval_trail[i].digest = artifact[g] /\ artifact[g] # None
      /\ artifact[g] \in Plans \cup Papers \cup Reports
    BY <1>4, EntryValues DEF EntryType, IInv, ApprovedArtifactsAreSealed
<1>6. [by |-> approval_trail[i].human, draft |-> approval_trail[i].digest]
        \in [by : Names, draft : Plans \cup Papers \cup Reports]
    BY <1>5
<1> QED
    BY <1>3, <1>6, BoundsAssumption DEF SignedBy

\* The signatures depend on the approvals in the trail alone.
LEMMA ViewUnchanged ==
    ASSUME TypeOK, \A k \in Phases : Approvals(k)' = Approvals(k),
           \A i \in DOMAIN approval_trail : approval_trail'[i] = approval_trail[i]
    PROVE  \A k \in Phases : SignedBy(k)' = SignedBy(k)
<1>1. ASSUME NEW k \in Phases, Approvals(k) # {}
      PROVE  Max(Approvals(k)) \in DOMAIN approval_trail
    <2>1. /\ Approvals(k) \in SUBSET (1..Len(approval_trail)) /\ Len(approval_trail) \in Nat
          /\ DOMAIN approval_trail = 1..Len(approval_trail)
        BY LenProperties DEF TypeOK, Approvals
    <2> QED
        BY <1>1, <2>1, MaxOfIndices
<1>2. ASSUME NEW k \in Phases
      PROVE  SignedBy(k)' = SignedBy(k)
    <2>1. CASE Approvals(k) = {}
        BY <1>2, <2>1 DEF SignedBy
    <2>2. CASE Approvals(k) # {}
        BY <1>1, <1>2, <2>2 DEF SignedBy
    <2> QED
        BY <2>1, <2>2
<1> QED
    BY <1>2

\* An audit that waits for its scope is an engagement without preparer, drafts and
\* signatures.
LEMMA PromiseInit == Init => Promise!Init
<1>1. ASSUME Init PROVE \A g : Approvals(g) = {}
    BY <1>1 DEF Init, Approvals
<1> QED
    BY <1>1 DEF Init, Promise!Init, Promise!Gates, Phases, SignedBy

\* Between two approvals, the gates before the one that is open are signed, and it
\* is not.
LEMMA OpenGate ==
    ASSUME IInv, NEW p \in Phases, GatesPassed = p - 1
    PROVE  /\ \A g \in 1..(p - 1) : SignedBy(g) # None
           /\ SignedBy(p) = None
<1>1. \A g \in Phases : Approvals(g) # {} <=> g <= p - 1
    BY DEF IInv, ApprovalsFollowTheStatus, Approved
<1>2. Approvals(p) = {}
    BY <1>1 DEF Phases
<1>3. ASSUME NEW g \in 1..(p - 1) PROVE SignedBy(g) # None
    <2>1. g \in Phases /\ Approvals(g) # {}
        BY <1>1 DEF Phases
    <2> QED
        BY <2>1, SignedBySomebody
<1> QED
    BY <1>2, <1>3, SignedByNobody

\* A step that stamps nothing (the phase thread, the vault) shows at
\* most a new draft of the phase whose gate is open.
LEMMA QuietImplements ==
    ASSUME IInv, PreparerIsNamed, [Next]_vars, Quiet
    PROVE  [Promise!Next]_(Promise!signOffVars)
<1> DEFINE View == [g \in Phases |-> SignedBy(g)]
<1>1. \A k \in Phases : SignedBy(k)' = SignedBy(k)
    BY ViewUnchanged DEF IInv, Quiet, Approvals
<1>2. View' = View
    BY <1>1
<1>3. prepared_by' = prepared_by
    <2>1. ASSUME NEW h \in Names, CreateAudit(h) PROVE FALSE
        <3>1. Entry("audit_created", 0, h) \in EntryType /\ Stamp(Entry("audit_created", 0, h))
            BY <2>1, EntryHasType DEF CreateAudit
        <3> QED
            BY <3>1, StampAppends, LenProperties DEF Quiet, IInv
    <2> QED
        BY <2>1, PreparerChanges
<1>4. CASE artifact' = artifact
    BY <1>2, <1>3, <1>4 DEF Promise!signOffVars
<1>5. ASSUME NEW p \in Phases, NEW d \in Drafts(p) \cup {None},
             status = Running(p), artifact' = [artifact EXCEPT ![p] = d]
      PROVE  Promise!Redraft(p, d)
    <2>1. GatesPassed = p - 1 /\ status # WaitingForScope
        BY <1>5 DEF GatesPassed, Running, Completed, WaitingForScope
    <2>2. prepared_by # None
        BY <2>1, BoundsAssumption DEF PreparerIsNamed
    <2>3. Promise!Open(p)
        BY <2>1, OpenGate DEF Promise!Open, Phases
    <2> QED
        BY <1>2, <1>3, <1>5, <2>2, <2>3 DEF Promise!Redraft
<1>6. \A p \in Phases : Promise!DraftsOf(p) = Drafts(p)
    BY DEF Promise!DraftsOf, Drafts
<1> QED
    BY <1>4, <1>5, <1>6, DraftChanges DEF Promise!Next, Promise!Gates, Phases

\* A step that stamps something other than an approval (a creation, an override, a
\* return, a decision) shows at most the preparer.
LEMMA OtherEntryImplements ==
    ASSUME IInv, PreparerIsNamed, [Next]_vars, NEW entry \in EntryType, StampsOther(entry)
    PROVE  [Promise!Next]_(Promise!signOffVars)
<1> DEFINE View == [g \in Phases |-> SignedBy(g)]
<1>1. \A k \in Phases : Approvals(k)' = Approvals(k)
    BY ApprovalsAfterStamp DEF IInv, StampsOther, IsApproval
<1>2. \A k \in Phases : SignedBy(k)' = SignedBy(k)
    BY <1>1, ViewUnchanged, StampAppends DEF IInv, StampsOther
<1>3. View' = View /\ artifact' = artifact
    BY <1>2 DEF StampsOther
<1>4. CASE prepared_by' = prepared_by
    BY <1>3, <1>4 DEF Promise!signOffVars
<1>5. ASSUME NEW h \in Names, CreateAudit(h)
      PROVE  Promise!Prepare(h)
    BY <1>3, <1>5 DEF CreateAudit, Promise!Prepare
<1> QED
    BY <1>4, <1>5, PreparerChanges DEF Promise!Next

\* The approval of a gate is its signature: by somebody other than the preparer, over
\* the draft of the open phase, and at Gate 3 by somebody other than the signer of
\* Gate 2.  The checks are those of _approve_gate and sod_violation.
LEMMA ApprovalImplements ==
    ASSUME IInv, PreparerIsNamed, [Next]_vars, NEW entry \in EntryType, NEW g \in Phases,
           StampsApproval(g, entry)
    PROVE  Promise!Next
<1> DEFINE n == Len(approval_trail) + 1
           View == [k \in Phases |-> SignedBy(k)]
<1>1. /\ Len(approval_trail) \in Nat
      /\ DOMAIN approval_trail = 1..Len(approval_trail)
      /\ \A i \in 1..Len(approval_trail) : approval_trail'[i] = approval_trail[i]
      /\ approval_trail'[n] = entry
    BY StampAppends DEF IInv, StampsApproval
<1>2. /\ \A k \in Phases : k # g => Approvals(k)' = Approvals(k)
      /\ Approvals(g)' = Approvals(g) \cup {n}
    BY ApprovalsAfterStamp DEF IInv, StampsApproval, IsApproval
<1>3. Approvals(g) = {} /\ Approvals(g)' = {n}
    BY <1>2 DEF StampsApproval, IInv, ApprovalsFollowTheStatus, Approved, Phases
<1>4. SignedBy(g)' = [by |-> entry.human, draft |-> artifact[g]]
    <2>1. n \in Nat /\ {n} \in SUBSET (1..n)
        BY <1>1
    <2>2. Max({n}) = n
        BY <2>1, MaxOfIndices
    <2>3. approval_trail'[n].human = entry.human /\ approval_trail'[n].digest = artifact[g]
        BY <1>1 DEF StampsApproval
    <2> HIDE DEF n
    <2> QED
        BY <1>3, <2>2, <2>3 DEF SignedBy
<1>5. ASSUME NEW k \in Phases, k # g
      PROVE  SignedBy(k)' = SignedBy(k)
    <2>1. Approvals(k)' = Approvals(k) /\ Approvals(k) \in SUBSET (1..Len(approval_trail))
        BY <1>1, <1>2, <1>5 DEF Approvals
    <2>2. Approvals(k) # {} => Max(Approvals(k)) \in 1..Len(approval_trail)
        BY <1>1, <2>1, MaxOfIndices
    <2> QED
        BY <1>1, <2>1, <2>2 DEF SignedBy
<1>6. View' = [View EXCEPT ![g] = [by |-> entry.human, draft |-> artifact[g]]]
    BY <1>4, <1>5
<1>7. artifact' = artifact /\ artifact[g] # None /\ entry.human \in Names
    BY DEF StampsApproval, EntryType
<1>8. prepared_by # None /\ prepared_by' = prepared_by
    <2>1. status # WaitingForScope
        <3>1. ASSUME NEW h \in Names, CreateAudit(h) PROVE FALSE
            <4>1. Entry("audit_created", 0, h) \in EntryType
                    /\ Entry("audit_created", 0, h).action = "audit_created"
                    /\ Stamp(Entry("audit_created", 0, h))
                BY <3>1, EntryHasType DEF CreateAudit
            <4>2. approval_trail'[n] = Entry("audit_created", 0, h)
                BY <4>1, StampAppends DEF IInv
            <4> QED
                BY <1>1, <4>1, <4>2 DEF StampsApproval, IsApproval
        <3> QED
            BY <3>1, StartChanges DEF StampsApproval
    <2>2. prepared_by \in Names
        BY <2>1 DEF PreparerIsNamed
    <2>3. ASSUME NEW h \in Names, CreateAudit(h) PROVE FALSE
        BY <2>1, <2>3 DEF CreateAudit, StartPhase1, Transition, Can
    <2> QED
        BY <2>2, <2>3, PreparerChanges, BoundsAssumption
<1>9. Promise!Open(g)
    BY OpenGate DEF StampsApproval, Promise!Open, Phases
<1>10. Identity[entry.human] # Identity[prepared_by]
    BY DEF StampsApproval, SodViolation, PreparerExcludedActions, Preparers, SamePerson
<1>11. ASSUME g = 3 PROVE Identity[entry.human] # Identity[SignedBy(2).by]
    <2>1. 2 \in Phases /\ Approvals(2) # {}
        BY <1>11 DEF StampsApproval, IInv, ApprovalsFollowTheStatus, Approved, Phases
    <2>2. PICK i \in Approvals(2) : TRUE
        BY <2>1
    <2>3. SignedBy(2).by = approval_trail[i].human /\ Max(Approvals(2)) = i
        BY <2>1, <2>2, SignedBySomebody
    <2>4. approval_trail[i].human \in GateApprover(2)
        BY <2>1, <2>3 DEF GateApprover, Approvals
    <2>5. 2 \in DistinctApproverGates(g)
        BY <1>11 DEF DistinctApproverGates
    <2>6. ~ SamePerson(entry.human, approval_trail[i].human)
        BY <2>4, <2>5 DEF StampsApproval, SodViolation
    <2> QED
        BY <2>3, <2>6 DEF SamePerson
<1> HIDE DEF n
<1>12. \A k \in Phases : View[k] = SignedBy(k)
    OBVIOUS
<1>13. Promise!Sign(g, entry.human)
    BY <1>6, <1>7, <1>8, <1>9, <1>10, <1>11, <1>12 DEF Promise!Sign, Phases
<1> QED
    BY <1>7, <1>13 DEF Promise!Next, Promise!Gates, Phases

\* Every step of AuditFlow is a step of SignOff or invisible.
LEMMA PromiseStep ==
    ASSUME IInv, PreparerIsNamed, [Next]_vars
    PROVE  [Promise!Next]_(Promise!signOffVars)
<1>1. TypeOK /\ RunInFlight
    BY DEF IInv
<1> QED
    BY <1>1, EveryStep, QuietImplements, OtherEntryImplements, ApprovalImplements

\* Whatever crews, retries, overrides, returns and lost evidence do, the observer of an
\* audit sees three drafts signed in order by independent people: AuditFlow implements
\* SignOff, for any number of names, drafts and runs.
THEOREM ImplementsTheSignOff == Spec => ImplementsSignOff
<1>1. Init => PreparerIsNamed
    BY DEF Init, PreparerIsNamed
<1>2. PreparerIsNamed /\ [Next]_vars => PreparerIsNamed'
    BY PreparerInv
<1>3. IInv /\ PreparerIsNamed /\ [Next]_vars => [Promise!Next]_(Promise!signOffVars)
    BY PromiseStep
<1> QED
    BY <1>1, <1>2, <1>3, IInvIsInvariant, PromiseInit, PTL
       DEF Spec, ImplementsSignOff, Promise!Spec
=============================================================================
