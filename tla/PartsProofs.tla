----------------------------- MODULE PartsProofs -----------------------------
(***************************************************************************)
(* Theorems about four parts that need no audit, for any numbers of        *)
(* requests, threads, streams, events and runs and any settings: the crews *)
(* (Crews), the limiter of failed attempts (FailureLimiter), the event     *)
(* queues (EventQueues) and the choice of models (ModelRouting).  The      *)
(* parts share nothing.                                                    *)
(***************************************************************************)
EXTENDS Crews, FailureLimiter, EventQueues, ModelRouting, SequenceTheorems, FiniteSetTheorems, TLAPS

---------------------------------------------------------------------------
(* The crews: every output fits its task and the attempt, feedback grows   *)
(* from attempt to attempt, and a run that finishes keeps its draft.       *)

\* The feedback that a run may begin with, and what an attempt may add to it.
SeedNotes == {"notes", "earlier rejection"}
Rejections == {"qa", "evidence", "linter"}

\* The names of the phase's tasks.
TaskNames == {CrewTasks[j].name : j \in 1..Len(CrewTasks)}

Outputs == [name : TaskNames, of : Nat \X Nat, read : SUBSET TaskNames,
            basis : SUBSET TaskNames, told : SUBSET (SeedNotes \cup Rejections),
            approved : BOOLEAN]

Finished == crew_status \in {"qa_approved", "qa_rejected"}

\* The tasks whose prompt has the feedback in it, and what is made of their outputs.
Instructed == {"racm_drafting_task", "execution_evaluation_task", "drafting_task",
               "final_report_assembly_task"}

\* Names of tasks of the phase, up to the i-th.
NamesBefore(i) == {CrewTasks[j].name : j \in 1..(i - 1)}

\* The i-th output is of the i-th task and of this attempt: it read what its task's context
\* names, was made from outputs of this phase, and knows the feedback where it should.
OutputFits(i) ==
    /\ crew_outputs[i].name = CrewTasks[i].name
    /\ crew_outputs[i].of = <<crew_runs, crew_attempt>>
    /\ crew_outputs[i].read = CrewTasks[i].context
    /\ crew_outputs[i].basis \subseteq NamesBefore(i)
    /\ CrewTasks[i].name \in Instructed => crew_feedback \subseteq crew_outputs[i].told

CrewsTypeOK ==
    /\ crew_phase \in 1..3
    /\ crew_runs \in Nat
    /\ crew_status \in {"idle", "running", "error", "qa_approved", "qa_rejected"}
    /\ crew_attempt \in 0..2
    /\ crew_seed \in SUBSET SeedNotes
    /\ crew_feedback \in SUBSET (SeedNotes \cup Rejections)
    /\ crew_outputs \in Seq(Outputs)

OutputsFit ==
    /\ Len(crew_outputs) <= Len(CrewTasks)
    /\ \A i \in 1..Len(crew_outputs) : OutputFits(i)

FeedbackGrows ==
    /\ crew_seed \subseteq crew_feedback
    /\ crew_attempt = 2 => crew_feedback \cap Rejections # {}

FinishedOnItsDraft ==
    Finished =>
        /\ Len(crew_outputs) = Len(CrewTasks)
        /\ crew_draft = DraftOfAttempt
        /\ crew_status = "qa_approved" => OutputOf(crew_outputs, QaTask).approved

CrewsIInv == CrewsTypeOK /\ OutputsFit /\ FeedbackGrows /\ FinishedOnItsDraft

\* The tasks of a phase have names of their own.
LEMMA TasksAreKnown ==
    ASSUME crew_phase \in 1..3
    PROVE  /\ Len(CrewTasks) \in 3..6
           /\ \A i, j \in 1..Len(CrewTasks) : CrewTasks[i].name = CrewTasks[j].name => i = j
<1>1. CASE crew_phase = 1
  <2>1. CrewTasks = PlanningTasks /\ Len(PlanningTasks) = 5
    BY <1>1 DEF CrewTasks, PlanningTasks
  <2>2. \A i, j \in 1..5 : PlanningTasks[i].name = PlanningTasks[j].name => i = j
    BY DEF PlanningTasks, CrewTask
  <2> QED BY <2>1, <2>2
<1>2. CASE crew_phase = 2
  <2>1. CrewTasks = FieldworkTasks /\ Len(FieldworkTasks) = 3
    BY <1>2 DEF CrewTasks, FieldworkTasks
  <2>2. \A i, j \in 1..3 : FieldworkTasks[i].name = FieldworkTasks[j].name => i = j
    BY DEF FieldworkTasks, CrewTask
  <2> QED BY <2>1, <2>2
<1>3. CASE crew_phase = 3
  <2>1. CrewTasks = ReportingTasks /\ Len(ReportingTasks) = 6
    BY <1>3 DEF CrewTasks, ReportingTasks
  <2>2. \A i, j \in 1..6 : ReportingTasks[i].name = ReportingTasks[j].name => i = j
    BY DEF ReportingTasks, CrewTask
  <2> QED BY <2>1, <2>2
<1> QED BY <1>1, <1>2, <1>3

\* A task's context are tasks before it.
LEMMA ContextsAreEarlier ==
    ASSUME crew_phase \in 1..3, NEW i \in 1..Len(CrewTasks)
    PROVE  CrewTasks[i].context \subseteq NamesBefore(i)
<1>1. CASE crew_phase = 1
  BY <1>1 DEF CrewTasks, PlanningTasks, CrewTask, NamesBefore
<1>2. CASE crew_phase = 2
  BY <1>2 DEF CrewTasks, FieldworkTasks, CrewTask, NamesBefore
<1>3. CASE crew_phase = 3
  <2>1. i \in 1..6 /\ Len(CrewTasks) = 6
    BY <1>3 DEF CrewTasks, ReportingTasks
  <2>2. CASE i \in {1, 2, 3}
    BY <1>3, <2>2 DEF CrewTasks, ReportingTasks, CrewTask, NamesBefore
  <2>3. CASE i = 4
    BY <1>3, <2>3 DEF CrewTasks, ReportingTasks, CrewTask, NamesBefore
  <2>4. CASE i = 5
    BY <1>3, <2>4 DEF CrewTasks, ReportingTasks, CrewTask, NamesBefore
  <2>5. CASE i = 6
    BY <1>3, <2>5 DEF CrewTasks, ReportingTasks, CrewTask, NamesBefore
  <2> QED BY <2>1, <2>2, <2>3, <2>4, <2>5
<1> QED BY <1>1, <1>2, <1>3

\* A task whose name is instructed has the feedback in its prompt or comes after one.
LEMMA InstructedAreTold ==
    ASSUME crew_phase \in 1..3, NEW i \in 1..Len(CrewTasks), CrewTasks[i].name \in Instructed
    PROVE  CrewTasks[i].told \/ CrewTasks[i].context \cap Instructed # {}
<1>1. CASE crew_phase = 1
  BY <1>1 DEF CrewTasks, PlanningTasks, CrewTask, Instructed
<1>2. CASE crew_phase = 2
  BY <1>2 DEF CrewTasks, FieldworkTasks, CrewTask, Instructed
<1>3. CASE crew_phase = 3
  BY <1>3 DEF CrewTasks, ReportingTasks, CrewTask, Instructed
<1> QED BY <1>1, <1>2, <1>3

\* The QA task and the task of the artifact are tasks of the phase.
LEMMA QaAndArtifact ==
    ASSUME crew_phase \in 1..3
    PROVE  \E q, a \in 1..Len(CrewTasks) :
              /\ CrewTasks[q].name = QaTask /\ CrewTasks[a].name = ArtifactTask
              /\ ArtifactTask \in Instructed
              /\ \/ ArtifactTask \in CrewTasks[q].context
                 \/ CrewTasks[a].context \ {"generate_oscal_sar_task"} \subseteq CrewTasks[q].context
              /\ NamesBefore(a) \cap {"evidence_collection_task"} \subseteq CrewTasks[q].context
<1>1. CASE crew_phase = 1
  <2>1. 5 \in 1..Len(CrewTasks) /\ 4 \in 1..Len(CrewTasks)
    BY <1>1 DEF CrewTasks, PlanningTasks
  <2> QED BY <1>1, <2>1 DEF CrewTasks, PlanningTasks, CrewTask, QaTask, ArtifactTask, Instructed, NamesBefore
<1>2. CASE crew_phase = 2
  <2>1. 3 \in 1..Len(CrewTasks) /\ 2 \in 1..Len(CrewTasks)
    BY <1>2 DEF CrewTasks, FieldworkTasks
  <2> QED BY <1>2, <2>1 DEF CrewTasks, FieldworkTasks, CrewTask, QaTask, ArtifactTask, Instructed, NamesBefore
<1>3. CASE crew_phase = 3
  <2>1. 4 \in 1..Len(CrewTasks) /\ 6 \in 1..Len(CrewTasks)
    BY <1>3 DEF CrewTasks, ReportingTasks
  <2> QED BY <1>3, <2>1 DEF CrewTasks, ReportingTasks, CrewTask, QaTask, ArtifactTask, Instructed, NamesBefore
<1> QED BY <1>1, <1>2, <1>3

\* Among outputs that fit, the one with a task's name is at the task's place.
LEMMA OutputsAreFound ==
    ASSUME CrewsTypeOK, OutputsFit, NEW i \in 1..Len(crew_outputs)
    PROVE  /\ OutputOf(crew_outputs, CrewTasks[i].name) = crew_outputs[i]
           /\ CrewTasks[i].name \in NamesOf(crew_outputs)
<1>1. DOMAIN crew_outputs = 1..Len(crew_outputs)
  BY DEF CrewsTypeOK
<1>2. \A j \in 1..Len(crew_outputs) : crew_outputs[j].name = CrewTasks[j].name
  BY DEF OutputsFit, OutputFits
<1>3. \A j \in DOMAIN crew_outputs : crew_outputs[j].name = CrewTasks[i].name <=> j = i
  <2>1. crew_phase \in 1..3 /\ Len(crew_outputs) <= Len(CrewTasks) /\ Len(crew_outputs) \in Nat
    BY DEF CrewsTypeOK, OutputsFit
  <2>2. Len(CrewTasks) \in Nat
    BY <2>1, TasksAreKnown
  <2> QED BY <1>1, <1>2, <2>1, <2>2, TasksAreKnown
<1>4. (CHOOSE j \in DOMAIN crew_outputs : crew_outputs[j].name = CrewTasks[i].name) = i
  BY <1>1, <1>3
<1> QED BY <1>1, <1>2, <1>4 DEF OutputOf, NamesOf

\* What a task is given are the outputs its context names: they are all there.
LEMMA ContextsAreThere ==
    ASSUME CrewsTypeOK, OutputsFit, Len(crew_outputs) < Len(CrewTasks),
           NEW i \in 1..Len(CrewTasks), i = Len(crew_outputs) + 1,
           NEW task, task = CrewTasks[i]
    PROVE  /\ \A o \in ContextOutputs(task) :
                \E j \in 1..Len(crew_outputs) :
                    o = crew_outputs[j] /\ CrewTasks[j].name \in task.context
           /\ \A name \in task.context :
                \E j \in 1..Len(crew_outputs) :
                    CrewTasks[j].name = name /\ crew_outputs[j] \in ContextOutputs(task)
<1>1. \A name \in task.context : \E j \in 1..Len(crew_outputs) : CrewTasks[j].name = name
  <2>1. task.context \subseteq NamesBefore(i)
    BY ContextsAreEarlier DEF CrewsTypeOK
  <2>2. i - 1 = Len(crew_outputs)
    BY DEF CrewsTypeOK
  <2> QED BY <2>1, <2>2 DEF NamesBefore
<1>2. \A j \in 1..Len(crew_outputs) :
        /\ OutputOf(crew_outputs, CrewTasks[j].name) = crew_outputs[j]
        /\ CrewTasks[j].name \in NamesOf(crew_outputs)
  BY OutputsAreFound
<1> QED BY <1>1, <1>2 DEF ContextOutputs

\* The output of the next task fits.
LEMMA NextOutputFits ==
    ASSUME CrewsTypeOK, OutputsFit, Len(crew_outputs) < Len(CrewTasks), NEW approved \in BOOLEAN,
           NEW i \in 1..Len(CrewTasks), i = Len(crew_outputs) + 1,
           NEW task, task = CrewTasks[i],
           NEW output, output = OutputOfTask(task, approved)
    PROVE  /\ output \in Outputs
           /\ output.name = task.name
           /\ output.of = <<crew_runs, crew_attempt>>
           /\ output.read = task.context
           /\ output.basis \subseteq NamesBefore(i)
           /\ task.name \in Instructed => crew_feedback \subseteq output.told
<1> DEFINE context == ContextOutputs(task)
<1>1. /\ \A o \in context : \E j \in 1..Len(crew_outputs) :
            o = crew_outputs[j] /\ CrewTasks[j].name \in task.context
      /\ \A name \in task.context : \E j \in 1..Len(crew_outputs) :
            CrewTasks[j].name = name /\ crew_outputs[j] \in context
  BY ContextsAreThere
<1>2. \A j \in 1..Len(crew_outputs) : OutputFits(j) /\ crew_outputs[j] \in Outputs
  BY DEF OutputsFit, CrewsTypeOK
<1> HIDE DEF context
<1>3. /\ output.name = task.name
      /\ output.of = <<crew_runs, crew_attempt>>
      /\ output.read = {o.name : o \in context}
      /\ output.basis = UNION {o.basis \cup {o.name} : o \in context}
      /\ output.told = (IF task.told THEN crew_feedback ELSE {}) \cup UNION {o.told : o \in context}
      /\ output.approved = approved
      /\ output = [name |-> output.name, of |-> output.of, read |-> output.read,
                   basis |-> output.basis, told |-> output.told, approved |-> output.approved]
  BY DEF OutputOfTask, context
<1>4. output.read = task.context
  BY <1>1, <1>2, <1>3 DEF OutputFits
<1>5. output.basis \subseteq NamesBefore(i)
  <2> SUFFICES ASSUME NEW o \in context PROVE o.basis \cup {o.name} \subseteq NamesBefore(i)
    BY <1>3
  <2>1. PICK j \in 1..Len(crew_outputs) : o = crew_outputs[j]
    BY <1>1
  <2>2. j \in 1..(i - 1) /\ i \in Int /\ j \in Int
    BY <2>1 DEF CrewsTypeOK
  <2>3. NamesBefore(j) \subseteq NamesBefore(i)
    BY <2>2 DEF NamesBefore
  <2>4. CrewTasks[j].name \in NamesBefore(i)
    BY <2>2 DEF NamesBefore
  <2> QED BY <1>2, <2>1, <2>3, <2>4 DEF OutputFits
<1>6. ASSUME task.name \in Instructed PROVE crew_feedback \subseteq output.told
  <2>1. CASE task.told
    BY <1>3, <2>1
  <2>2. CASE task.context \cap Instructed # {}
    <3>1. PICK name \in task.context : name \in Instructed
      BY <2>2
    <3>2. PICK j \in 1..Len(crew_outputs) :
            CrewTasks[j].name = name /\ crew_outputs[j] \in context
      BY <1>1
    <3>3. crew_feedback \subseteq crew_outputs[j].told
      BY <1>2, <3>1, <3>2 DEF OutputFits
    <3> QED BY <1>3, <3>2, <3>3
  <2> QED BY <1>6, <2>1, <2>2, InstructedAreTold DEF CrewsTypeOK
<1>7. NamesBefore(i) \subseteq TaskNames /\ task.name \in TaskNames
  BY TasksAreKnown DEF NamesBefore, TaskNames, CrewsTypeOK
<1>8. task.context \subseteq NamesBefore(i)
  BY ContextsAreEarlier DEF CrewsTypeOK
<1>9. output.told \in SUBSET (SeedNotes \cup Rejections)
  <2>1. \A o \in context : o.told \subseteq SeedNotes \cup Rejections
    BY <1>1, <1>2 DEF Outputs
  <2> QED BY <1>3, <2>1 DEF CrewsTypeOK
<1>10. output.of \in Nat \X Nat
  BY <1>3 DEF CrewsTypeOK
<1>11. output \in Outputs
  BY <1>3, <1>4, <1>5, <1>7, <1>8, <1>9, <1>10 DEF Outputs
<1> QED BY <1>3, <1>4, <1>5, <1>6, <1>11

\* While the phase stays, so do its tasks.
LEMMA TasksStay ==
    ASSUME crew_phase' = crew_phase
    PROVE  /\ CrewTasks' = CrewTasks /\ QaTask' = QaTask /\ ArtifactTask' = ArtifactTask
           /\ TaskNames' = TaskNames /\ Outputs' = Outputs
<1>1. CrewTasks' = CrewTasks /\ QaTask' = QaTask /\ ArtifactTask' = ArtifactTask
  BY DEF CrewTasks, QaTask, ArtifactTask
<1>2. TaskNames' = TaskNames
  BY <1>1 DEF TaskNames
<1> QED BY <1>1, <1>2 DEF Outputs

\* The invariant holds at first.
LEMMA CrewsIInvAtFirst == CrewsInit => CrewsIInv
<1> SUFFICES ASSUME CrewsInit PROVE CrewsIInv
  OBVIOUS
<1>1. crew_outputs = <<>> /\ Len(crew_outputs) = 0
  BY DEF CrewsInit
<1>2. CrewsTypeOK
  BY <1>1 DEF CrewsInit, CrewsTypeOK
<1>3. OutputsFit
  BY <1>1, <1>2, TasksAreKnown DEF OutputsFit, CrewsTypeOK
<1> QED BY <1>2, <1>3 DEF CrewsInit, CrewsIInv, FeedbackGrows, FinishedOnItsDraft, Finished

\* A run begins.
LEMMA BeginKeepsIInv ==
    ASSUME CrewsIInv, NEW seed \in SUBSET SeedNotes, BeginCrewRun(seed)
    PROVE  CrewsIInv'
<1>1. crew_outputs' = <<>> /\ crew_outputs' \in Seq(Outputs) /\ Len(crew_outputs') = 0
  BY DEF BeginCrewRun
<1>2. CrewsTypeOK'
  BY <1>1, TasksStay DEF BeginCrewRun, CrewsIInv, CrewsTypeOK
<1>3. OutputsFit'
  <2>1. Len(CrewTasks) >= 0
    BY TasksAreKnown DEF CrewsIInv, CrewsTypeOK
  <2>2. Len(crew_outputs)' <= Len(CrewTasks)'
    BY <1>1, <2>1, TasksStay DEF BeginCrewRun
  <2>3. 1..Len(crew_outputs)' = {}
    BY <1>1
  <2> QED BY <2>2, <2>3 DEF OutputsFit
<1>4. FeedbackGrows' /\ FinishedOnItsDraft'
  BY DEF BeginCrewRun, FeedbackGrows, FinishedOnItsDraft, Finished
<1> QED BY <1>2, <1>3, <1>4 DEF CrewsIInv

\* A task ends.
LEMMA TaskKeepsIInv ==
    ASSUME CrewsIInv, NEW approved \in BOOLEAN, RunTask(approved)
    PROVE  CrewsIInv'
<1> DEFINE i == Len(crew_outputs) + 1
           task == CrewTasks[i]
           output == OutputOfTask(task, approved)
<1>1. /\ CrewsTypeOK /\ OutputsFit /\ FeedbackGrows
      /\ crew_status = "running" /\ Len(crew_outputs) < Len(CrewTasks)
      /\ crew_outputs' = Append(crew_outputs, output)
      /\ UNCHANGED <<crew_phase, crew_runs, crew_status, crew_attempt, crew_seed,
                     crew_feedback, crew_draft>>
  BY DEF CrewsIInv, RunTask
<1>2. Len(crew_outputs) \in Nat /\ Len(CrewTasks) \in Nat /\ i \in 1..Len(CrewTasks)
  BY <1>1, TasksAreKnown DEF CrewsTypeOK
<1>3. /\ output \in Outputs
      /\ output.name = task.name
      /\ output.of = <<crew_runs, crew_attempt>>
      /\ output.read = task.context
      /\ output.basis \subseteq NamesBefore(i)
      /\ task.name \in Instructed => crew_feedback \subseteq output.told
  BY <1>1, <1>2, NextOutputFits
<1> HIDE DEF output, task
<1>4. /\ crew_outputs' \in Seq(Outputs) /\ Len(crew_outputs') = i
      /\ crew_outputs'[i] = output
      /\ \A j \in 1..Len(crew_outputs) : crew_outputs'[j] = crew_outputs[j]
  BY <1>1, <1>3 DEF CrewsTypeOK
<1>5. CrewsTypeOK'
  BY <1>1, <1>4, TasksStay DEF CrewsTypeOK
<1>6. OutputsFit'
  <2>1. CrewTasks' = CrewTasks /\ \A j : NamesBefore(j)' = NamesBefore(j)
    BY <1>1, TasksStay DEF NamesBefore
  <2>2. ASSUME NEW j \in 1..Len(crew_outputs') PROVE OutputFits(j)'
    <3>1. CASE j = i
      BY <1>1, <1>3, <1>4, <2>1, <3>1 DEF OutputFits, task
    <3>2. CASE j # i
      <4>1. j \in 1..Len(crew_outputs)
        BY <1>2, <1>4, <2>2, <3>2
      <4>2. OutputFits(j)
        BY <1>1, <4>1 DEF OutputsFit
      <4> QED BY <1>1, <1>4, <2>1, <4>1, <4>2 DEF OutputFits
    <3> QED BY <3>1, <3>2
  <2>3. Len(crew_outputs)' <= Len(CrewTasks)'
    BY <1>2, <1>4, <2>1
  <2> QED BY <2>2, <2>3 DEF OutputsFit
<1>7. FeedbackGrows' /\ FinishedOnItsDraft'
  BY <1>1 DEF FeedbackGrows, FinishedOnItsDraft, Finished
<1> QED BY <1>5, <1>6, <1>7 DEF CrewsIInv

\* What fits the outputs of an attempt still does while they stay.
LEMMA OutputsStay ==
    ASSUME CrewsIInv, UNCHANGED <<crew_phase, crew_runs, crew_attempt, crew_seed,
                                  crew_feedback, crew_outputs>>
    PROVE  OutputsFit' /\ FeedbackGrows'
<1>1. CrewTasks' = CrewTasks /\ \A j : NamesBefore(j)' = NamesBefore(j)
  BY TasksStay DEF NamesBefore
<1>2. \A j : OutputFits(j)' <=> OutputFits(j)
  BY <1>1 DEF OutputFits
<1> QED BY <1>1, <1>2 DEF CrewsIInv, OutputsFit, FeedbackGrows

\* A run ends with an error.
LEMMA ErrorKeepsIInv ==
    ASSUME CrewsIInv, CrewError
    PROVE  CrewsIInv'
<1>1. CrewsTypeOK'
  BY TasksStay DEF CrewError, CrewsIInv, CrewsTypeOK
<1>2. OutputsFit' /\ FeedbackGrows'
  BY OutputsStay DEF CrewError
<1>3. FinishedOnItsDraft'
  BY DEF CrewError, FinishedOnItsDraft, Finished
<1> QED BY <1>1, <1>2, <1>3 DEF CrewsIInv

\* An attempt ends: with its draft stored, or with another attempt.
LEMMA EndKeepsIInv ==
    ASSUME CrewsIInv, NEW evidence_holds \in BOOLEAN, NEW lint_passes \in BOOLEAN,
           EndAttempt(evidence_holds, lint_passes)
    PROVE  CrewsIInv'
<1> DEFINE reasons == RejectionReasons(evidence_holds, lint_passes)
<1>1. CrewsTypeOK /\ OutputsFit /\ FeedbackGrows /\ AttemptEnded
  BY DEF CrewsIInv, EndAttempt
<1>2. reasons \subseteq Rejections
  BY DEF RejectionReasons, Rejections
<1>3. ASSUME reasons = {} PROVE OutputOf(crew_outputs, QaTask).approved
  BY <1>3 DEF RejectionReasons
<1>4. \/ reasons = {} /\ StoreDraft("qa_approved")
      \/ /\ reasons # {} /\ crew_attempt = 1 /\ crew_attempt' = 2
         /\ crew_feedback' = NextFeedback(reasons) /\ crew_outputs' = <<>>
         /\ UNCHANGED <<crew_phase, crew_runs, crew_status, crew_seed, crew_draft>>
      \/ StoreDraft("qa_rejected")
  BY DEF EndAttempt
<1> HIDE DEF reasons
<1>5. ASSUME NEW s \in {"qa_approved", "qa_rejected"}, StoreDraft(s),
             s = "qa_approved" => OutputOf(crew_outputs, QaTask).approved
      PROVE  CrewsIInv'
  <2>1. CrewsTypeOK'
    BY <1>1, <1>5, TasksStay DEF StoreDraft, CrewsTypeOK
  <2>2. OutputsFit' /\ FeedbackGrows'
    BY <1>5, OutputsStay DEF StoreDraft
  <2>3. /\ OutputOf(crew_outputs', QaTask') = OutputOf(crew_outputs, QaTask)
        /\ DraftOfAttempt' = DraftOfAttempt /\ CrewTasks' = CrewTasks
    BY <1>5, TasksStay DEF StoreDraft, OutputOf, DraftOfAttempt
  <2>4. FinishedOnItsDraft'
    BY <1>1, <1>5, <2>3 DEF FinishedOnItsDraft, StoreDraft, AttemptEnded
  <2> QED BY <2>1, <2>2, <2>4 DEF CrewsIInv
<1>6. ASSUME reasons # {}, crew_attempt' = 2,
             crew_feedback' = NextFeedback(reasons), crew_outputs' = <<>>,
             UNCHANGED <<crew_phase, crew_runs, crew_status, crew_seed, crew_draft>>
      PROVE  CrewsIInv'
  <2>1. crew_outputs' \in Seq(Outputs) /\ Len(crew_outputs') = 0
    BY <1>6
  <2>2. CrewsTypeOK'
    BY <1>1, <1>2, <1>6, <2>1, TasksStay DEF CrewsTypeOK, NextFeedback
  <2>3. OutputsFit'
    <3>1. Len(CrewTasks) >= 0
      BY <1>1, TasksAreKnown DEF CrewsTypeOK
    <3>2. Len(crew_outputs)' <= Len(CrewTasks)'
      BY <1>6, <2>1, <3>1, TasksStay
    <3>3. 1..Len(crew_outputs)' = {}
      BY <2>1
    <3> QED BY <3>2, <3>3 DEF OutputsFit
  <2>4. FeedbackGrows'
    BY <1>1, <1>2, <1>6 DEF FeedbackGrows, NextFeedback
  <2>5. FinishedOnItsDraft'
    BY <1>1, <1>6 DEF AttemptEnded, FinishedOnItsDraft, Finished
  <2> QED BY <2>2, <2>3, <2>4, <2>5 DEF CrewsIInv
<1>7. CASE reasons = {} /\ StoreDraft("qa_approved")
  BY <1>3, <1>5, <1>7
<1>8. CASE StoreDraft("qa_rejected")
  BY <1>5, <1>8
<1> QED BY <1>4, <1>6, <1>7, <1>8

\* No step leaves the invariant.
LEMMA CrewsIInvStays == CrewsIInv /\ [CrewsNext]_crew_vars => CrewsIInv'
<1> SUFFICES ASSUME CrewsIInv, [CrewsNext]_crew_vars PROVE CrewsIInv'
  OBVIOUS
<1>1. ASSUME NEW seed \in SUBSET SeedNotes, BeginCrewRun(seed) PROVE CrewsIInv'
  BY <1>1, BeginKeepsIInv
<1>2. ASSUME NEW approved \in BOOLEAN, RunTask(approved) PROVE CrewsIInv'
  BY <1>2, TaskKeepsIInv
<1>3. CASE CrewError
  BY <1>3, ErrorKeepsIInv
<1>4. ASSUME NEW e \in BOOLEAN, NEW l \in BOOLEAN, EndAttempt(e, l) PROVE CrewsIInv'
  BY <1>4, EndKeepsIInv
<1>5. CASE UNCHANGED crew_vars
  <2>1. UNCHANGED <<crew_phase, crew_runs, crew_status, crew_attempt, crew_seed, crew_feedback,
                    crew_outputs, crew_draft>>
    BY <1>5 DEF crew_vars
  <2>2. CrewsTypeOK'
    BY <2>1, TasksStay DEF CrewsIInv, CrewsTypeOK
  <2>3. /\ OutputOf(crew_outputs', QaTask') = OutputOf(crew_outputs, QaTask)
        /\ DraftOfAttempt' = DraftOfAttempt /\ CrewTasks' = CrewTasks
    BY <2>1, TasksStay DEF OutputOf, DraftOfAttempt
  <2>4. FinishedOnItsDraft'
    BY <2>1, <2>3 DEF CrewsIInv, FinishedOnItsDraft, Finished
  <2> QED BY <2>1, <2>2, <2>4, OutputsStay DEF CrewsIInv
<1> QED BY <1>1, <1>2, <1>3, <1>4, <1>5 DEF CrewsNext, SeedNotes

\* A finished run stores what its QA task answered for.
LEMMA IInvStoresReviewed == CrewsIInv => StoredDraftsWereReviewed
<1> SUFFICES ASSUME CrewsIInv, Finished
             PROVE  /\ Len(crew_outputs) = Len(CrewTasks)
                    /\ \E draft \in crew_draft :
                         LET review == OutputOf(crew_outputs, QaTask)
                         IN  /\ draft.of = <<crew_runs, crew_attempt>>
                             /\ review.of = draft.of
                             /\ \/ draft.name \in review.read
                                \/ draft.read \ {"generate_oscal_sar_task"} \subseteq review.read
                             /\ draft.basis \cap {"evidence_collection_task"} \subseteq review.read
                             /\ crew_seed \subseteq draft.told
                             /\ crew_attempt = 2 => draft.told \ crew_seed # {}
                             /\ crew_status = "qa_approved" => review.approved
  BY DEF StoredDraftsWereReviewed, Finished
<1>1. /\ CrewsTypeOK /\ OutputsFit /\ FeedbackGrows
      /\ Len(crew_outputs) = Len(CrewTasks) /\ crew_draft = DraftOfAttempt
      /\ crew_status = "qa_approved" => OutputOf(crew_outputs, QaTask).approved
  BY DEF CrewsIInv, FinishedOnItsDraft
<1>2. PICK q, a \in 1..Len(CrewTasks) :
        /\ CrewTasks[q].name = QaTask /\ CrewTasks[a].name = ArtifactTask
        /\ ArtifactTask \in Instructed
        /\ \/ ArtifactTask \in CrewTasks[q].context
           \/ CrewTasks[a].context \ {"generate_oscal_sar_task"} \subseteq CrewTasks[q].context
        /\ NamesBefore(a) \cap {"evidence_collection_task"} \subseteq CrewTasks[q].context
  BY <1>1, QaAndArtifact DEF CrewsTypeOK
<1>3. q \in 1..Len(crew_outputs) /\ a \in 1..Len(crew_outputs)
  BY <1>1, <1>2
<1>4. /\ OutputOf(crew_outputs, QaTask) = crew_outputs[q]
      /\ OutputOf(crew_outputs, ArtifactTask) = crew_outputs[a]
  <2>1. OutputOf(crew_outputs, CrewTasks[q].name) = crew_outputs[q]
    BY <1>1, <1>3, OutputsAreFound
  <2>2. OutputOf(crew_outputs, CrewTasks[a].name) = crew_outputs[a]
    BY <1>1, <1>3, OutputsAreFound
  <2> QED BY <1>2, <2>1, <2>2
<1>5. OutputFits(q) /\ OutputFits(a)
  BY <1>1, <1>3 DEF OutputsFit
<1> DEFINE draft == crew_outputs[a]
<1>6. draft \in crew_draft
  BY <1>1, <1>4 DEF DraftOfAttempt
<1>7. draft.of = <<crew_runs, crew_attempt>> /\ crew_outputs[q].of = draft.of
  BY <1>5 DEF OutputFits
<1>8. \/ draft.name \in crew_outputs[q].read
      \/ draft.read \ {"generate_oscal_sar_task"} \subseteq crew_outputs[q].read
  BY <1>2, <1>5 DEF OutputFits
<1>9. draft.basis \cap {"evidence_collection_task"} \subseteq crew_outputs[q].read
  BY <1>2, <1>5 DEF OutputFits
<1>10. crew_feedback \subseteq draft.told
  BY <1>2, <1>5 DEF OutputFits
<1>11. crew_seed \subseteq draft.told
  BY <1>1, <1>10 DEF FeedbackGrows
<1>12. ASSUME crew_attempt = 2 PROVE draft.told \ crew_seed # {}
  <2>1. PICK r \in Rejections : r \in crew_feedback
    BY <1>1, <1>12 DEF FeedbackGrows
  <2>2. r \notin SeedNotes
    BY DEF Rejections, SeedNotes
  <2>3. r \notin crew_seed
    BY <1>1, <2>2 DEF CrewsTypeOK
  <2> QED BY <1>10, <2>1, <2>3
<1> HIDE DEF draft
<1> QED BY <1>1, <1>4, <1>6, <1>7, <1>8, <1>9, <1>11, <1>12

\* The draft that a run stores is of the attempt that QA answered for, QA has read it or what
\* it was put together from, and whoever drafted it was told the notes and the reason of the
\* rejection before it (_run_crew_with_qa, Crew.kickoff, CrewResultAdapter), in any number of
\* runs.
THEOREM DraftsWereReviewed == CrewsSpec => []StoredDraftsWereReviewed
<1>1. CrewsInit => CrewsIInv
  BY CrewsIInvAtFirst
<1>2. CrewsIInv /\ [CrewsNext]_crew_vars => CrewsIInv'
  BY CrewsIInvStays
<1>3. CrewsIInv => StoredDraftsWereReviewed
  BY IInvStoresReviewed
<1> QED BY <1>1, <1>2, <1>3, PTL DEF CrewsSpec

---------------------------------------------------------------------------
(* The limiter: its deque is what is recorded without failures whose time  *)
(* is over, and for every window the failures in it, with those that       *)
(* requests already let through may add, stay below the limit and the      *)
(* number of requests.                                                     *)

\* The failures of the window that ends at t.
Within(t) == {i \in DOMAIN recorded : recorded[i] <= t /\ ~ Expired(recorded[i], t)}

\* The requests that may still record one in that window: let through by then, or with the
\* time of their failure already read.
MayRecord(t) ==
    {c \in Clients : \/ client[c].pc = "passed" /\ clock <= t
                     \/ /\ client[c].pc = "failing"
                        /\ client[c].now <= t /\ ~ Expired(client[c].now, t)}

LimiterTypeOK ==
    /\ clock \in Nat
    /\ recorded \in Seq(Nat)
    /\ client \in [Clients -> [pc : {"idle", "asking", "blocked", "passed", "failing"}, now : Nat]]
    /\ \A c \in Clients : client[c].now <= clock
    /\ \A i \in DOMAIN recorded : recorded[i] <= clock

\* The deque is what is recorded without failures of a time that is over.
IsTail(q, d) ==
    /\ d <= Len(recorded)
    /\ q = SubSeq(recorded, d + 1, Len(recorded))
    /\ \A i \in 1..d : Expired(recorded[i], clock)

DequeIsATail == \E d \in Nat : IsTail(failures, d)

WindowsAreBounded ==
    \A t \in Nat : Cardinality(Within(t)) + Cardinality(MayRecord(t))
                       < MaxFailures + Cardinality(Clients)

LimiterIInv == LimiterTypeOK /\ DequeIsATail /\ WindowsAreBounded

\* Numbers that are not none have a least one.
LEMMA LeastNumber ==
    ASSUME NEW S \in SUBSET Nat, S # {}
    PROVE  \E m \in S : \A k \in S : m <= k
<1> DEFINE R == {ss \in Nat \X Nat : ss[1] < ss[2]}
<1>1. IsWellFoundedOn(R, Nat)
    BY NatLessThanWellFounded DEF OpToRel
<1>2. PICK m \in S : \A k \in S : ~ (<<k, m>> \in R)
    <2> HIDE DEF R
    <2> QED
        BY <1>1, WFMin, Zenon
<1>3. ASSUME NEW k \in S PROVE m <= k
    <2>1. k \in Nat /\ m \in Nat
        OBVIOUS
    <2>2. k < m => <<k, m>> \in R
        BY <2>1
    <2> QED
        BY <2>1, <2>2, <1>2
<1> QED
    BY <1>3

\* The last elements of a sequence.
LEMMA TailElements ==
    ASSUME NEW s \in Seq(Nat), NEW d \in Nat, d <= Len(s)
    PROVE  /\ SubSeq(s, d + 1, Len(s)) \in Seq(Nat)
           /\ Len(SubSeq(s, d + 1, Len(s))) = Len(s) - d
           /\ \A i \in 1..(Len(s) - d) : SubSeq(s, d + 1, Len(s))[i] = s[d + i]
<1>1. Len(s) \in Nat /\ \A i \in (d + 1)..Len(s) : s[i] \in Nat
  OBVIOUS
<1>2. /\ SubSeq(s, d + 1, Len(s)) \in Seq(Nat)
      /\ Len(SubSeq(s, d + 1, Len(s)))
           = IF d + 1 <= Len(s) THEN Len(s) - (d + 1) + 1 ELSE 0
      /\ \A i \in 1..(Len(s) - (d + 1) + 1) :
            SubSeq(s, d + 1, Len(s))[i] = s[(d + 1) + i - 1]
  <2>1. d + 1 \in Int /\ Len(s) \in Int
    BY <1>1
  <2> QED BY <1>1, <2>1, SubSeqProperties
<1>3. \A i \in 1..(Len(s) - d) : (d + 1) + i - 1 = d + i
  BY <1>1
<1> QED BY <1>1, <1>2, <1>3

\* What is pruned of a tail is a tail.
LEMMA PruneLeavesATail ==
    ASSUME LimiterTypeOK, NEW d \in Nat, IsTail(failures, d),
           NEW now \in Nat, now <= clock
    PROVE  \E e \in Nat : IsTail(Prune(failures, now), e)
<1> DEFINE n == Len(recorded)
           kept == {i \in DOMAIN failures : ~ Expired(failures[i], now)}
<1>1. /\ n \in Nat /\ d <= n /\ clock \in Nat /\ Window \in Nat \ {0}
      /\ \A i \in 1..n : recorded[i] \in Nat
  BY FailureLimiterAssumption DEF LimiterTypeOK, IsTail
<1>2. /\ failures \in Seq(Nat) /\ Len(failures) = n - d
      /\ DOMAIN failures = 1..(n - d)
      /\ \A i \in 1..(n - d) : failures[i] = recorded[d + i]
  BY <1>1 DEF IsTail, LimiterTypeOK
<1>3. CASE kept = {}
  <2>1. Prune(failures, now) = <<>>
    BY <1>3 DEF Prune
  <2>2. SubSeq(recorded, n + 1, n) = <<>>
    BY <1>1 DEF LimiterTypeOK
  <2>3. \A i \in 1..n : Expired(recorded[i], clock)
    <3> TAKE i \in 1..n
    <3>1. CASE i <= d
      BY <1>1, <3>1 DEF IsTail
    <3>2. CASE i > d
      <4>1. (i - d) \in DOMAIN failures /\ failures[i - d] = recorded[i]
        BY <1>1, <1>2, <3>2
      <4>2. Expired(recorded[i], now)
        BY <1>3, <4>1
      <4> QED BY <1>1, <4>2 DEF Expired
    <3> QED BY <1>1, <3>1, <3>2
  <2>4. Prune(failures, now) = SubSeq(recorded, n + 1, n)
    BY <2>1, <2>2
  <2>5. IsTail(Prune(failures, now), n)
    <3> HIDE DEF n
    <3>1. n = Len(recorded)
      BY DEF n
    <3> QED BY <1>1, <2>3, <2>4, <3>1 DEF IsTail
  <2> QED BY <1>1, <2>5
<1>4. CASE kept # {}
  <2>1. \E i \in kept : \A j \in kept : i <= j
    <3>1. kept \subseteq Nat
      BY <1>2
    <3> QED BY <1>4, <3>1, LeastNumber
  <2> DEFINE first == CHOOSE i \in kept : \A j \in kept : i <= j
  <2>2. first \in kept /\ \A j \in kept : first <= j
    BY <2>1
  <2> HIDE DEF first
  <2>3. Prune(failures, now) = SubSeq(failures, first, Len(failures))
    BY <1>4 DEF Prune, first
  <2>4. first \in 1..(n - d)
    BY <1>2, <2>2
  <2>5. SubSeq(failures, first, Len(failures)) = SubSeq(recorded, d + first, n)
    BY <1>1, <1>2, <2>4 DEF IsTail, LimiterTypeOK
  <2>6. \A i \in 1..(d + first - 1) : Expired(recorded[i], clock)
    <3> TAKE i \in 1..(d + first - 1)
    <3>1. CASE i <= d
      BY <1>1, <3>1 DEF IsTail
    <3>2. CASE i > d
      <4>1. /\ (i - d) \in DOMAIN failures /\ failures[i - d] = recorded[i]
            /\ i - d < first
        BY <1>1, <1>2, <2>4, <3>2
      <4>2. Expired(recorded[i], now)
        BY <2>2, <2>4, <4>1
      <4>3. recorded[i] \in Nat
        BY <1>1, <2>4
      <4> QED BY <1>1, <4>2, <4>3 DEF Expired
    <3> QED BY <1>1, <3>1, <3>2
  <2>7. (d + first - 1) \in Nat /\ (d + first - 1) + 1 = d + first /\ d + first - 1 <= n
    BY <1>1, <2>4
  <2>8. IsTail(Prune(failures, now), d + first - 1)
    BY <2>3, <2>5, <2>6, <2>7 DEF IsTail
  <2> QED BY <2>7, <2>8
<1> QED BY <1>3, <1>4

\* Counting: these are finite sets.
LEMMA WindowsAreFinite ==
    ASSUME LimiterTypeOK, NEW t \in Nat
    PROVE  /\ IsFiniteSet(Within(t)) /\ Cardinality(Within(t)) \in Nat
           /\ IsFiniteSet(MayRecord(t)) /\ Cardinality(MayRecord(t)) \in Nat
           /\ Cardinality(MayRecord(t)) <= Cardinality(Clients)
           /\ Cardinality(Clients) \in Nat /\ MaxFailures \in Nat \ {0}
<1>1. Len(recorded) \in Nat /\ DOMAIN recorded = 1..Len(recorded)
  BY DEF LimiterTypeOK
<1>2. IsFiniteSet(1..Len(recorded))
  BY <1>1, FS_Interval
<1>3. IsFiniteSet(Within(t))
  BY <1>1, <1>2, FS_Subset DEF Within
<1>4. /\ IsFiniteSet(MayRecord(t))
      /\ Cardinality(MayRecord(t)) <= Cardinality(Clients)
  BY FS_Subset, FailureLimiterAssumption DEF MayRecord
<1> QED BY <1>3, <1>4, FS_CardinalityType, FailureLimiterAssumption

\* Until the end of a window, its failures are all in the deque.
LEMMA WindowsAreInTheDeque ==
    ASSUME LimiterTypeOK, NEW t \in Nat, clock <= t, NEW q, NEW d \in Nat, IsTail(q, d)
    PROVE  Cardinality(Within(t)) <= Len(q)
<1> DEFINE n == Len(recorded)
<1>1. n \in Nat /\ d <= n /\ DOMAIN recorded = 1..n /\ Window \in Nat \ {0} /\ clock \in Nat
  BY FailureLimiterAssumption DEF LimiterTypeOK, IsTail
<1>2. Len(q) = n - d
  BY <1>1, TailElements DEF IsTail, LimiterTypeOK
<1>3. Within(t) \subseteq (d + 1)..n
  <2> SUFFICES ASSUME NEW i \in Within(t) PROVE i > d
    BY <1>1 DEF Within
  <2>1. i \in 1..n /\ recorded[i] \in Nat /\ ~ Expired(recorded[i], t)
    BY <1>1 DEF Within, LimiterTypeOK
  <2>2. ~ Expired(recorded[i], clock)
    BY <1>1, <2>1 DEF Expired
  <2> QED BY <1>1, <2>1, <2>2 DEF IsTail
<1>4. IsFiniteSet((d + 1)..n) /\ Cardinality((d + 1)..n) = n - d
  <2>1. d + 1 \in Int /\ n \in Int
    BY <1>1
  <2>2. Cardinality((d + 1)..n) = IF d + 1 > n THEN 0 ELSE n - (d + 1) + 1
    BY <2>1, FS_Interval
  <2>3. IsFiniteSet((d + 1)..n)
    BY <2>1, FS_Interval
  <2>4. (IF d + 1 > n THEN 0 ELSE n - (d + 1) + 1) = n - d
    <3>1. n \in Nat /\ d <= n
      BY <1>1
    <3> HIDE DEF n
    <3> QED BY <3>1
  <2> QED BY <2>2, <2>3, <2>4
<1> QED BY <1>2, <1>3, <1>4, FS_Subset

\* The invariant holds at first.
LEMMA LimiterIInvAtFirst == FailureLimiterInit => LimiterIInv
<1> SUFFICES ASSUME FailureLimiterInit PROVE LimiterIInv
  OBVIOUS
<1>1. LimiterTypeOK
  BY DEF FailureLimiterInit, LimiterTypeOK, NoRequest
<1>2. DequeIsATail
  <2>1. IsTail(failures, 0)
    BY <1>1 DEF FailureLimiterInit, IsTail
  <2> QED BY <2>1 DEF DequeIsATail
<1>3. WindowsAreBounded
  <2> SUFFICES ASSUME NEW t \in Nat
               PROVE  Cardinality(Within(t)) + Cardinality(MayRecord(t))
                          < MaxFailures + Cardinality(Clients)
    BY DEF WindowsAreBounded
  <2>1. Within(t) = {}
    BY DEF Within, FailureLimiterInit
  <2>2. MayRecord(t) = {}
    BY DEF MayRecord, FailureLimiterInit, NoRequest
  <2>3. Cardinality(Clients) # 0 /\ Cardinality(Clients) \in Nat
    BY FS_EmptySet, FS_CardinalityType, FailureLimiterAssumption
  <2> QED BY <2>1, <2>2, <2>3, FS_EmptySet, FailureLimiterAssumption
<1> QED BY <1>1, <1>2, <1>3 DEF LimiterIInv

\* A step after which no window has more failures, nor requests that may record one.
LEMMA NoMoreInAWindow ==
    ASSUME LimiterIInv, LimiterTypeOK',
           \A t \in Nat : Within(t)' = Within(t) /\ MayRecord(t)' \subseteq MayRecord(t)
    PROVE  WindowsAreBounded'
<1> SUFFICES ASSUME NEW t \in Nat
             PROVE  Cardinality(Within(t)') + Cardinality(MayRecord(t)')
                        < MaxFailures + Cardinality(Clients)
  BY DEF WindowsAreBounded
<1>1. LimiterTypeOK /\ WindowsAreBounded
  BY DEF LimiterIInv
<1>2. IsFiniteSet(MayRecord(t)) /\ Cardinality(MayRecord(t)) \in Nat
      /\ Cardinality(Within(t)) \in Nat /\ Cardinality(Clients) \in Nat /\ MaxFailures \in Nat
  BY <1>1, WindowsAreFinite
<1>3. /\ Cardinality(MayRecord(t)') <= Cardinality(MayRecord(t))
      /\ Cardinality(MayRecord(t)') \in Nat
  BY <1>2, FS_Subset, FS_CardinalityType
<1> QED BY <1>1, <1>2, <1>3 DEF WindowsAreBounded

\* The clock goes on.
LEMMA TickKeepsIInv ==
    ASSUME LimiterIInv, Tick
    PROVE  LimiterIInv'
<1>1. /\ LimiterTypeOK /\ clock' = clock + 1
      /\ failures' = failures /\ client' = client /\ recorded' = recorded
  BY DEF LimiterIInv, Tick
<1>2. LimiterTypeOK'
  BY <1>1 DEF LimiterTypeOK
<1>3. DequeIsATail'
  <2>1. PICK d \in Nat : IsTail(failures, d)
    BY DEF LimiterIInv, DequeIsATail
  <2>2. \A i \in 1..d : recorded[i] \in Nat
    BY <1>1, <2>1 DEF LimiterTypeOK, IsTail
  <2>3. \A i \in 1..d : Expired(recorded[i], clock)'
    BY <1>1, <2>1, <2>2, FailureLimiterAssumption DEF IsTail, Expired, LimiterTypeOK
  <2>4. IsTail(failures, d)'
    BY <1>1, <2>1, <2>3 DEF IsTail
  <2> QED BY <2>4 DEF DequeIsATail
<1>4. \A t \in Nat : Within(t)' = Within(t) /\ MayRecord(t)' \subseteq MayRecord(t)
  BY <1>1 DEF Within, MayRecord, Expired, LimiterTypeOK
<1> QED BY <1>2, <1>3, <1>4, NoMoreInAWindow DEF LimiterIInv

\* While the deque and the record stay, so does the deque's place in it.
LEMMA TailStays ==
    ASSUME LimiterIInv, UNCHANGED <<clock, failures, recorded>>
    PROVE  DequeIsATail'
<1>1. PICK d \in Nat : IsTail(failures, d)
  BY DEF LimiterIInv, DequeIsATail
<1>2. IsTail(failures, d)'
  BY <1>1 DEF IsTail, Expired
<1> QED BY <1>2 DEF DequeIsATail

\* A request asks, is let through as someone's, or reads the time of its failure.
LEMMA RequestsKeepIInv ==
    ASSUME LimiterIInv, NEW c \in Clients, Ask(c) \/ Succeed(c) \/ Fail(c)
    PROVE  LimiterIInv'
<1>1. /\ LimiterTypeOK
      /\ UNCHANGED <<clock, failures, recorded>>
  BY DEF LimiterIInv, Ask, Succeed, Fail
<1> DEFINE Requests == [pc : {"idle", "asking", "blocked", "passed", "failing"}, now : Nat]
<1>5. PICK r \in Requests :
        /\ client' = [client EXCEPT ![c] = r]
        /\ r.now <= clock
        /\ \/ r.pc \in {"idle", "asking"}
           \/ r.pc = "failing" /\ r.now = clock /\ client[c].pc = "passed"
  <2>1. clock \in Nat
    BY <1>1 DEF LimiterTypeOK
  <2> DEFINE Fits(r) == /\ client' = [client EXCEPT ![c] = r]
                        /\ r.now <= clock
                        /\ \/ r.pc \in {"idle", "asking"}
                           \/ r.pc = "failing" /\ r.now = clock /\ client[c].pc = "passed"
  <2>2. CASE Ask(c)
    <3>1. [pc |-> "asking", now |-> clock] \in Requests
      BY <2>1
    <3>2. Fits([pc |-> "asking", now |-> clock])
      BY <2>1, <2>2 DEF Ask
    <3> QED BY <3>1, <3>2
  <2>3. CASE Succeed(c)
    <3>1. NoRequest \in Requests /\ Fits(NoRequest)
      BY <2>1, <2>3 DEF NoRequest, Succeed
    <3> QED BY <3>1
  <2>4. CASE Fail(c)
    <3>1. [pc |-> "failing", now |-> clock] \in Requests
      BY <2>1
    <3>2. Fits([pc |-> "failing", now |-> clock])
      BY <2>1, <2>4 DEF Fail
    <3> QED BY <3>1, <3>2
  <2> QED BY <2>2, <2>3, <2>4
<1>6. client \in [Clients -> Requests] /\ client' \in [Clients -> Requests]
      /\ client'[c] = r /\ \A x \in Clients \ {c} : client'[x] = client[x]
  BY <1>1, <1>5 DEF LimiterTypeOK
<1> HIDE DEF Requests
<1>2. LimiterTypeOK'
  <2>1. \A x \in Clients : client'[x].now <= clock'
    BY <1>1, <1>5, <1>6 DEF LimiterTypeOK
  <2> QED BY <1>1, <1>6, <2>1 DEF LimiterTypeOK, Requests
<1>3. DequeIsATail'
  BY <1>1, TailStays
<1>4. ASSUME NEW t \in Nat PROVE Within(t)' = Within(t) /\ MayRecord(t)' \subseteq MayRecord(t)
  <2>1. Within(t)' = Within(t)
    BY <1>1 DEF Within, Expired
  <2>2. ASSUME NEW x \in MayRecord(t)' PROVE x \in MayRecord(t)
    <3>1. CASE x = c
      BY <1>1, <1>5, <1>6, <2>2, <3>1 DEF MayRecord
    <3>2. CASE x # c
      BY <1>1, <1>6, <2>2, <3>2 DEF MayRecord, Expired
    <3> QED BY <3>1, <3>2
  <2> QED BY <2>1, <2>2
<1> QED BY <1>2, <1>3, <1>4, NoMoreInAWindow DEF LimiterIInv

\* A request is let through, or refused.
LEMMA AnswerKeepsIInv ==
    ASSUME LimiterIInv, NEW c \in Clients, Answer(c)
    PROVE  LimiterIInv'
<1>1. /\ LimiterTypeOK /\ WindowsAreBounded
      /\ failures' = Prune(failures, client[c].now)
      /\ client' = [client EXCEPT ![c].pc = IF Blocked(failures') THEN "blocked" ELSE "passed"]
      /\ UNCHANGED <<clock, recorded>>
  BY DEF LimiterIInv, Answer
<1>2. LimiterTypeOK'
  BY <1>1 DEF LimiterTypeOK
<1>3. PICK d \in Nat : IsTail(failures', d)
  <2>1. PICK e \in Nat : IsTail(failures, e)
    BY DEF LimiterIInv, DequeIsATail
  <2>2. client[c].now \in Nat /\ client[c].now <= clock
    BY <1>1 DEF LimiterTypeOK
  <2> QED BY <1>1, <2>1, <2>2, PruneLeavesATail
<1>4. DequeIsATail'
  <2>1. IsTail(failures, d)'
    BY <1>1, <1>3 DEF IsTail, Expired
  <2> QED BY <2>1 DEF DequeIsATail
<1>5. WindowsAreBounded'
  <2> SUFFICES ASSUME NEW t \in Nat
               PROVE  Cardinality(Within(t)') + Cardinality(MayRecord(t)')
                          < MaxFailures + Cardinality(Clients)
    BY DEF WindowsAreBounded
  <2>1. Within(t)' = Within(t)
    BY <1>1 DEF Within, Expired
  <2>2. CASE ~ Blocked(failures') /\ clock <= t
    <3>1. Cardinality(Within(t)) <= Len(failures')
      BY <1>1, <1>3, <2>2, WindowsAreInTheDeque
    <3>2. Len(failures') < MaxFailures
      <4>1. failures' \in Seq(Nat)
        BY <1>1, <1>3 DEF IsTail, LimiterTypeOK
      <4> QED BY <2>2, <4>1, FailureLimiterAssumption DEF Blocked
    <3>3. /\ Cardinality(MayRecord(t)') \in Nat
          /\ Cardinality(MayRecord(t)') <= Cardinality(Clients)
      <4>1. MayRecord(t)' \subseteq Clients
        BY DEF MayRecord
      <4> QED BY <4>1, FS_Subset, FS_CardinalityType, FailureLimiterAssumption
    <3>4. Len(failures') \in Nat
      BY <1>1, <1>3 DEF IsTail, LimiterTypeOK
    <3> QED BY <1>1, <2>1, <3>1, <3>2, <3>3, <3>4, WindowsAreFinite
  <2>3. CASE Blocked(failures') \/ ~ (clock <= t)
    <3>1. MayRecord(t)' \subseteq MayRecord(t)
      <4> SUFFICES ASSUME NEW x \in MayRecord(t)' PROVE x \in MayRecord(t)
        OBVIOUS
      <4>1. CASE x # c
        BY <1>1, <4>1 DEF MayRecord, Expired, LimiterTypeOK
      <4>2. CASE x = c
        BY <1>1, <2>3, <4>2 DEF MayRecord, LimiterTypeOK
      <4> QED BY <4>1, <4>2
    <3>2. /\ Cardinality(MayRecord(t)') <= Cardinality(MayRecord(t))
          /\ Cardinality(MayRecord(t)') \in Nat
      BY <1>1, <3>1, WindowsAreFinite, FS_Subset, FS_CardinalityType
    <3> QED BY <1>1, <2>1, <3>2, WindowsAreFinite DEF WindowsAreBounded
  <2> QED BY <2>2, <2>3
<1> QED BY <1>2, <1>4, <1>5 DEF LimiterIInv

\* A failure is entered.
LEMMA RecordKeepsIInv ==
    ASSUME LimiterIInv, NEW c \in Clients, Record(c)
    PROVE  LimiterIInv'
<1> DEFINE n == Len(recorded)
           now == client[c].now
<1>1. /\ LimiterTypeOK /\ WindowsAreBounded
      /\ client[c].pc = "failing"
      /\ failures' = Append(Prune(failures, now), now)
      /\ recorded' = Append(recorded, now)
      /\ client' = [client EXCEPT ![c] = NoRequest]
      /\ clock' = clock
  BY DEF LimiterIInv, Record
<1>2. n \in Nat /\ now \in Nat /\ now <= clock /\ DOMAIN recorded = 1..n
  BY <1>1 DEF LimiterTypeOK
<1>3. /\ recorded' \in Seq(Nat) /\ Len(recorded') = n + 1 /\ DOMAIN recorded' = 1..(n + 1)
      /\ recorded'[n + 1] = now
      /\ \A i \in 1..n : recorded'[i] = recorded[i]
  BY <1>1, <1>2 DEF LimiterTypeOK
<1>4. LimiterTypeOK'
  <2>1. client' \in [Clients -> [pc : {"idle", "asking", "blocked", "passed", "failing"}, now : Nat]]
        /\ \A x \in Clients : client'[x].now <= clock'
    BY <1>1, <1>2 DEF LimiterTypeOK, NoRequest
  <2>2. \A i \in DOMAIN recorded' : recorded'[i] <= clock'
    BY <1>1, <1>2, <1>3 DEF LimiterTypeOK
  <2> QED BY <1>1, <1>3, <2>1, <2>2 DEF LimiterTypeOK
<1>5. DequeIsATail'
  <2>1. PICK e \in Nat : IsTail(failures, e)
    BY DEF LimiterIInv, DequeIsATail
  <2>2. PICK d \in Nat : IsTail(Prune(failures, now), d)
    BY <1>1, <1>2, <2>1, PruneLeavesATail
  <2>3. d <= n
    BY <2>2 DEF IsTail
  <2>4. Append(SubSeq(recorded, d + 1, n), now) = SubSeq(recorded', d + 1, n + 1)
    <3>1. recorded \in Seq(Nat)
      BY <1>1 DEF LimiterTypeOK
    <3>2. SubSeq(recorded, d + 1, n) \in Seq(Nat) /\ Len(SubSeq(recorded, d + 1, n)) = n - d
          /\ \A i \in 1..(n - d) : SubSeq(recorded, d + 1, n)[i] = recorded[d + i]
      BY <1>2, <2>3, <3>1, TailElements
    <3>3. SubSeq(recorded', d + 1, n + 1) \in Seq(Nat)
          /\ Len(SubSeq(recorded', d + 1, n + 1)) = n + 1 - d
          /\ \A i \in 1..(n + 1 - d) : SubSeq(recorded', d + 1, n + 1)[i] = recorded'[d + i]
      <4>1. d <= Len(recorded')
        BY <1>2, <1>3, <2>3
      <4> QED BY <1>3, <4>1, TailElements
    <3> DEFINE f == SubSeq(recorded, d + 1, n)
               l == Append(f, now)
               m == n - d
    <3>4. f \in Seq(Nat) /\ Len(f) = m /\ m \in Nat /\ \A i \in 1..m : f[i] = recorded[d + i]
      <4>1. n \in Nat /\ d <= n
        BY <1>2, <2>3
      <4> HIDE DEF n
      <4>2. m \in Nat
        BY <4>1
      <4> QED BY <3>2, <4>2
    <3> HIDE DEF f, m
    <3>5. /\ l \in Seq(Nat) /\ Len(l) = m + 1 /\ l[m + 1] = now
          /\ \A i \in 1..m : l[i] = recorded[d + i]
      BY <1>2, <3>4
    <3> HIDE DEF l, now, n
    <3>6. \A i \in 1..(m + 1) : l[i] = recorded'[d + i]
      <4> TAKE i \in 1..(m + 1)
      <4>1. CASE i = m + 1
        <5>1. d + i = n + 1
          BY <1>2, <4>1 DEF m
        <5> QED BY <1>3, <3>5, <4>1, <5>1
      <4>2. CASE i # m + 1
        <5>1. i \in 1..m /\ d + i \in 1..n
          BY <1>2, <2>3, <3>4, <4>2 DEF m
        <5> QED BY <1>3, <3>5, <5>1
      <4> QED BY <4>1, <4>2
    <3>7. n + 1 - d = m + 1
      BY <1>2 DEF m
    <3>8. l = SubSeq(recorded', d + 1, n + 1)
      BY <3>3, <3>5, <3>6, <3>7, SeqEqual
    <3> QED BY <3>8 DEF l, f
  <2>5. \A i \in 1..d : Expired(recorded'[i], clock')
    BY <1>1, <1>3, <2>2, <2>3 DEF IsTail, Expired
  <2>6. Prune(failures, now) = SubSeq(recorded, d + 1, n)
    BY <2>2 DEF IsTail
  <2>7. failures' = SubSeq(recorded', d + 1, Len(recorded'))
    BY <1>1, <1>3, <2>4, <2>6
  <2>8. d <= Len(recorded')
    BY <1>2, <1>3, <2>3
  <2>9. IsTail(failures, d)'
    BY <2>5, <2>7, <2>8 DEF IsTail, Expired
  <2> QED BY <2>9 DEF DequeIsATail
<1>6. WindowsAreBounded'
  <2> SUFFICES ASSUME NEW t \in Nat
               PROVE  Cardinality(Within(t)') + Cardinality(MayRecord(t)')
                          < MaxFailures + Cardinality(Clients)
    BY DEF WindowsAreBounded
  <2>1. MayRecord(t)' = MayRecord(t) \ {c}
    <3>1. c \notin MayRecord(t)'
      BY <1>1 DEF MayRecord, LimiterTypeOK, NoRequest
    <3>2. \A x \in Clients \ {c} : x \in MayRecord(t)' <=> x \in MayRecord(t)
      BY <1>1 DEF MayRecord, Expired, LimiterTypeOK
    <3> QED BY <3>1, <3>2 DEF MayRecord
  <2>2. CASE now <= t /\ ~ Expired(now, t)
    <3>1. c \in MayRecord(t)
      BY <1>1, <2>2 DEF MayRecord
    <3>2. Within(t)' = Within(t) \cup {n + 1}
      BY <1>2, <1>3, <2>2 DEF Within, Expired
    <3>3. n + 1 \notin Within(t)
      BY <1>2 DEF Within
    <3>4. Cardinality(Within(t)') = Cardinality(Within(t)) + 1
      BY <1>1, <3>2, <3>3, WindowsAreFinite, FS_AddElement
    <3>5. Cardinality(MayRecord(t)') = Cardinality(MayRecord(t)) - 1
      BY <1>1, <2>1, <3>1, WindowsAreFinite, FS_RemoveElement
    <3> QED BY <1>1, <3>4, <3>5, WindowsAreFinite DEF WindowsAreBounded
  <2>3. CASE ~ (now <= t /\ ~ Expired(now, t))
    <3>1. Within(t)' = Within(t)
      BY <1>2, <1>3, <2>3 DEF Within, Expired
    <3>2. IsFiniteSet(MayRecord(t)) /\ Cardinality(MayRecord(t)) \in Nat
          /\ Cardinality(Within(t)) \in Nat
          /\ Cardinality(Clients) \in Nat /\ MaxFailures \in Nat
      BY <1>1, WindowsAreFinite
    <3>3. /\ Cardinality(MayRecord(t)') <= Cardinality(MayRecord(t))
          /\ Cardinality(MayRecord(t)') \in Nat
      <4>1. MayRecord(t)' \subseteq MayRecord(t)
        BY <2>1
      <4> QED BY <3>2, <4>1, FS_Subset, FS_CardinalityType
    <3> QED BY <1>1, <3>1, <3>2, <3>3 DEF WindowsAreBounded
  <2> QED BY <2>2, <2>3
<1> QED BY <1>4, <1>5, <1>6 DEF LimiterIInv

\* No step leaves the invariant.
LEMMA LimiterIInvStays == LimiterIInv /\ [FailureLimiterNext]_limiter_vars => LimiterIInv'
<1> SUFFICES ASSUME LimiterIInv, [FailureLimiterNext]_limiter_vars PROVE LimiterIInv'
  OBVIOUS
<1>1. CASE Tick
  BY <1>1, TickKeepsIInv
<1>2. ASSUME NEW c \in Clients, Ask(c) \/ Succeed(c) \/ Fail(c) PROVE LimiterIInv'
  BY <1>2, RequestsKeepIInv
<1>3. ASSUME NEW c \in Clients, Answer(c) PROVE LimiterIInv'
  BY <1>3, AnswerKeepsIInv
<1>4. ASSUME NEW c \in Clients, Record(c) PROVE LimiterIInv'
  BY <1>4, RecordKeepsIInv
<1>5. CASE UNCHANGED limiter_vars
  <2>1. UNCHANGED <<clock, failures, client, recorded>>
    BY <1>5 DEF limiter_vars
  <2>2. LimiterTypeOK'
    BY <2>1 DEF LimiterIInv, LimiterTypeOK
  <2>3. \A t \in Nat : Within(t)' = Within(t) /\ MayRecord(t)' \subseteq MayRecord(t)
    BY <2>1 DEF Within, MayRecord, Expired
  <2> QED BY <2>1, <2>2, <2>3, TailStays, NoMoreInAWindow DEF LimiterIInv
<1> QED BY <1>1, <1>2, <1>3, <1>4, <1>5 DEF FailureLimiterNext

\* Requests ask the limiter and tell it of failures in separate steps, each with a time read
\* before the lock was taken: in no window do they record as many failures as the limit and
\* the number of requests together (FailureLimiter), for any number of requests.
THEOREM FailuresStayBounded == FailureLimiterSpec => []FailuresAreBounded
<1>1. FailureLimiterInit => LimiterIInv
  BY LimiterIInvAtFirst
<1>2. LimiterIInv /\ [FailureLimiterNext]_limiter_vars => LimiterIInv'
  BY LimiterIInvStays
<1>3. LimiterIInv => FailuresAreBounded
  <2> SUFFICES ASSUME LimiterIInv, NEW t \in 0..MaxTime
               PROVE  Cardinality(Within(t)) < MaxFailures + Cardinality(Clients)
    BY DEF FailuresAreBounded, Within
  <2>1. t \in Nat
    BY FailureLimiterAssumption
  <2> QED BY <2>1, WindowsAreFinite DEF LimiterIInv, WindowsAreBounded
<1> QED BY <1>1, <1>2, <1>3, PTL DEF FailureLimiterSpec

---------------------------------------------------------------------------
(* The event queues: while the session exists it has one queue, which all  *)
(* use who have one, threads that wait have asked for a queue once, and    *)
(* events are in order from the callbacks to the streams.                  *)

\* What callbacks carry, an event or nothing.
Entries == [by : Pushers, number : Nat]

\* An event at the end, the next of its thread.
LEMMA NextEvent ==
    ASSUME NEW s \in Seq(Entries), NEW p \in Pushers, NEW n \in Nat, InOrder(s, p, n),
           NEW e \in Entries, e.by = p, e.number = n + 1
    PROVE  InOrder(Append(s, e), p, n + 1)
<1> DEFINE t == Append(s, e)
           l == Len(s)
           mine == {i \in DOMAIN s : s[i].by = p /\ s[i].number > 0}
           ours == {i \in DOMAIN t : t[i].by = p /\ t[i].number > 0}
<1>1. /\ t \in Seq(Entries) /\ l \in Nat /\ DOMAIN s = 1..l /\ DOMAIN t = 1..(l + 1)
      /\ t[l + 1] = e /\ \A i \in 1..l : t[i] = s[i] /\ s[i] \in Entries
  OBVIOUS
<1>2. /\ {s[i].number : i \in mine} = 1..n
      /\ \A i, j \in mine : i < j => s[i].number < s[j].number
  BY DEF InOrder
<1>3. ours = mine \cup {l + 1}
  <2> HIDE DEF t, l
  <2>1. ASSUME NEW i \in 1..(l + 1) PROVE i \in ours <=> i \in mine \cup {l + 1}
    <3>1. CASE i = l + 1
      BY <1>1, <3>1
    <3>2. CASE i # l + 1
      <4>1. i \in 1..l
        BY <1>1, <3>2
      <4> QED BY <1>1, <3>2, <4>1
    <3> QED BY <3>1, <3>2
  <2>2. ours \subseteq 1..(l + 1) /\ mine \cup {l + 1} \subseteq 1..(l + 1)
    BY <1>1
  <2> QED BY <2>1, <2>2
<1>4. mine \subseteq 1..l /\ \A i \in mine : t[i] = s[i]
  BY <1>1
<1> HIDE DEF mine, ours, t, l
<1>5. {t[i].number : i \in ours} = 1..(n + 1)
  <2>1. {t[i].number : i \in mine} = {s[i].number : i \in mine}
    BY <1>4
  <2>2. {t[i].number : i \in ours} = {t[i].number : i \in mine} \cup {n + 1}
    BY <1>1, <1>3
  <2>3. 1..(n + 1) = (1..n) \cup {n + 1}
    OBVIOUS
  <2> QED BY <1>2, <2>1, <2>2, <2>3
<1>6. ASSUME NEW i \in ours, NEW j \in ours, i < j PROVE t[i].number < t[j].number
  <2>1. i \in mine
    BY <1>1, <1>3, <1>4, <1>6
  <2>2. CASE j \in mine
    BY <1>2, <1>4, <1>6, <2>1, <2>2
  <2>3. CASE j = l + 1
    <3>1. t[i].number \in 1..n
      BY <1>2, <1>4, <2>1
    <3> QED BY <1>1, <2>3, <3>1
  <2> QED BY <1>3, <2>2, <2>3
<1> QED BY <1>5, <1>6 DEF InOrder, t, ours

\* Something at the end that is no event of p.
LEMMA OthersEvent ==
    ASSUME NEW s \in Seq(Entries), NEW p \in Pushers, NEW n \in Nat, InOrder(s, p, n),
           NEW e \in Entries, e.by # p \/ e.number = 0
    PROVE  InOrder(Append(s, e), p, n)
<1> DEFINE t == Append(s, e)
           l == Len(s)
           mine == {i \in DOMAIN s : s[i].by = p /\ s[i].number > 0}
           ours == {i \in DOMAIN t : t[i].by = p /\ t[i].number > 0}
<1>1. /\ t \in Seq(Entries) /\ l \in Nat /\ DOMAIN s = 1..l /\ DOMAIN t = 1..(l + 1)
      /\ t[l + 1] = e /\ \A i \in 1..l : t[i] = s[i]
  OBVIOUS
<1>2. /\ {s[i].number : i \in mine} = 1..n
      /\ \A i, j \in mine : i < j => s[i].number < s[j].number
  BY DEF InOrder
<1>3. ours = mine /\ \A i \in mine : t[i] = s[i]
  <2> HIDE DEF t, l
  <2>1. ASSUME NEW i \in 1..(l + 1) PROVE i \in ours <=> i \in mine
    <3>1. CASE i = l + 1
      BY <1>1, <3>1
    <3>2. CASE i # l + 1
      <4>1. i \in 1..l
        BY <1>1, <3>2
      <4> QED BY <1>1, <3>2, <4>1
    <3> QED BY <3>1, <3>2
  <2>2. ours \subseteq 1..(l + 1) /\ mine \subseteq 1..l
    BY <1>1
  <2>3. 1..l \subseteq 1..(l + 1)
    BY <1>1
  <2> QED BY <1>1, <2>1, <2>2, <2>3
<1> HIDE DEF mine, ours, t, l
<1>4. {t[i].number : i \in ours} = 1..n
  <2>1. {t[i].number : i \in mine} = {s[i].number : i \in mine}
    BY <1>3
  <2> QED BY <1>2, <1>3, <2>1
<1>5. \A i, j \in ours : i < j => t[i].number < t[j].number
  BY <1>2, <1>3
<1> QED BY <1>4, <1>5 DEF InOrder, t, ours

\* What is no event may be taken out of the sequence.
LEMMA NoEventTakenOut ==
    ASSUME NEW a \in Seq(Entries), NEW b \in Seq(Entries), b # <<>>, Head(b).number = 0,
           NEW p \in Pushers, NEW n \in Nat, InOrder(a \o b, p, n)
    PROVE  InOrder(a \o Tail(b), p, n)
<1> DEFINE s == a \o b
           t == a \o Tail(b)
           k == Len(a)
           Old(i) == IF i <= k THEN i ELSE i + 1
           mine == {i \in DOMAIN s : s[i].by = p /\ s[i].number > 0}
           ours == {i \in DOMAIN t : t[i].by = p /\ t[i].number > 0}
<1>1. /\ k \in Nat /\ Len(b) \in Nat \ {0} /\ Tail(b) \in Seq(Entries)
      /\ Len(Tail(b)) = Len(b) - 1
      /\ \A i \in 1..(Len(b) - 1) : Tail(b)[i] = b[i + 1]
      /\ Head(b) = b[1]
  OBVIOUS
<1> DEFINE l == Len(b)
<1>2. /\ s \in Seq(Entries) /\ DOMAIN s = 1..(k + l)
      /\ \A i \in 1..k : s[i] = a[i]
      /\ \A i \in (k + 1)..(k + l) : s[i] = b[i - k]
  BY <1>1, ConcatProperties
<1>3. /\ DOMAIN t = 1..(k + l - 1)
      /\ \A i \in 1..k : t[i] = a[i]
      /\ \A i \in (k + 1)..(k + l - 1) : t[i] = Tail(b)[i - k]
  BY <1>1, ConcatProperties
<1>4. s[k + 1].number = 0
  <2>1. k + 1 \in (k + 1)..(k + l) /\ (k + 1) - k = 1
    BY <1>1
  <2> QED BY <1>1, <1>2, <2>1
<1> HIDE DEF s, t, k, l
<1>5. ASSUME NEW i \in DOMAIN t PROVE t[i] = s[Old(i)] /\ Old(i) \in DOMAIN s
  <2>1. CASE i <= k
    BY <1>1, <1>2, <1>3, <2>1 DEF l
  <2>2. CASE i > k
    <3>1. i \in (k + 1)..(k + l - 1) /\ i + 1 \in (k + 1)..(k + l) /\ i - k \in 1..(l - 1)
          /\ (i - k) + 1 = (i + 1) - k /\ i + 1 \in 1..(k + l)
      BY <1>1, <1>3, <2>2 DEF l
    <3>2. t[i] = b[(i + 1) - k]
      BY <1>1, <1>3, <3>1 DEF l
    <3> QED BY <1>1, <1>2, <2>2, <3>1, <3>2
  <2> QED BY <1>1, <1>3, <2>1, <2>2
<1>6. /\ {s[i].number : i \in mine} = 1..n
      /\ \A i, j \in mine : i < j => s[i].number < s[j].number
  BY DEF InOrder, s
<1>7. ASSUME NEW i \in ours PROVE i \in Int /\ Old(i) \in mine /\ t[i] = s[Old(i)]
  BY <1>3, <1>5
<1>8. ASSUME NEW j \in mine PROVE \E i \in ours : Old(i) = j
  <2>1. j \in 1..(k + l) /\ j # k + 1
    BY <1>2, <1>4
  <2>2. CASE j <= k
    <3>1. j \in DOMAIN t /\ Old(j) = j
      BY <1>1, <1>3, <2>1, <2>2 DEF l
    <3>2. j \in ours
      BY <1>5, <3>1
    <3> QED BY <3>1, <3>2
  <2>3. CASE j > k
    <3>1. (j - 1) \in DOMAIN t /\ Old(j - 1) = j
      BY <1>1, <1>3, <2>1, <2>3 DEF l
    <3>2. (j - 1) \in ours
      BY <1>5, <3>1
    <3> QED BY <3>1, <3>2
  <2> QED BY <1>1, <2>1, <2>2, <2>3
<1>9. ASSUME NEW i \in Int, NEW j \in Int, i < j PROVE Old(i) < Old(j)
  BY <1>1, <1>9
<1> HIDE DEF mine, ours, Old
<1>10. {t[i].number : i \in ours} = 1..n
  <2>1. \A i \in ours : t[i].number \in 1..n
    BY <1>6, <1>7
  <2>2. ASSUME NEW m \in 1..n PROVE \E i \in ours : t[i].number = m
    <3>1. PICK j \in mine : s[j].number = m
      BY <1>6
    <3>2. PICK i \in ours : Old(i) = j
      BY <1>8
    <3> QED BY <1>7, <3>1, <3>2
  <2> QED BY <2>1, <2>2
<1>11. \A i, j \in ours : i < j => t[i].number < t[j].number
  BY <1>6, <1>7, <1>9
<1> QED BY <1>10, <1>11 DEF InOrder, t, ours

\* An event that moves from one sequence to the end of the one before it.
LEMMA EventMovesOn ==
    ASSUME NEW a \in Seq(Entries), NEW b \in Seq(Entries), b # <<>>
    PROVE  Append(a, Head(b)) \o Tail(b) = a \o b
<1>1. Append(a, Head(b)) = a \o <<Head(b)>>
  BY HeadTailProperties, AppendIsConcat
<1>2. b = <<Head(b)>> \o Tail(b)
  BY HeadTailProperties, SeqEqual, ConcatProperties
<1>3. Tail(b) \in Seq(Entries) /\ <<Head(b)>> \in Seq(Entries)
  OBVIOUS
<1>4. (a \o <<Head(b)>>) \o Tail(b) = a \o (<<Head(b)>> \o Tail(b))
  BY <1>3, ConcatAssociative
<1> QED BY <1>1, <1>2, <1>4

Callbacks == [kind : {"create"}, by : Pushers]
                 \cup [kind : {"put"}, queue : Nat, event : Entries]

QueuesTypeOK ==
    /\ contents \in Seq(Seq(Entries))
    /\ event_queue \in 0..Len(contents)
    /\ callbacks \in Seq(Callbacks)
    /\ pusher \in [Pushers -> [pc : {"idle", "wait", "store", "put"}, queue : Nat]]
    /\ stream \in [Streams -> [pc : {"idle", "store", "open"}, queue : Nat]]
    /\ pushed \in [Pushers -> Nat]
    /\ taken \in Seq(Entries)

\* All who have a queue to use have the session's, and the others are empty.
QueueIsShared ==
    /\ \A p \in Pushers :
          /\ pusher[p].pc = "put" => event_queue # 0 /\ pusher[p].queue = event_queue
          /\ pusher[p].pc = "store" => pusher[p].queue \in 1..Len(contents)
    /\ \A s \in Streams :
          /\ stream[s].pc = "open" => event_queue # 0 /\ stream[s].queue = event_queue
          /\ stream[s].pc = "store" => stream[s].queue \in 1..Len(contents)
    /\ \A i \in DOMAIN callbacks :
          callbacks[i].kind = "put" => event_queue # 0 /\ callbacks[i].queue = event_queue
    /\ \A q \in 1..Len(contents) : q # event_queue => contents[q] = <<>>

\* A thread that asked for a queue waits, and asked once.
WaitersAskedOnce ==
    /\ \A p \in Pushers : pusher[p].pc # "idle" => pushed[p] > 0
    /\ \A i \in DOMAIN callbacks :
          callbacks[i].kind = "create" => pusher[callbacks[i].by].pc = "wait"
    /\ \A i, j \in DOMAIN callbacks :
          /\ callbacks[i].kind = "create" /\ callbacks[j].kind = "create"
          /\ callbacks[i].by = callbacks[j].by
          => i = j

AllEvents == (taken \o Queued) \o OnTheirWay
Sent(p) == pushed[p] - (IF pusher[p].pc = "idle" THEN 0 ELSE 1)
EventsInOrder == \A p \in Pushers : InOrder(AllEvents, p, Sent(p))

QueuesIInv == known => QueuesTypeOK /\ QueueIsShared /\ WaitersAskedOnce /\ EventsInOrder

\* What callbacks carry are entries.
LEMMA CarriedEntries ==
    ASSUME NEW calls \in Seq(Callbacks),
           NEW way, way = [i \in DOMAIN calls |-> Carried(calls[i])]
    PROVE  /\ way \in Seq(Entries) /\ Len(way) = Len(calls)
           /\ \A i \in 1..Len(calls) : way[i] = Carried(calls[i])
<1>1. \A c \in Callbacks : Carried(c) \in Entries
  BY DEF Callbacks, Carried, Entries
<1>2. /\ Len(calls) \in Nat /\ DOMAIN calls = 1..Len(calls)
      /\ \A i \in 1..Len(calls) : calls[i] \in Callbacks
  OBVIOUS
<1> QED BY <1>1, <1>2

\* All there is of events is a sequence of entries.
LEMMA EventsAreEntries ==
    ASSUME QueuesTypeOK
    PROVE  /\ OnTheirWay \in Seq(Entries) /\ Len(OnTheirWay) = Len(callbacks)
           /\ \A i \in 1..Len(callbacks) : OnTheirWay[i] = Carried(callbacks[i])
           /\ Queued \in Seq(Entries)
           /\ taken \o Queued \in Seq(Entries)
           /\ AllEvents \in Seq(Entries)
<1>1. /\ OnTheirWay \in Seq(Entries) /\ Len(OnTheirWay) = Len(callbacks)
      /\ \A i \in 1..Len(callbacks) : OnTheirWay[i] = Carried(callbacks[i])
  BY CarriedEntries DEF OnTheirWay, QueuesTypeOK
<1>2. Queued \in Seq(Entries)
  BY DEF Queued, QueuesTypeOK
<1>3. taken \o Queued \in Seq(Entries)
  BY <1>2, ConcatProperties DEF QueuesTypeOK
<1>4. AllEvents \in Seq(Entries)
  BY <1>1, <1>3, ConcatProperties DEF AllEvents
<1> QED BY <1>1, <1>2, <1>3, <1>4

\* One more callback.
LEMMA CallbackAppended ==
    ASSUME QueuesTypeOK, QueuesTypeOK', NEW c \in Callbacks, callbacks' = Append(callbacks, c),
           UNCHANGED <<taken, contents, event_queue>>
    PROVE  AllEvents' = Append(AllEvents, Carried(c)) /\ Carried(c) \in Entries
<1>1. Carried(c) \in Entries
  BY DEF Callbacks, Carried, Entries
<1>2. OnTheirWay' = Append(OnTheirWay, Carried(c))
  <2> DEFINE n == Len(callbacks)
  <2>1. n \in Nat /\ Len(callbacks') = n + 1 /\ callbacks'[n + 1] = c
        /\ \A i \in 1..n : callbacks'[i] = callbacks[i]
    BY DEF QueuesTypeOK
  <2>2. /\ OnTheirWay' \in Seq(Entries) /\ Len(OnTheirWay') = n + 1
        /\ \A i \in 1..(n + 1) : OnTheirWay'[i] = Carried(callbacks'[i])
    <3>1. callbacks' \in Seq(Callbacks)
      BY DEF QueuesTypeOK
    <3>2. OnTheirWay' = [i \in DOMAIN callbacks' |-> Carried(callbacks'[i])]
      BY DEF OnTheirWay
    <3> QED BY <2>1, <3>1, <3>2, CarriedEntries
  <2>3. /\ OnTheirWay \in Seq(Entries) /\ Len(OnTheirWay) = n
        /\ \A i \in 1..n : OnTheirWay[i] = Carried(callbacks[i])
    BY EventsAreEntries
  <2> HIDE DEF n
  <2> DEFINE l == Append(OnTheirWay, Carried(c))
  <2>4. l \in Seq(Entries) /\ Len(l) = n + 1 /\ l[n + 1] = Carried(c)
        /\ \A i \in 1..n : l[i] = OnTheirWay[i]
    BY <1>1, <2>1, <2>3
  <2> HIDE DEF l
  <2>5. \A i \in 1..(n + 1) : OnTheirWay'[i] = l[i]
    <3> TAKE i \in 1..(n + 1)
    <3>1. CASE i = n + 1
      BY <2>1, <2>2, <2>4, <3>1
    <3>2. CASE i # n + 1
      <4>1. i \in 1..n
        BY <2>1, <3>2
      <4> QED BY <2>1, <2>2, <2>3, <2>4, <4>1
    <3> QED BY <3>1, <3>2
  <2> QED BY <2>2, <2>4, <2>5, SeqEqual DEF l
<1>3. (taken \o Queued)' = taken \o Queued
  BY DEF Queued
<1>4. (taken \o Queued) \o Append(OnTheirWay, Carried(c))
        = Append((taken \o Queued) \o OnTheirWay, Carried(c))
  <2> DEFINE a == taken \o Queued
             b == OnTheirWay
             e == Carried(c)
  <2>1. a \in Seq(Entries) /\ b \in Seq(Entries) /\ <<e>> \in Seq(Entries)
    BY <1>1, EventsAreEntries
  <2> HIDE DEF a, b, e
  <2>2. (a \o b) \o <<e>> = a \o (b \o <<e>>)
    BY <2>1, ConcatAssociative
  <2>3. e \in Entries
    BY <1>1 DEF e
  <2>4. Append(b, e) = b \o <<e>>
    BY <2>1, <2>3, AppendIsConcat
  <2>5. a \o b \in Seq(Entries)
    BY <2>1, ConcatProperties
  <2>6. Append(a \o b, e) = (a \o b) \o <<e>>
    BY <2>3, <2>5, AppendIsConcat
  <2> QED BY <2>2, <2>4, <2>6 DEF a, b, e
<1> QED BY <1>1, <1>2, <1>3, <1>4 DEF AllEvents

\* The first callback is run.
LEMMA CallbackRun ==
    ASSUME QueuesTypeOK, QueuesTypeOK', callbacks # <<>>, callbacks' = Tail(callbacks)
    PROVE  /\ OnTheirWay # <<>> /\ Head(OnTheirWay) = Carried(Head(callbacks))
           /\ OnTheirWay' = Tail(OnTheirWay)
<1> DEFINE n == Len(callbacks)
<1>1. /\ n \in Nat \ {0} /\ Len(callbacks') = n - 1
      /\ \A i \in 1..(n - 1) : callbacks'[i] = callbacks[i + 1]
      /\ Head(callbacks) = callbacks[1]
  BY HeadTailProperties DEF QueuesTypeOK
<1>2. /\ OnTheirWay' \in Seq(Entries) /\ Len(OnTheirWay') = n - 1
      /\ \A i \in 1..(n - 1) : OnTheirWay'[i] = Carried(callbacks'[i])
  <2>1. callbacks' \in Seq(Callbacks)
    BY DEF QueuesTypeOK
  <2>2. OnTheirWay' = [i \in DOMAIN callbacks' |-> Carried(callbacks'[i])]
    BY DEF OnTheirWay
  <2>3. /\ OnTheirWay' \in Seq(Entries) /\ Len(OnTheirWay') = Len(callbacks')
        /\ \A i \in 1..Len(callbacks') : OnTheirWay'[i] = Carried(callbacks'[i])
    BY <2>1, <2>2, CarriedEntries
  <2> HIDE DEF n
  <2> QED BY <1>1, <2>3
<1>3. /\ OnTheirWay \in Seq(Entries) /\ Len(OnTheirWay) = n
      /\ \A i \in 1..n : OnTheirWay[i] = Carried(callbacks[i])
  BY EventsAreEntries
<1> HIDE DEF n
<1>4. OnTheirWay # <<>> /\ Head(OnTheirWay) = OnTheirWay[1]
  BY <1>1, <1>3
<1>5. /\ Tail(OnTheirWay) \in Seq(Entries) /\ Len(Tail(OnTheirWay)) = n - 1
      /\ \A i \in 1..(n - 1) : Tail(OnTheirWay)[i] = OnTheirWay[i + 1]
  BY <1>3, <1>4, HeadTailProperties
<1>6. \A i \in 1..(n - 1) : OnTheirWay'[i] = Tail(OnTheirWay)[i]
  BY <1>1, <1>2, <1>3, <1>5
<1>7. OnTheirWay' = Tail(OnTheirWay)
  BY <1>2, <1>5, <1>6, SeqEqual
<1> QED BY <1>1, <1>3, <1>4, <1>7

\* At first nothing has been pushed.
LEMMA QueuesIInvAtFirst == EventQueuesInit => QueuesIInv
<1> SUFFICES ASSUME EventQueuesInit
             PROVE  QueuesTypeOK /\ QueueIsShared /\ WaitersAskedOnce /\ EventsInOrder
  BY DEF QueuesIInv
<1>1. /\ contents = <<>> /\ callbacks = <<>> /\ taken = <<>> /\ event_queue = 0
      /\ DOMAIN callbacks = {} /\ Len(contents) = 0
  BY DEF EventQueuesInit
<1>2. QueuesTypeOK
  BY <1>1 DEF EventQueuesInit, QueuesTypeOK, Quiet
<1>3. QueueIsShared
  BY <1>1 DEF EventQueuesInit, QueueIsShared, Quiet
<1>4. WaitersAskedOnce
  BY <1>1 DEF EventQueuesInit, WaitersAskedOnce, Quiet
<1>5. AllEvents = <<>> /\ DOMAIN AllEvents = {}
  <2>1. OnTheirWay = <<>>
    <3>1. OnTheirWay \in Seq(Entries) /\ Len(OnTheirWay) = 0
      BY <1>1, <1>2, EventsAreEntries
    <3> QED BY <3>1
  <2>2. Queued = <<>>
    BY <1>1 DEF Queued
  <2>3. <<>> \in Seq(Entries)
    OBVIOUS
  <2>4. AllEvents = <<>>
    BY <1>1, <2>1, <2>2, <2>3, ConcatEmptySeq DEF AllEvents
  <2>5. DOMAIN AllEvents = {}
    BY <2>4
  <2> QED BY <2>4, <2>5
<1>6. EventsInOrder
  <2> SUFFICES ASSUME NEW p \in Pushers PROVE InOrder(AllEvents, p, Sent(p))
    BY DEF EventsInOrder
  <2>1. Sent(p) = 0
    BY DEF Sent, EventQueuesInit, Quiet
  <2>2. 1..0 = {}
    OBVIOUS
  <2> QED BY <1>5, <2>1, <2>2 DEF InOrder
<1> QED BY <1>2, <1>3, <1>4, <1>6

\* A thread looks for the queue.
LEMMA FindKeepsIInv ==
    ASSUME QueuesIInv, known, NEW p \in Pushers, FindQueue(p)
    PROVE  QueuesIInv'
<1>1. /\ QueuesTypeOK /\ QueueIsShared /\ WaitersAskedOnce /\ EventsInOrder
      /\ pusher[p].pc = "idle"
      /\ pushed' = [pushed EXCEPT ![p] = @ + 1]
      /\ UNCHANGED <<event_queue, contents, stream, known, taken>>
  BY DEF QueuesIInv, FindQueue
<1>2. pushed[p] \in Nat /\ pushed'[p] = pushed[p] + 1
      /\ pushed' \in [Pushers -> Nat] /\ \A x \in Pushers \ {p} : pushed'[x] = pushed[x]
  BY <1>1 DEF QueuesTypeOK
<1>3. CASE event_queue # 0
  <2>1. /\ pusher' = [pusher EXCEPT ![p] = [pc |-> "put", queue |-> event_queue]]
        /\ callbacks' = callbacks
    BY <1>3 DEF FindQueue
  <2>2. event_queue \in Nat
    BY <1>1 DEF QueuesTypeOK
  <2>3. /\ pusher'[p] = [pc |-> "put", queue |-> event_queue]
        /\ \A x \in Pushers \ {p} : pusher'[x] = pusher[x]
    BY <1>1, <2>1 DEF QueuesTypeOK
  <2>4. QueuesTypeOK'
    <3>1. [pc |-> "put", queue |-> event_queue]
              \in [pc : {"idle", "wait", "store", "put"}, queue : Nat]
      BY <2>2
    <3>2. pusher' \in [Pushers -> [pc : {"idle", "wait", "store", "put"}, queue : Nat]]
      BY <1>1, <2>1, <3>1 DEF QueuesTypeOK
    <3> QED BY <1>1, <1>2, <2>1, <3>2 DEF QueuesTypeOK
  <2>5. QueueIsShared'
    BY <1>1, <1>3, <2>1, <2>3 DEF QueueIsShared
  <2>6. WaitersAskedOnce'
    BY <1>1, <1>2, <2>1, <2>3 DEF WaitersAskedOnce, QueuesTypeOK, Callbacks
  <2>7. EventsInOrder'
    <3>1. AllEvents' = AllEvents
      BY <1>1, <2>1 DEF AllEvents, Queued, OnTheirWay
    <3>2. ASSUME NEW x \in Pushers PROVE Sent(x)' = Sent(x)
      <4>1. CASE x = p
        BY <1>1, <1>2, <2>3, <4>1 DEF Sent
      <4>2. CASE x # p
        BY <1>2, <2>3, <4>2 DEF Sent
      <4> QED BY <4>1, <4>2
    <3> QED BY <1>1, <3>1, <3>2 DEF EventsInOrder
  <2> QED BY <2>4, <2>5, <2>6, <2>7 DEF QueuesIInv
<1>4. CASE event_queue = 0
  <2> DEFINE c == [kind |-> "create", by |-> p]
             n == Len(callbacks)
  <2>1. /\ pusher' = [pusher EXCEPT ![p] = [pc |-> "wait", queue |-> 0]]
        /\ callbacks' = Append(callbacks, c)
    BY <1>4 DEF FindQueue
  <2>2. c \in Callbacks /\ c.kind = "create" /\ c.by = p /\ Carried(c).number = 0
    BY DEF Callbacks, Carried
  <2> HIDE DEF c
  <2>3. /\ pusher'[p].pc = "wait"
        /\ \A x \in Pushers \ {p} : pusher'[x] = pusher[x]
    BY <1>1, <2>1 DEF QueuesTypeOK
  <2>4. /\ n \in Nat /\ DOMAIN callbacks = 1..n /\ DOMAIN callbacks' = 1..(n + 1)
        /\ callbacks'[n + 1] = c
        /\ \A i \in 1..n : callbacks'[i] = callbacks[i] /\ callbacks[i] \in Callbacks
        /\ callbacks' \in Seq(Callbacks)
    BY <1>1, <2>1, <2>2 DEF QueuesTypeOK
  <2> HIDE DEF n
  <2>5. QueuesTypeOK'
    <3>1. [pc |-> "wait", queue |-> 0] \in [pc : {"idle", "wait", "store", "put"}, queue : Nat]
      OBVIOUS
    <3>2. pusher' \in [Pushers -> [pc : {"idle", "wait", "store", "put"}, queue : Nat]]
      BY <1>1, <2>1, <3>1 DEF QueuesTypeOK
    <3> QED BY <1>1, <1>2, <2>4, <3>2 DEF QueuesTypeOK
  <2>6. QueueIsShared'
    <3>1. ASSUME NEW i \in DOMAIN callbacks', callbacks'[i].kind = "put"
          PROVE  event_queue # 0 /\ callbacks'[i].queue = event_queue
      <4>1. i \in 1..n
        BY <2>2, <2>4, <3>1
      <4> QED BY <1>1, <2>4, <3>1, <4>1 DEF QueueIsShared
    <3>2. \A x \in Pushers :
            /\ pusher'[x].pc = "put" => event_queue # 0 /\ pusher'[x].queue = event_queue
            /\ pusher'[x].pc = "store" => pusher'[x].queue \in 1..Len(contents)
      BY <1>1, <2>3 DEF QueueIsShared
    <3> QED BY <1>1, <3>1, <3>2 DEF QueueIsShared
  <2>7. WaitersAskedOnce'
    <3>1. \A i \in 1..n : callbacks[i].kind = "create" =>
              callbacks[i].by \in Pushers /\ callbacks[i].by # p
                  /\ pusher'[callbacks[i].by].pc = "wait"
      <4>1. \A i \in 1..n : callbacks[i].kind = "create" =>
                callbacks[i].by \in Pushers /\ pusher[callbacks[i].by].pc = "wait"
        BY <1>1, <2>4 DEF WaitersAskedOnce, Callbacks
      <4> QED BY <1>1, <2>3, <4>1
    <3>2. \A x \in Pushers : pusher'[x].pc # "idle" => pushed'[x] > 0
      BY <1>1, <1>2, <2>3 DEF WaitersAskedOnce
    <3>3. \A i \in DOMAIN callbacks' :
            callbacks'[i].kind = "create" => pusher'[callbacks'[i].by].pc = "wait"
      BY <2>2, <2>3, <2>4, <3>1
    <3>4. ASSUME NEW i \in DOMAIN callbacks', NEW j \in DOMAIN callbacks',
                 callbacks'[i].kind = "create", callbacks'[j].kind = "create",
                 callbacks'[i].by = callbacks'[j].by
          PROVE  i = j
      <4>1. CASE i \in 1..n /\ j \in 1..n
        BY <1>1, <2>4, <3>4, <4>1 DEF WaitersAskedOnce
      <4>2. CASE i = n + 1 \/ j = n + 1
        BY <2>2, <2>4, <3>1, <3>4, <4>2
      <4> QED BY <2>4, <4>1, <4>2
    <3> QED BY <3>2, <3>3, <3>4 DEF WaitersAskedOnce
  <2>8. EventsInOrder'
    <3>1. AllEvents' = Append(AllEvents, Carried(c)) /\ Carried(c) \in Entries
      BY <1>1, <2>1, <2>2, <2>5, CallbackAppended
    <3>2. ASSUME NEW x \in Pushers PROVE Sent(x)' = Sent(x) /\ Sent(x) \in Nat
      <4>1. CASE x = p
        BY <1>1, <1>2, <2>3, <4>1 DEF Sent
      <4>2. CASE x # p
        <5>1. pushed[x] \in Nat /\ (pusher[x].pc # "idle" => pushed[x] > 0)
          BY <1>1 DEF QueuesTypeOK, WaitersAskedOnce
        <5> QED BY <1>2, <2>3, <4>2, <5>1 DEF Sent
      <4> QED BY <4>1, <4>2
    <3> SUFFICES ASSUME NEW x \in Pushers PROVE InOrder(AllEvents, x, Sent(x))'
      BY DEF EventsInOrder
    <3>3. InOrder(Append(AllEvents, Carried(c)), x, Sent(x))
      <4>1. InOrder(AllEvents, x, Sent(x)) /\ AllEvents \in Seq(Entries)
        BY <1>1, EventsAreEntries DEF EventsInOrder
      <4> QED BY <2>2, <3>1, <3>2, <4>1, OthersEvent
    <3> QED BY <3>1, <3>2, <3>3 DEF InOrder
  <2> QED BY <2>5, <2>6, <2>7, <2>8 DEF QueuesIInv
<1> QED BY <1>3, <1>4

\* The session gets its queue, where it has none: what is stored is empty, and what was
\* there before is what all use.
LEMMA QueueStored ==
    ASSUME QueuesTypeOK, QueueIsShared, NEW q \in 1..Len(contents), event_queue' = Store(q),
           UNCHANGED <<contents, callbacks, taken>>
    PROVE  /\ event_queue' \in 1..Len(contents)
           /\ event_queue # 0 => event_queue' = event_queue
           /\ \A x \in 1..Len(contents) : x # event_queue' => contents[x] = <<>>
           /\ AllEvents' = AllEvents
<1>1. event_queue \in 0..Len(contents) /\ Len(contents) \in Nat
  BY DEF QueuesTypeOK
<1>2. event_queue' = IF event_queue = 0 THEN q ELSE event_queue
  BY DEF Store
<1>3. Queued' = Queued
  <2>1. CASE event_queue = 0
    <3>1. contents[q] = <<>>
      BY <1>1, <2>1 DEF QueueIsShared
    <3> QED BY <1>1, <1>2, <2>1, <3>1 DEF Queued
  <2>2. CASE event_queue # 0
    BY <1>2, <2>2 DEF Queued
  <2> QED BY <2>1, <2>2
<1>4. OnTheirWay' = OnTheirWay
  BY DEF OnTheirWay
<1>5. \A x \in 1..Len(contents) : x # event_queue' => contents[x] = <<>>
  <2>1. \A x \in 1..Len(contents) : x # event_queue => contents[x] = <<>>
    BY DEF QueueIsShared
  <2> QED BY <1>1, <1>2, <2>1
<1> QED BY <1>1, <1>2, <1>3, <1>4, <1>5 DEF AllEvents

\* A thread stores the queue it asked for.
LEMMA StoreKeepsIInv ==
    ASSUME QueuesIInv, known, NEW p \in Pushers, StoreQueue(p)
    PROVE  QueuesIInv'
<1>1. /\ QueuesTypeOK /\ QueueIsShared /\ WaitersAskedOnce /\ EventsInOrder
      /\ pusher[p].pc = "store"
      /\ event_queue' = Store(pusher[p].queue)
      /\ pusher' = [pusher EXCEPT ![p] = [pc |-> "put", queue |-> event_queue']]
      /\ UNCHANGED <<contents, callbacks, stream, known, pushed, taken>>
  BY DEF QueuesIInv, StoreQueue
<1>2. pusher[p].queue \in 1..Len(contents)
  BY <1>1 DEF QueueIsShared
<1>3. /\ event_queue' \in 1..Len(contents)
      /\ event_queue # 0 => event_queue' = event_queue
      /\ \A x \in 1..Len(contents) : x # event_queue' => contents[x] = <<>>
      /\ AllEvents' = AllEvents
  BY <1>1, <1>2, QueueStored
<1>4. Len(contents) \in Nat /\ event_queue' \in Nat \ {0}
  BY <1>1, <1>3 DEF QueuesTypeOK
<1>5. /\ pusher'[p].pc = "put" /\ pusher'[p].queue = event_queue'
      /\ \A x \in Pushers \ {p} : pusher'[x] = pusher[x]
  BY <1>1 DEF QueuesTypeOK
<1>6. QueuesTypeOK'
  <2>1. [pc |-> "put", queue |-> event_queue']
            \in [pc : {"idle", "wait", "store", "put"}, queue : Nat]
    BY <1>4
  <2>2. pusher' \in [Pushers -> [pc : {"idle", "wait", "store", "put"}, queue : Nat]]
    BY <1>1, <2>1 DEF QueuesTypeOK
  <2> QED BY <1>1, <1>3, <1>4, <2>2 DEF QueuesTypeOK
<1>7. QueueIsShared'
  <2>1. \A x \in Pushers :
          /\ pusher'[x].pc = "put" => event_queue' # 0 /\ pusher'[x].queue = event_queue'
          /\ pusher'[x].pc = "store" => pusher'[x].queue \in 1..Len(contents')
    BY <1>1, <1>3, <1>4, <1>5 DEF QueueIsShared
  <2>2. \A x \in Streams :
          /\ stream'[x].pc = "open" => event_queue' # 0 /\ stream'[x].queue = event_queue'
          /\ stream'[x].pc = "store" => stream'[x].queue \in 1..Len(contents')
    BY <1>1, <1>3, <1>4 DEF QueueIsShared
  <2>3. \A i \in DOMAIN callbacks' : callbacks'[i].kind = "put" =>
          event_queue' # 0 /\ callbacks'[i].queue = event_queue'
    BY <1>1, <1>3, <1>4 DEF QueueIsShared
  <2> QED BY <1>1, <1>3, <2>1, <2>2, <2>3 DEF QueueIsShared
<1>8. WaitersAskedOnce'
  <2>1. \A i \in DOMAIN callbacks : callbacks[i].kind = "create" => callbacks[i].by \in Pushers
    BY <1>1 DEF QueuesTypeOK, Callbacks
  <2> QED BY <1>1, <1>5, <2>1 DEF WaitersAskedOnce
<1>9. EventsInOrder'
  <2>1. \A x \in Pushers : Sent(x)' = Sent(x)
    BY <1>1, <1>5 DEF Sent
  <2> QED BY <1>1, <1>3, <2>1 DEF EventsInOrder
<1> QED BY <1>6, <1>7, <1>8, <1>9 DEF QueuesIInv

\* A thread hands its event to the loop.
LEMMA PutKeepsIInv ==
    ASSUME QueuesIInv, known, NEW p \in Pushers, PutEvent(p)
    PROVE  QueuesIInv'
<1> DEFINE c == [kind |-> "put", queue |-> pusher[p].queue, event |-> Event(p)]
           n == Len(callbacks)
<1>1. /\ QueuesTypeOK /\ QueueIsShared /\ WaitersAskedOnce /\ EventsInOrder
      /\ pusher[p].pc = "put"
      /\ callbacks' = Append(callbacks, c)
      /\ pusher' = [pusher EXCEPT ![p] = Quiet]
      /\ UNCHANGED <<event_queue, contents, stream, known, pushed, taken>>
  BY DEF QueuesIInv, PutEvent
<1>2. /\ c \in Callbacks /\ c.kind = "put" /\ c.queue = pusher[p].queue /\ Carried(c) = Event(p)
      /\ Event(p) \in Entries /\ Event(p).by = p /\ Event(p).number = pushed[p]
      /\ pushed[p] \in Nat \ {0} /\ pusher[p].queue = event_queue /\ event_queue # 0
  <2>1. /\ pushed[p] \in Nat \ {0} /\ pusher[p].queue = event_queue /\ event_queue # 0
        /\ pusher[p].queue \in Nat
    <3> HIDE DEF c, n
    <3>1. pushed[p] \in Nat /\ pusher[p].queue \in Nat
      BY <1>1 DEF QueuesTypeOK
    <3>2. pushed[p] > 0
      BY <1>1 DEF WaitersAskedOnce
    <3>3. pusher[p].queue = event_queue /\ event_queue # 0
      BY <1>1 DEF QueueIsShared
    <3> QED BY <3>1, <3>2, <3>3
  <2>2. Event(p) \in Entries /\ Event(p).by = p /\ Event(p).number = pushed[p]
    BY <2>1 DEF Event, Entries
  <2>3. c.kind = "put" /\ c.queue = pusher[p].queue /\ c.event = Event(p)
    OBVIOUS
  <2>4. c \in Callbacks
    BY <2>1, <2>2 DEF Callbacks
  <2>5. Carried(c) = Event(p)
    BY <2>3 DEF Carried
  <2> QED BY <2>1, <2>2, <2>3, <2>4, <2>5
<1> HIDE DEF c
<1>3. /\ n \in Nat /\ DOMAIN callbacks = 1..n /\ DOMAIN callbacks' = 1..(n + 1)
      /\ callbacks'[n + 1] = c
      /\ \A i \in 1..n : callbacks'[i] = callbacks[i] /\ callbacks[i] \in Callbacks
      /\ callbacks' \in Seq(Callbacks)
  BY <1>1, <1>2 DEF QueuesTypeOK
<1> HIDE DEF n
<1>4. /\ pusher'[p].pc = "idle"
      /\ \A x \in Pushers \ {p} : pusher'[x] = pusher[x]
  BY <1>1 DEF QueuesTypeOK, Quiet
<1>5. QueuesTypeOK'
  <2>1. Quiet \in [pc : {"idle", "wait", "store", "put"}, queue : Nat]
    BY DEF Quiet
  <2>2. pusher' \in [Pushers -> [pc : {"idle", "wait", "store", "put"}, queue : Nat]]
    BY <1>1, <2>1 DEF QueuesTypeOK
  <2> QED BY <1>1, <1>3, <2>2 DEF QueuesTypeOK
<1>6. QueueIsShared'
  <2>1. \A i \in DOMAIN callbacks' : callbacks'[i].kind = "put" =>
          event_queue # 0 /\ callbacks'[i].queue = event_queue
    BY <1>1, <1>2, <1>3 DEF QueueIsShared
  <2>2. \A x \in Pushers :
          /\ pusher'[x].pc = "put" => event_queue # 0 /\ pusher'[x].queue = event_queue
          /\ pusher'[x].pc = "store" => pusher'[x].queue \in 1..Len(contents)
    BY <1>1, <1>4 DEF QueueIsShared
  <2> QED BY <1>1, <2>1, <2>2 DEF QueueIsShared
<1>7. WaitersAskedOnce'
  <2>1. \A i \in 1..n : callbacks[i].kind = "create" =>
            callbacks[i].by \in Pushers /\ callbacks[i].by # p
                /\ pusher'[callbacks[i].by].pc = "wait"
    <3>1. \A i \in 1..n : callbacks[i].kind = "create" =>
              callbacks[i].by \in Pushers /\ pusher[callbacks[i].by].pc = "wait"
      BY <1>1, <1>3 DEF WaitersAskedOnce, Callbacks
    <3> QED BY <1>1, <1>4, <3>1
  <2>2. \A x \in Pushers : pusher'[x].pc # "idle" => pushed'[x] > 0
    BY <1>1, <1>4 DEF WaitersAskedOnce
  <2>3. \A i \in DOMAIN callbacks' : callbacks'[i].kind = "create" => i \in 1..n
    BY <1>2, <1>3
  <2>4. \A i \in DOMAIN callbacks' :
          callbacks'[i].kind = "create" => pusher'[callbacks'[i].by].pc = "wait"
    BY <1>3, <2>1, <2>3
  <2>5. \A i, j \in DOMAIN callbacks' :
          /\ callbacks'[i].kind = "create" /\ callbacks'[j].kind = "create"
          /\ callbacks'[i].by = callbacks'[j].by
          => i = j
    BY <1>1, <1>3, <2>3 DEF WaitersAskedOnce
  <2> QED BY <2>2, <2>4, <2>5 DEF WaitersAskedOnce
<1>8. EventsInOrder'
  <2>1. AllEvents' = Append(AllEvents, Event(p)) /\ AllEvents \in Seq(Entries)
    BY <1>1, <1>2, <1>5, CallbackAppended, EventsAreEntries
  <2> SUFFICES ASSUME NEW x \in Pushers PROVE InOrder(AllEvents, x, Sent(x))'
    BY DEF EventsInOrder
  <2>2. InOrder(AllEvents, x, Sent(x))
    BY <1>1 DEF EventsInOrder
  <2>3. CASE x = p
    <3>1. Sent(x) \in Nat /\ pushed[p] = Sent(x) + 1 /\ Sent(x)' = Sent(x) + 1
      BY <1>1, <1>2, <1>4, <2>3 DEF Sent
    <3>2. InOrder(Append(AllEvents, Event(p)), x, Sent(x) + 1)
      BY <1>2, <2>1, <2>2, <2>3, <3>1, NextEvent
    <3> QED BY <2>1, <3>1, <3>2 DEF InOrder
  <2>4. CASE x # p
    <3>1. Sent(x)' = Sent(x)
      BY <1>1, <1>4, <2>4 DEF Sent
    <3>2. Sent(x) \in Nat
      <4>1. pushed[x] \in Nat /\ (pusher[x].pc # "idle" => pushed[x] > 0)
        BY <1>1 DEF QueuesTypeOK, WaitersAskedOnce
      <4> QED BY <4>1 DEF Sent
    <3>3. InOrder(Append(AllEvents, Event(p)), x, Sent(x))
      BY <1>2, <2>1, <2>2, <2>4, <3>2, OthersEvent
    <3> QED BY <2>1, <3>1, <3>3 DEF InOrder
  <2> QED BY <2>3, <2>4
<1> QED BY <1>5, <1>6, <1>7, <1>8 DEF QueuesIInv

\* The loop puts an event into its queue.
LEMMA PutCallbackKeepsIInv ==
    ASSUME QueuesIInv, known, RunCallback, Head(callbacks).kind = "put"
    PROVE  QueuesIInv'
<1> DEFINE c == Head(callbacks)
           n == Len(callbacks)
<1>1. /\ QueuesTypeOK /\ QueueIsShared /\ WaitersAskedOnce /\ EventsInOrder
      /\ callbacks # <<>> /\ callbacks' = Tail(callbacks)
      /\ contents' = [contents EXCEPT ![c.queue] = Append(@, c.event)]
      /\ UNCHANGED <<event_queue, pusher, stream, known, pushed, taken>>
  BY DEF QueuesIInv, RunCallback
<1>2. /\ n \in Nat \ {0} /\ DOMAIN callbacks = 1..n /\ c = callbacks[1] /\ c \in Callbacks
      /\ Len(callbacks') = n - 1 /\ DOMAIN callbacks' = 1..(n - 1)
      /\ callbacks' \in Seq(Callbacks)
      /\ \A i \in 1..(n - 1) : callbacks'[i] = callbacks[i + 1]
  BY <1>1 DEF QueuesTypeOK
<1>3. c.queue = event_queue /\ event_queue \in 1..Len(contents) /\ c.event \in Entries
  <2>1. 1 \in DOMAIN callbacks
    BY <1>2
  <2>2. event_queue # 0 /\ c.queue = event_queue
    BY <1>1, <1>2, <2>1 DEF QueueIsShared
  <2>3. c.event \in Entries
    BY <1>2 DEF Callbacks
  <2> QED BY <1>1, <2>2, <2>3 DEF QueuesTypeOK
<1> HIDE DEF c, n
<1>4. /\ contents \in Seq(Seq(Entries)) /\ contents' \in Seq(Seq(Entries))
      /\ Len(contents') = Len(contents)
      /\ contents'[event_queue] = Append(contents[event_queue], c.event)
      /\ \A q \in 1..Len(contents) : q # event_queue => contents'[q] = contents[q]
      /\ contents[event_queue] \in Seq(Entries)
  BY <1>1, <1>3 DEF QueuesTypeOK
<1>5. QueuesTypeOK'
  BY <1>1, <1>2, <1>4 DEF QueuesTypeOK
<1>6. QueueIsShared'
  <2>1. \A i \in DOMAIN callbacks' : callbacks'[i].kind = "put" =>
          event_queue # 0 /\ callbacks'[i].queue = event_queue
    <3>1. \A i \in 1..(n - 1) : i + 1 \in DOMAIN callbacks
      BY <1>2
    <3> QED BY <1>1, <1>2, <3>1 DEF QueueIsShared
  <2>2. \A q \in 1..Len(contents') : q # event_queue => contents'[q] = <<>>
    BY <1>1, <1>4 DEF QueueIsShared
  <2> QED BY <1>1, <1>4, <2>1, <2>2 DEF QueueIsShared
<1>7. WaitersAskedOnce'
  <2>1. \A i \in 1..(n - 1) : i \in Int /\ i + 1 \in DOMAIN callbacks
    BY <1>2
  <2>2. \A i, j \in Int : i + 1 = j + 1 => i = j
    OBVIOUS
  <2> QED BY <1>1, <1>2, <2>1, <2>2 DEF WaitersAskedOnce
<1>8. EventsInOrder'
  <2>1. /\ OnTheirWay # <<>> /\ Head(OnTheirWay) = Carried(c)
        /\ OnTheirWay' = Tail(OnTheirWay)
    BY <1>1, <1>5, CallbackRun DEF c
  <2>2. Carried(c) = c.event
    BY DEF Carried, c
  <2>3. Queued' = Append(Queued, Head(OnTheirWay)) /\ Queued = contents[event_queue]
    BY <1>1, <1>3, <1>4, <2>1, <2>2 DEF Queued
  <2> DEFINE q == Queued
             w == OnTheirWay
             e == Head(w)
  <2>4. /\ q \in Seq(Entries) /\ w \in Seq(Entries) /\ taken \in Seq(Entries)
        /\ taken \o q \in Seq(Entries) /\ e \in Entries
    BY <1>1, <1>3, <2>1, <2>2, EventsAreEntries DEF QueuesTypeOK
  <2>5. w # <<>> /\ OnTheirWay' = Tail(w) /\ Queued' = Append(q, e) /\ taken' = taken
    BY <1>1, <2>1, <2>3
  <2>6. AllEvents = (taken \o q) \o w /\ AllEvents' = (taken \o Append(q, e)) \o Tail(w)
    BY <2>5 DEF AllEvents
  <2> HIDE DEF q, w, e
  <2>7. taken \o Append(q, e) = Append(taken \o q, e)
    <3>1. Append(q, e) = q \o <<e>> /\ Append(taken \o q, e) = (taken \o q) \o <<e>>
      BY <2>4, AppendIsConcat
    <3>2. (taken \o q) \o <<e>> = taken \o (q \o <<e>>)
      <4>1. <<e>> \in Seq(Entries)
        BY <2>4
      <4> QED BY <2>4, <4>1, ConcatAssociative
    <3> QED BY <3>1, <3>2
  <2>8. Append(taken \o q, e) \o Tail(w) = (taken \o q) \o w
    BY <2>4, <2>5, EventMovesOn DEF e
  <2>9. AllEvents' = AllEvents
    BY <2>6, <2>7, <2>8
  <2>10. \A x \in Pushers : Sent(x)' = Sent(x)
    BY <1>1 DEF Sent
  <2> QED BY <1>1, <2>9, <2>10 DEF EventsInOrder
<1> QED BY <1>5, <1>6, <1>7, <1>8 DEF QueuesIInv

\* The loop creates a queue for the thread that asked for it.
LEMMA CreateCallbackKeepsIInv ==
    ASSUME QueuesIInv, known, RunCallback, Head(callbacks).kind # "put"
    PROVE  QueuesIInv'
<1> DEFINE c == Head(callbacks)
           n == Len(callbacks)
           new == Len(contents) + 1
<1>1. /\ QueuesTypeOK /\ QueueIsShared /\ WaitersAskedOnce /\ EventsInOrder
      /\ callbacks # <<>> /\ callbacks' = Tail(callbacks)
      /\ contents' = Append(contents, <<>>)
      /\ pusher' = [pusher EXCEPT ![c.by] = [pc |-> "store", queue |-> new]]
      /\ UNCHANGED <<event_queue, stream, known, pushed, taken>>
  BY DEF QueuesIInv, RunCallback, NewQueue
<1>2. /\ n \in Nat \ {0} /\ DOMAIN callbacks = 1..n /\ c = callbacks[1] /\ c \in Callbacks
      /\ Len(callbacks') = n - 1 /\ DOMAIN callbacks' = 1..(n - 1)
      /\ callbacks' \in Seq(Callbacks)
      /\ \A i \in 1..(n - 1) : callbacks'[i] = callbacks[i + 1] /\ callbacks'[i] \in Callbacks
  BY <1>1 DEF QueuesTypeOK
<1>3. c.kind = "create" /\ c.by \in Pushers /\ pusher[c.by].pc = "wait" /\ Carried(c).number = 0
  <2>1. c.kind = "create" /\ c.by \in Pushers
    BY <1>2 DEF Callbacks
  <2>2. 1 \in DOMAIN callbacks
    BY <1>2
  <2> QED BY <1>1, <1>2, <2>1, <2>2 DEF WaitersAskedOnce, Carried
<1> HIDE DEF c, n
<1>4. /\ contents' \in Seq(Seq(Entries)) /\ Len(contents') = new /\ Len(contents) \in Nat
      /\ contents'[new] = <<>>
      /\ \A q \in 1..Len(contents) : contents'[q] = contents[q]
      /\ event_queue \in 0..Len(contents)
  BY <1>1 DEF QueuesTypeOK
<1>5. /\ pusher'[c.by].pc = "store" /\ pusher'[c.by].queue = new
      /\ \A x \in Pushers \ {c.by} : pusher'[x] = pusher[x]
  BY <1>1, <1>3 DEF QueuesTypeOK
<1>6. QueuesTypeOK'
  <2>1. [pc |-> "store", queue |-> new] \in [pc : {"idle", "wait", "store", "put"}, queue : Nat]
    BY <1>4
  <2>2. pusher' \in [Pushers -> [pc : {"idle", "wait", "store", "put"}, queue : Nat]]
    BY <1>1, <2>1 DEF QueuesTypeOK
  <2> QED BY <1>1, <1>2, <1>4, <2>2 DEF QueuesTypeOK
<1> HIDE DEF new
<1>7. QueueIsShared'
  <2>0. /\ \A q \in 1..new : q = new \/ q \in 1..Len(contents)
        /\ 1..Len(contents) \subseteq 1..new /\ new \in 1..new
    BY <1>4 DEF new
  <2>1. \A i \in DOMAIN callbacks' : callbacks'[i].kind = "put" =>
          event_queue # 0 /\ callbacks'[i].queue = event_queue
    <3>1. \A i \in 1..(n - 1) : i + 1 \in DOMAIN callbacks
      BY <1>2
    <3> QED BY <1>1, <1>2, <3>1 DEF QueueIsShared
  <2>2. \A q \in 1..Len(contents') : q # event_queue => contents'[q] = <<>>
    <3>1. \A q \in 1..Len(contents) : q # event_queue => contents[q] = <<>>
      BY <1>1 DEF QueueIsShared
    <3> QED BY <1>4, <2>0, <3>1
  <2>3. \A x \in Pushers :
          /\ pusher'[x].pc = "put" => event_queue # 0 /\ pusher'[x].queue = event_queue
          /\ pusher'[x].pc = "store" => pusher'[x].queue \in 1..Len(contents')
    BY <1>1, <1>4, <1>5, <2>0 DEF QueueIsShared
  <2>4. \A x \in Streams :
          stream[x].pc = "store" => stream[x].queue \in 1..Len(contents')
    BY <1>1, <1>4, <2>0 DEF QueueIsShared
  <2> QED BY <1>1, <2>1, <2>2, <2>3, <2>4 DEF QueueIsShared
<1>8. WaitersAskedOnce'
  <2>1. \A i \in 1..(n - 1) : i \in Int /\ i + 1 \in DOMAIN callbacks /\ i + 1 # 1
    BY <1>2
  <2>2. \A i, j \in Int : i + 1 = j + 1 => i = j
    OBVIOUS
  <2>3. 1 \in DOMAIN callbacks
    BY <1>2
  <2>4. \A i \in 1..(n - 1) : callbacks'[i].kind = "create" =>
            callbacks'[i].by \in Pushers /\ callbacks'[i].by # c.by
    <3>1. \A i \in 1..(n - 1) : callbacks'[i].kind = "create" => callbacks'[i].by \in Pushers
      BY <1>2 DEF Callbacks
    <3>2. \A i \in 1..(n - 1) : callbacks'[i].kind = "create" => callbacks'[i].by # c.by
      BY <1>1, <1>2, <1>3, <2>1, <2>3 DEF WaitersAskedOnce
    <3> QED BY <3>1, <3>2
  <2>5. \A i \in DOMAIN callbacks' :
          callbacks'[i].kind = "create" => pusher'[callbacks'[i].by].pc = "wait"
    BY <1>1, <1>2, <1>5, <2>1, <2>4 DEF WaitersAskedOnce
  <2>6. \A x \in Pushers : pusher'[x].pc # "idle" => pushed'[x] > 0
    BY <1>1, <1>3, <1>5 DEF WaitersAskedOnce
  <2>7. \A i, j \in DOMAIN callbacks' :
          /\ callbacks'[i].kind = "create" /\ callbacks'[j].kind = "create"
          /\ callbacks'[i].by = callbacks'[j].by
          => i = j
    BY <1>1, <1>2, <2>1, <2>2 DEF WaitersAskedOnce
  <2> QED BY <2>5, <2>6, <2>7 DEF WaitersAskedOnce
<1>9. EventsInOrder'
  <2>1. /\ OnTheirWay # <<>> /\ Head(OnTheirWay) = Carried(c)
        /\ OnTheirWay' = Tail(OnTheirWay)
    BY <1>1, <1>6, CallbackRun DEF c
  <2>2. Queued' = Queued
    BY <1>1, <1>4 DEF Queued
  <2>3. AllEvents' = (taken \o Queued) \o Tail(OnTheirWay)
    BY <1>1, <2>1, <2>2 DEF AllEvents
  <2>4. taken \o Queued \in Seq(Entries) /\ OnTheirWay \in Seq(Entries)
    BY <1>1, EventsAreEntries
  <2> SUFFICES ASSUME NEW x \in Pushers PROVE InOrder(AllEvents, x, Sent(x))'
    BY DEF EventsInOrder
  <2>5. Sent(x)' = Sent(x)
    BY <1>1, <1>3, <1>5 DEF Sent
  <2>6. Sent(x) \in Nat
    <3>1. pushed[x] \in Nat /\ (pusher[x].pc # "idle" => pushed[x] > 0)
      BY <1>1 DEF QueuesTypeOK, WaitersAskedOnce
    <3> QED BY <3>1 DEF Sent
  <2>7. InOrder((taken \o Queued) \o OnTheirWay, x, Sent(x))
    BY <1>1 DEF EventsInOrder, AllEvents
  <2>8. InOrder((taken \o Queued) \o Tail(OnTheirWay), x, Sent(x))
    BY <1>3, <2>1, <2>4, <2>6, <2>7, NoEventTakenOut
  <2> QED BY <2>3, <2>5, <2>8 DEF InOrder
<1> QED BY <1>6, <1>7, <1>8, <1>9 DEF QueuesIInv

\* A stream opens, on the session's queue or on its way to one.
LEMMA OpenKeepsIInv ==
    ASSUME QueuesIInv, known, NEW s \in Streams, OpenStream(s)
    PROVE  QueuesIInv'
<1>1. /\ QueuesTypeOK /\ QueueIsShared /\ WaitersAskedOnce /\ EventsInOrder
      /\ UNCHANGED <<event_queue, callbacks, pusher, known, pushed, taken>>
  BY DEF QueuesIInv, OpenStream
<1>2. WaitersAskedOnce'
  BY <1>1 DEF WaitersAskedOnce
<1>3. \A x \in Pushers : Sent(x)' = Sent(x)
  BY <1>1 DEF Sent
<1>4. CASE event_queue # 0
  <2>1. /\ stream' = [stream EXCEPT ![s] = [pc |-> "open", queue |-> event_queue]]
        /\ contents' = contents
    BY <1>4 DEF OpenStream
  <2>2. event_queue \in Nat
    BY <1>1 DEF QueuesTypeOK
  <2>3. /\ stream'[s].pc = "open" /\ stream'[s].queue = event_queue
        /\ \A x \in Streams \ {s} : stream'[x] = stream[x]
    BY <1>1, <2>1 DEF QueuesTypeOK
  <2>4. QueuesTypeOK'
    <3>1. [pc |-> "open", queue |-> event_queue] \in [pc : {"idle", "store", "open"}, queue : Nat]
      BY <2>2
    <3>2. stream' \in [Streams -> [pc : {"idle", "store", "open"}, queue : Nat]]
      BY <1>1, <2>1, <3>1 DEF QueuesTypeOK
    <3> QED BY <1>1, <2>1, <3>2 DEF QueuesTypeOK
  <2>5. QueueIsShared'
    BY <1>1, <1>4, <2>1, <2>3 DEF QueueIsShared
  <2>6. EventsInOrder'
    <3>1. AllEvents' = AllEvents
      BY <1>1, <2>1 DEF AllEvents, Queued, OnTheirWay
    <3> QED BY <1>1, <1>3, <3>1 DEF EventsInOrder
  <2> QED BY <1>2, <2>4, <2>5, <2>6 DEF QueuesIInv
<1>5. CASE event_queue = 0
  <2> DEFINE new == Len(contents) + 1
  <2>1. /\ contents' = Append(contents, <<>>)
        /\ stream' = [stream EXCEPT ![s] = [pc |-> "store", queue |-> new]]
    BY <1>5 DEF OpenStream, NewQueue
  <2>2. /\ contents' \in Seq(Seq(Entries)) /\ Len(contents') = new /\ Len(contents) \in Nat
        /\ contents'[new] = <<>>
        /\ \A q \in 1..Len(contents) : contents'[q] = contents[q]
        /\ event_queue \in 0..Len(contents)
    BY <1>1, <2>1 DEF QueuesTypeOK
  <2>3. /\ stream'[s].pc = "store" /\ stream'[s].queue = new
        /\ \A x \in Streams \ {s} : stream'[x] = stream[x]
    BY <1>1, <2>1 DEF QueuesTypeOK
  <2>4. QueuesTypeOK'
    <3>1. [pc |-> "store", queue |-> new] \in [pc : {"idle", "store", "open"}, queue : Nat]
      BY <2>2
    <3>2. stream' \in [Streams -> [pc : {"idle", "store", "open"}, queue : Nat]]
      BY <1>1, <2>1, <3>1 DEF QueuesTypeOK
    <3>3. event_queue' \in 0..Len(contents')
      BY <1>1, <2>2
    <3> HIDE DEF new
    <3> QED BY <1>1, <2>2, <3>2, <3>3 DEF QueuesTypeOK
  <2> HIDE DEF new
  <2>5. QueueIsShared'
    <3> HIDE DEF new
    <3>0. /\ \A q \in 1..new : q = new \/ q \in 1..Len(contents)
          /\ 1..Len(contents) \subseteq 1..new /\ new \in 1..new
      BY <2>2 DEF new
    <3>1. \A q \in 1..Len(contents') : q # event_queue => contents'[q] = <<>>
      <4>1. \A q \in 1..Len(contents) : q # event_queue => contents[q] = <<>>
        BY <1>1 DEF QueueIsShared
      <4> QED BY <2>2, <3>0, <4>1
    <3>2. \A x \in Streams :
            /\ stream'[x].pc = "open" => event_queue # 0 /\ stream'[x].queue = event_queue
            /\ stream'[x].pc = "store" => stream'[x].queue \in 1..Len(contents')
      BY <1>1, <2>2, <2>3, <3>0 DEF QueueIsShared
    <3>3. \A x \in Pushers :
            pusher[x].pc = "store" => pusher[x].queue \in 1..Len(contents')
      BY <1>1, <2>2, <3>0 DEF QueueIsShared
    <3> QED BY <1>1, <3>1, <3>2, <3>3 DEF QueueIsShared
  <2>6. EventsInOrder'
    <3>1. Queued' = Queued /\ OnTheirWay' = OnTheirWay
      BY <1>1, <1>5 DEF Queued, OnTheirWay
    <3>2. AllEvents' = AllEvents
      BY <1>1, <3>1 DEF AllEvents
    <3> QED BY <1>1, <1>3, <3>2 DEF EventsInOrder
  <2> QED BY <1>2, <2>4, <2>5, <2>6 DEF QueuesIInv
<1> QED BY <1>4, <1>5

\* A stream stores the queue it created, or takes the one that came between.
LEMMA StreamStoreKeepsIInv ==
    ASSUME QueuesIInv, known, NEW s \in Streams, StoreStreamQueue(s)
    PROVE  QueuesIInv'
<1>1. /\ QueuesTypeOK /\ QueueIsShared /\ WaitersAskedOnce /\ EventsInOrder
      /\ stream[s].pc = "store"
      /\ event_queue' = Store(stream[s].queue)
      /\ stream' = [stream EXCEPT ![s] = [pc |-> "open", queue |-> event_queue']]
      /\ UNCHANGED <<contents, callbacks, pusher, known, pushed, taken>>
  BY DEF QueuesIInv, StoreStreamQueue
<1>2. stream[s].queue \in 1..Len(contents)
  BY <1>1 DEF QueueIsShared
<1>3. /\ event_queue' \in 1..Len(contents)
      /\ event_queue # 0 => event_queue' = event_queue
      /\ \A x \in 1..Len(contents) : x # event_queue' => contents[x] = <<>>
      /\ AllEvents' = AllEvents
  BY <1>1, <1>2, QueueStored
<1>4. Len(contents) \in Nat /\ event_queue' \in Nat \ {0}
  BY <1>1, <1>3 DEF QueuesTypeOK
<1>5. /\ stream'[s].pc = "open" /\ stream'[s].queue = event_queue'
      /\ \A x \in Streams \ {s} : stream'[x] = stream[x]
  BY <1>1 DEF QueuesTypeOK
<1>6. QueuesTypeOK'
  <2>1. [pc |-> "open", queue |-> event_queue'] \in [pc : {"idle", "store", "open"}, queue : Nat]
    BY <1>4
  <2>2. stream' \in [Streams -> [pc : {"idle", "store", "open"}, queue : Nat]]
    BY <1>1, <2>1 DEF QueuesTypeOK
  <2> QED BY <1>1, <1>3, <1>4, <2>2 DEF QueuesTypeOK
<1>7. QueueIsShared'
  <2>1. \A x \in Pushers :
          /\ pusher'[x].pc = "put" => event_queue' # 0 /\ pusher'[x].queue = event_queue'
          /\ pusher'[x].pc = "store" => pusher'[x].queue \in 1..Len(contents')
    BY <1>1, <1>3, <1>4 DEF QueueIsShared
  <2>2. \A x \in Streams :
          /\ stream'[x].pc = "open" => event_queue' # 0 /\ stream'[x].queue = event_queue'
          /\ stream'[x].pc = "store" => stream'[x].queue \in 1..Len(contents')
    BY <1>1, <1>3, <1>4, <1>5 DEF QueueIsShared
  <2>3. \A i \in DOMAIN callbacks' : callbacks'[i].kind = "put" =>
          event_queue' # 0 /\ callbacks'[i].queue = event_queue'
    BY <1>1, <1>3, <1>4 DEF QueueIsShared
  <2> QED BY <1>1, <1>3, <2>1, <2>2, <2>3 DEF QueueIsShared
<1>8. WaitersAskedOnce'
  BY <1>1 DEF WaitersAskedOnce
<1>9. EventsInOrder'
  <2>1. \A x \in Pushers : Sent(x)' = Sent(x)
    BY <1>1 DEF Sent
  <2> QED BY <1>1, <1>3, <2>1 DEF EventsInOrder
<1> QED BY <1>6, <1>7, <1>8, <1>9 DEF QueuesIInv

\* A stream takes the first event of the queue.
LEMMA TakeKeepsIInv ==
    ASSUME QueuesIInv, known, NEW s \in Streams, TakeEvent(s)
    PROVE  QueuesIInv'
<1>1. /\ QueuesTypeOK /\ QueueIsShared /\ WaitersAskedOnce /\ EventsInOrder
      /\ stream[s].pc = "open" /\ contents[stream[s].queue] # <<>>
      /\ taken' = Append(taken, Head(contents[stream[s].queue]))
      /\ contents' = [contents EXCEPT ![stream[s].queue] = Tail(@)]
      /\ UNCHANGED <<event_queue, callbacks, pusher, stream, known, pushed>>
  BY DEF QueuesIInv, TakeEvent
<1>2. stream[s].queue = event_queue /\ event_queue # 0
  BY <1>1 DEF QueueIsShared
<1>3. /\ Len(contents) \in Nat /\ event_queue \in 1..Len(contents)
      /\ contents[event_queue] \in Seq(Entries) /\ taken \in Seq(Entries)
  BY <1>1, <1>2 DEF QueuesTypeOK
<1>4. /\ Head(contents[event_queue]) \in Entries /\ Tail(contents[event_queue]) \in Seq(Entries)
  BY <1>1, <1>2, <1>3, HeadTailProperties
<1>5. /\ contents' \in Seq(Seq(Entries)) /\ Len(contents') = Len(contents)
      /\ contents'[event_queue] = Tail(contents[event_queue])
      /\ \A q \in 1..Len(contents) : q # event_queue => contents'[q] = contents[q]
      /\ taken' \in Seq(Entries)
  BY <1>1, <1>2, <1>3, <1>4 DEF QueuesTypeOK
<1>6. QueuesTypeOK'
  BY <1>1, <1>5 DEF QueuesTypeOK
<1>7. QueueIsShared'
  <2>1. \A q \in 1..Len(contents') : q # event_queue => contents'[q] = <<>>
    BY <1>1, <1>5 DEF QueueIsShared
  <2> QED BY <1>1, <1>5, <2>1 DEF QueueIsShared
<1>8. WaitersAskedOnce'
  BY <1>1 DEF WaitersAskedOnce
<1>9. EventsInOrder'
  <2>1. /\ Queued = contents[event_queue] /\ Queued' = Tail(Queued) /\ Queued # <<>>
        /\ taken' = Append(taken, Head(Queued)) /\ Queued \in Seq(Entries)
    BY <1>1, <1>2, <1>3, <1>5 DEF Queued
  <2>2. taken' \o Queued' = taken \o Queued
    BY <1>3, <2>1, EventMovesOn
  <2>3. OnTheirWay' = OnTheirWay
    BY <1>1 DEF OnTheirWay
  <2>4. AllEvents' = AllEvents
    BY <2>2, <2>3 DEF AllEvents
  <2>5. \A x \in Pushers : Sent(x)' = Sent(x)
    BY <1>1 DEF Sent
  <2> QED BY <1>1, <2>4, <2>5 DEF EventsInOrder
<1> QED BY <1>6, <1>7, <1>8, <1>9 DEF QueuesIInv

\* A stream closes.
LEMMA CloseKeepsIInv ==
    ASSUME QueuesIInv, known, NEW s \in Streams, CloseStream(s)
    PROVE  QueuesIInv'
<1>1. /\ QueuesTypeOK /\ QueueIsShared /\ WaitersAskedOnce /\ EventsInOrder
      /\ stream' = [stream EXCEPT ![s] = Quiet]
      /\ UNCHANGED <<event_queue, contents, callbacks, pusher, known, pushed, taken>>
  BY DEF QueuesIInv, CloseStream
<1>2. /\ stream'[s].pc = "idle" /\ \A x \in Streams \ {s} : stream'[x] = stream[x]
      /\ stream' \in [Streams -> [pc : {"idle", "store", "open"}, queue : Nat]]
  BY <1>1 DEF QueuesTypeOK, Quiet
<1>3. QueuesTypeOK'
  BY <1>1, <1>2 DEF QueuesTypeOK
<1>4. QueueIsShared'
  BY <1>1, <1>2 DEF QueueIsShared
<1>5. WaitersAskedOnce'
  BY <1>1 DEF WaitersAskedOnce
<1>6. EventsInOrder'
  <2>1. AllEvents' = AllEvents
    BY <1>1 DEF AllEvents, Queued, OnTheirWay
  <2>2. \A x \in Pushers : Sent(x)' = Sent(x)
    BY <1>1 DEF Sent
  <2> QED BY <1>1, <2>1, <2>2 DEF EventsInOrder
<1> QED BY <1>3, <1>4, <1>5, <1>6 DEF QueuesIInv

\* A deleted session does not come back; while it exists every step keeps its events.
LEMMA QueuesIInvStays == QueuesIInv /\ [EventQueuesNext]_queue_vars => QueuesIInv'
<1> SUFFICES ASSUME QueuesIInv, [EventQueuesNext]_queue_vars
             PROVE  QueuesIInv'
  OBVIOUS
<1>1. CASE UNCHANGED queue_vars
  <2>1. UNCHANGED <<event_queue, contents, callbacks, pusher, stream, known, pushed, taken>>
    BY <1>1 DEF queue_vars
  <2>2. AllEvents' = AllEvents /\ \A x \in Pushers : Sent(x)' = Sent(x)
    BY <2>1 DEF AllEvents, Queued, OnTheirWay, Sent
  <2>3. EventsInOrder => EventsInOrder'
    BY <2>2 DEF EventsInOrder
  <2>4. (QueuesTypeOK => QueuesTypeOK') /\ (WaitersAskedOnce => WaitersAskedOnce')
    BY <2>1 DEF QueuesTypeOK, WaitersAskedOnce
  <2>5. QueueIsShared => QueueIsShared'
    BY <2>1 DEF QueueIsShared
  <2> QED BY <2>1, <2>3, <2>4, <2>5 DEF QueuesIInv
<1>2. CASE EventQueuesNext
  <2>1. known' => known
    BY <1>2 DEF EventQueuesNext, FindQueue, StoreQueue, PutEvent, RunCallback, OpenStream,
                StoreStreamQueue, TakeEvent, CloseStream, DeleteSession, RemoveFlow
  <2>2. CASE ~ known'
    BY <2>2 DEF QueuesIInv
  <2>3. CASE known'
    <3>1. known
      BY <2>1, <2>3
    <3>2. ASSUME NEW p \in Pushers, FindQueue(p) \/ StoreQueue(p) \/ PutEvent(p)
          PROVE  QueuesIInv'
      BY <3>1, <3>2, FindKeepsIInv, StoreKeepsIInv, PutKeepsIInv
    <3>3. CASE RunCallback
      BY <3>1, <3>3, PutCallbackKeepsIInv, CreateCallbackKeepsIInv
    <3>4. ASSUME NEW s \in Streams,
                 OpenStream(s) \/ StoreStreamQueue(s) \/ TakeEvent(s) \/ CloseStream(s)
          PROVE  QueuesIInv'
      BY <3>1, <3>4, OpenKeepsIInv, StreamStoreKeepsIInv, TakeKeepsIInv, CloseKeepsIInv
    <3>5. CASE DeleteSession
      BY <2>3, <3>5 DEF DeleteSession
    <3>6. CASE RemoveFlow
      BY <3>1, <3>6 DEF RemoveFlow
    <3> QED BY <1>2, <3>2, <3>3, <3>4, <3>5, <3>6 DEF EventQueuesNext
  <2> QED BY <2>2, <2>3
<1> QED BY <1>1, <1>2

\* Threads, the loop and streams race to create the session's queue, in any number: while
\* the session exists no event a thread pushed is lost, doubled or overtaken (push_event,
\* get_queue, stream_events).
THEOREM EventsStayInOrder == EventQueuesSpec => []EventsComeOnceInOrder
<1>1. QueuesIInv => EventsComeOnceInOrder
  BY DEF QueuesIInv, EventsInOrder, AllEvents, Sent, EventsComeOnceInOrder
<1>2. QED
  BY <1>1, QueuesIInvAtFirst, QueuesIInvStays, PTL DEF EventQueuesSpec

---------------------------------------------------------------------------
(* Model routing: a panel has judges of different families, none of them   *)
(* the drafter's, and its votes are those of its judges, one each.         *)

CatalogModels ==
    {DefaultFamilyModel(f, effort) : f \in ToSet(CatalogFamilies),
                                     effort \in {"low", "medium", "high"}}

VoteType == [judge : CatalogModels, approved : BOOLEAN, weight : 1..2]

\* Judges of a drafter's panel.
Independent(judges, drafter) ==
    /\ judges \in Seq(CatalogModels)
    /\ \A i \in DOMAIN judges : DetectModelFamily(judges[i]) # DetectModelFamily(drafter)
    /\ \A i, j \in DOMAIN judges :
          i # j => DetectModelFamily(judges[i]) # DetectModelFamily(judges[j])

VotesOfTheJury ==
    /\ cast \in Seq(VoteType)
    /\ Len(cast) <= Len(jury)
    /\ \A i \in DOMAIN cast : cast[i].judge = jury[i]

VerdictCounts ==
    /\ verdict \in {"none", "approved", "rejected"}
    /\ verdict # "none" => jury # <<>> /\ Len(cast) = Len(jury)
    /\ verdict = "approved" => 3 * (Weight(cast) - ApprovedWeight(cast)) <= Weight(cast)

RoutingIInv ==
    /\ jury # <<>> => crew # NoModel
    /\ Independent(jury, crew)
    /\ VotesOfTheJury
    /\ VerdictCounts

\* The family whose words alone are in the name of a model is the model's.
LEMMA FamilyIsDetected ==
    ASSUME NEW model, NEW k \in 1..7,
           FamilyWords[k].words \cap Words(model) # {},
           \A i \in 1..7 : i # k => FamilyWords[i].words \cap Words(model) = {}
    PROVE  DetectModelFamily(model) = FamilyWords[k].family
<1>1. DOMAIN FamilyWords = 1..7
    BY DEF FamilyWords
<1>2. PICK words : words = FamilyWords
    OBVIOUS
<1>3. {i \in DOMAIN words : words[i].words \cap Words(model) # {}} = {k}
    BY <1>1, <1>2
<1>4. Min({k}) = k
    BY DEF Min
<1> QED
    BY <1>2, <1>3, <1>4 DEF DetectModelFamily

\* The models of the catalog are recognized as of the family they are listed under.
LEMMA CatalogIsRight ==
    ASSUME NEW f \in ToSet(CatalogFamilies), NEW effort
    PROVE  DetectModelFamily(DefaultFamilyModel(f, effort)) = f
<1>1. /\ FamilyWords[1] = [family |-> "anthropic", words |-> {"claude", "anthropic"}]
      /\ FamilyWords[2] = [family |-> "google", words |-> {"gemini", "google", "vertex"}]
      /\ FamilyWords[3] = [family |-> "openai", words |-> {"gpt-", "openai", "o1", "o3", "o4"}]
      /\ FamilyWords[4] = [family |-> "meta", words |-> {"llama", "meta"}]
      /\ FamilyWords[5] = [family |-> "deepseek", words |-> {"deepseek"}]
      /\ FamilyWords[6] = [family |-> "qwen", words |-> {"qwen"}]
      /\ FamilyWords[7] = [family |-> "mistral", words |-> {"mistral", "mixtral"}]
    BY DEF FamilyWords
<1>2. f \in {"google", "openai", "anthropic", "meta"}
    BY DEF CatalogFamilies, ToSet
<1>3. PICK m : m = DefaultFamilyModel(f, effort)
    OBVIOUS
<1>4. CASE f = "google"
    <2>1. Words(m) = {"gemini"}
        BY <1>3, <1>4 DEF DefaultFamilyModel, Model, Gemini, Name, Words, ProviderWords
    <2> QED
        BY <1>1, <1>3, <1>4, <2>1, FamilyIsDetected
<1>5. CASE f = "openai"
    <2>1. Words(m) = {"openai", "gpt-"} \/ Words(m) = {"openai", "o3"}
        BY <1>3, <1>5 DEF DefaultFamilyModel, Model, Gpt, O3, Name, Words, ProviderWords
    <2> QED
        BY <1>1, <1>3, <1>5, <2>1, FamilyIsDetected
<1>6. CASE f = "anthropic"
    <2>1. Words(m) = {"anthropic", "claude"}
        BY <1>3, <1>6 DEF DefaultFamilyModel, Model, Claude, Name, Words, ProviderWords
    <2> QED
        BY <1>1, <1>3, <1>6, <2>1, FamilyIsDetected
<1>7. CASE f = "meta"
    <2>1. Words(m) = {"llama"}
        BY <1>3, <1>7 DEF DefaultFamilyModel, Model, GroqLlama, Name, Words, ProviderWords
    <2> QED
        BY <1>1, <1>3, <1>7, <2>1, FamilyIsDetected
<1> QED
    BY <1>2, <1>4, <1>5, <1>6, <1>7

\* A list of families, each of them once and none of them the given one.
EachOnce(families, seen, family) ==
    /\ families \in Seq(ToSet(CatalogFamilies))
    /\ \A i \in DOMAIN families : families[i] \in seen /\ families[i] # family
    /\ \A i, j \in DOMAIN families : i # j => families[i] # families[j]

\* A family that is not in the list may be put at its end.
LEMMA OneFamilyMore ==
    ASSUME NEW s, NEW seen, NEW family, EachOnce(s, seen, family),
           NEW f \in ToSet(CatalogFamilies), f \notin seen
    PROVE  EachOnce(s \o OneIf(family # f, f), seen \cup {f}, family)
<1>1. CASE family = f
    <2>1. PICK t : t = s \o <<>>
        OBVIOUS
    <2>2. t = s
        BY <2>1 DEF EachOnce
    <2>3. EachOnce(t, seen \cup {f}, family)
        BY <2>2 DEF EachOnce
    <2> QED
        BY <1>1, <2>1, <2>3 DEF OneIf
<1>2. CASE family # f
    <2>1. PICK t : t = s \o <<f>>
        OBVIOUS
    <2>2. s \in Seq(ToSet(CatalogFamilies)) /\ Len(s) \in Nat /\ DOMAIN s = 1..Len(s)
        BY DEF EachOnce
    <2>3. /\ t \in Seq(ToSet(CatalogFamilies))
          /\ DOMAIN t = 1..(Len(s) + 1)
          /\ \A i \in 1..Len(s) : t[i] = s[i]
          /\ t[Len(s) + 1] = f
        BY <2>1, <2>2
    <2>4. \A i \in DOMAIN t : i \in DOMAIN s \/ i = Len(s) + 1
        BY <2>2, <2>3
    <2>5. EachOnce(t, seen \cup {f}, family)
        BY <1>2, <2>2, <2>3, <2>4 DEF EachOnce
    <2> QED
        BY <1>2, <2>1, <2>5 DEF OneIf
<1> QED
    BY <1>1, <1>2

\* The other families of the catalog, each of them once.
LEMMA OthersAreDifferent ==
    ASSUME NEW family
    PROVE  EachOnce(OtherFamilies(family), ToSet(CatalogFamilies), family)
<1>1. ToSet(CatalogFamilies) = {"google", "openai", "anthropic", "meta"}
    BY DEF CatalogFamilies, ToSet
<1>2. PICK a : a = OneIf(family # "google", "google")
    OBVIOUS
<1>3. EachOnce(a, {"google"}, family)
    <2>1. CASE family = "google"
        BY <1>2, <2>1 DEF OneIf, EachOnce
    <2>2. CASE family # "google"
        BY <1>1, <1>2, <2>2 DEF OneIf, EachOnce
    <2> QED
        BY <2>1, <2>2
<1>4. PICK b : b = a \o OneIf(family # "openai", "openai")
    OBVIOUS
<1>5. EachOnce(b, {"google"} \cup {"openai"}, family)
    BY <1>1, <1>3, <1>4, OneFamilyMore
<1>6. PICK c : c = b \o OneIf(family # "anthropic", "anthropic")
    OBVIOUS
<1>7. EachOnce(c, {"google"} \cup {"openai"} \cup {"anthropic"}, family)
    BY <1>1, <1>5, <1>6, OneFamilyMore
<1>8. PICK d : d = c \o OneIf(family # "meta", "meta")
    OBVIOUS
<1>9. EachOnce(d, {"google"} \cup {"openai"} \cup {"anthropic"} \cup {"meta"}, family)
    BY <1>1, <1>7, <1>8, OneFamilyMore
<1>10. OtherFamilies(family) = d
    BY <1>2, <1>4, <1>6, <1>8 DEF OtherFamilies
<1> QED
    BY <1>1, <1>9, <1>10 DEF EachOnce

\* A panel is seated with independent judges.
LEMMA SeatedJury ==
    ASSUME NEW drafter, NEW effort \in {"low", "medium", "high"}, NEW size \in Nat
    PROVE  Independent(BuildPollJury(drafter, effort, size), drafter)
<1>1. PICK others : others = OtherFamilies(DetectModelFamily(drafter))
    OBVIOUS
<1>2. /\ others \in Seq(ToSet(CatalogFamilies))
      /\ Len(others) \in Nat
      /\ \A i \in DOMAIN others : others[i] # DetectModelFamily(drafter)
      /\ \A i, j \in DOMAIN others : i # j => others[i] # others[j]
    BY <1>1, OthersAreDifferent DEF EachOnce
<1>3. PICK n \in Nat : n = (IF size < Len(others) THEN size ELSE Len(others)) /\ n <= Len(others)
    BY <1>2
<1>4. PICK judges : judges = [i \in 1..n |-> DefaultFamilyModel(others[i], effort)]
    OBVIOUS
<1>5. BuildPollJury(drafter, effort, size) = judges
    BY <1>1, <1>3, <1>4 DEF BuildPollJury
<1>6. \A i \in 1..n : i \in DOMAIN others /\ others[i] \in ToSet(CatalogFamilies)
    BY <1>2, <1>3
<1>7. \A i \in 1..n : judges[i] \in CatalogModels
    BY <1>4, <1>6 DEF CatalogModels
<1>8. judges \in Seq(CatalogModels) /\ DOMAIN judges = 1..n
    BY <1>4, <1>7
<1>9. \A i \in 1..n : DetectModelFamily(judges[i]) = others[i]
    BY <1>4, <1>6, CatalogIsRight
<1> QED
    BY <1>2, <1>5, <1>6, <1>8, <1>9 DEF Independent

\* Weights add up to a weight.
LEMMA TotalIsNat ==
    ASSUME NEW weights \in Seq(Nat)
    PROVE  Total(weights) \in Nat
<1> DEFINE n == Len(weights)
           Body(k, f) == [i \in 0..k |-> IF i = 0 THEN 0 ELSE f[i - 1] + weights[i]]
           Good(k) == \E f \in [0..k -> Nat] : f = Body(k, f)
<1>1. n \in Nat /\ \A i \in 1..n : weights[i] \in Nat
    OBVIOUS
<1>2. Good(0)
    <2> DEFINE g == [i \in 0..0 |-> 0]
    <2>1. g \in [0..0 -> Nat] /\ g = Body(0, g)
        OBVIOUS
    <2> QED
        BY <2>1
<1>3. ASSUME NEW k \in 1..n, Good(k - 1) PROVE Good(k)
    <2>1. PICK f \in [0..(k - 1) -> Nat] : f = Body(k - 1, f)
        BY <1>3
    <2> DEFINE g == [i \in 0..k |-> IF i = k THEN f[k - 1] + weights[k] ELSE f[i]]
    <2>2. k - 1 \in 0..(k - 1) /\ k \in 1..n /\ k \in Nat
        BY <1>1
    <2>3. f[k - 1] + weights[k] \in Nat
        BY <1>1, <2>2
    <2>4. g \in [0..k -> Nat]
        BY <2>3
    <2>5. \A i \in 0..k : g[i] = Body(k, g)[i]
        <3> SUFFICES ASSUME NEW i \in 0..k PROVE g[i] = Body(k, g)[i]
            OBVIOUS
        <3>1. CASE i = k
            <4>1. g[k - 1] = f[k - 1] /\ k - 1 \in 0..k /\ k \in 0..k /\ k # 0
                BY <2>2
            <4>2. g[k] = f[k - 1] + weights[k]
                BY <4>1
            <4>3. Body(k, g)[k] = g[k - 1] + weights[k]
                <5> HIDE DEF g
                <5> QED
                    BY <4>1
            <4> HIDE DEF g, Body
            <4> QED
                BY <3>1, <4>1, <4>2, <4>3
        <3>2. CASE i # k
            <4>1. i \in 0..(k - 1)
                BY <3>2
            <4>2. f[i] = Body(k - 1, f)[i]
                BY <2>1
            <4>3. f[i] = IF i = 0 THEN 0 ELSE f[i - 1] + weights[i]
                BY <4>1, <4>2
            <4>4. i # 0 => g[i - 1] = f[i - 1]
                BY <4>1
            <4> QED
                BY <3>2, <4>3, <4>4
        <3> QED
            BY <3>1, <3>2
    <2>6. g = Body(k, g)
        <3> HIDE DEF g
        <3> QED
            BY <2>4, <2>5
    <2> QED
        BY <2>4, <2>6
<1>4. Good(n)
    <2> HIDE DEF Good
    <2> DEFINE Bad == {k \in 0..n : ~ Good(k)}
    <2>1. SUFFICES ASSUME Bad # {} PROVE FALSE
        BY <1>1
    <2>2. PICK m \in Bad : \A k \in Bad : m <= k
        <3>1. Bad \in SUBSET Nat
            BY <1>1
        <3> HIDE DEF Bad
        <3> QED
            BY <2>1, <3>1, LeastNumber
    <2>3. m \in 0..n /\ ~ Good(m)
        OBVIOUS
    <2>4. CASE m = 0
        BY <1>2, <2>3, <2>4
    <2>5. CASE m # 0
        <3>1. m \in 1..n /\ m - 1 \in 0..n
            BY <1>1, <2>3, <2>5
        <3>2. m - 1 \notin Bad
            BY <1>1, <2>2, <3>1
        <3> QED
            BY <1>3, <2>3, <3>1, <3>2
    <2> QED
        BY <2>4, <2>5
<1> DEFINE sum == CHOOSE f : f = Body(n, f)
<1>5. \E f \in [0..n -> Nat] : f = Body(n, f)
    BY <1>4
<1>6. sum = Body(n, sum)
    <2> HIDE DEF Body
    <2> QED
        BY <1>5
<1>7. Total(weights) = sum[n]
    BY DEF Total
<1> HIDE DEF sum
<1>8. \A i \in 0..n : sum[i] \in Nat
    <2> DEFINE Bad == {i \in 0..n : sum[i] \notin Nat}
    <2>1. SUFFICES ASSUME Bad # {} PROVE FALSE
        OBVIOUS
    <2>2. PICK m \in Bad : \A k \in Bad : m <= k
        <3>1. Bad \in SUBSET Nat
            BY <1>1
        <3> HIDE DEF Bad
        <3> QED
            BY <2>1, <3>1, LeastNumber
    <2>3. m \in 0..n /\ sum[m] \notin Nat
        OBVIOUS
    <2>4. sum[m] = IF m = 0 THEN 0 ELSE sum[m - 1] + weights[m]
        BY <1>6, <2>3
    <2>5. m # 0
        BY <2>3, <2>4
    <2>6. m \in 1..n /\ m - 1 \in 0..n /\ m - 1 \notin Bad
        BY <1>1, <2>2, <2>3, <2>5
    <2>7. sum[m - 1] \in Nat /\ weights[m] \in Nat
        BY <1>1, <2>6
    <2> QED
        BY <2>3, <2>4, <2>5, <2>7
<1> QED
    BY <1>1, <1>7, <1>8

\* Votes have weights, and the approvals have.
LEMMA WeightsAreNat ==
    ASSUME NEW votes \in Seq(VoteType)
    PROVE  Weight(votes) \in Nat /\ ApprovedWeight(votes) \in Nat
<1>1. DOMAIN votes = 1..Len(votes) /\ Len(votes) \in Nat
    OBVIOUS
<1>2. \A i \in DOMAIN votes : votes[i] \in VoteType
    OBVIOUS
<1>3. \A i \in DOMAIN votes : votes[i].weight \in Nat
    BY <1>2 DEF VoteType
<1>4. [i \in DOMAIN votes |-> votes[i].weight] \in Seq(Nat)
    BY <1>1, <1>3
<1>5. [i \in DOMAIN votes |-> IF votes[i].approved THEN votes[i].weight ELSE 0] \in Seq(Nat)
    BY <1>1, <1>3
<1> QED
    BY <1>4, <1>5, TotalIsNat DEF Weight, ApprovedWeight

\* Both rules of the count leave at most a third of the weight against an approval.
LEMMA ApprovalHasTwoThirds ==
    ASSUME NEW votes \in Seq(VoteType), NEW unanimity, AggregatePollJury(votes, unanimity)
    PROVE  3 * (Weight(votes) - ApprovedWeight(votes)) <= Weight(votes)
<1>1. PICK all \in Nat, approvals \in Nat :
        all = Weight(votes) /\ approvals = ApprovedWeight(votes)
    BY WeightsAreNat
<1>2. 1000 * approvals >= 999 * all \/ 3 * approvals >= 2 * all
    BY <1>1 DEF AggregatePollJury
<1> QED
    BY <1>1, <1>2

\* A panel whose judges are independent is not refused.
LEMMA NotRefused ==
    ASSUME RoutingIInv
    PROVE  ~ JuryRefused(cast)
<1>1. DOMAIN cast \subseteq DOMAIN jury
    BY DEF RoutingIInv, VotesOfTheJury, Independent
<1>2. \A i \in DOMAIN cast : cast[i].judge = jury[i]
    BY DEF RoutingIInv, VotesOfTheJury
<1> QED
    BY <1>1, <1>2 DEF RoutingIInv, Independent, JuryRefused

LEMMA RoutingIInvAtFirst == RoutingInit => RoutingIInv
    BY DEF RoutingInit, RoutingIInv, Independent, VotesOfTheJury, VerdictCounts

\* Every step keeps RoutingIInv.
LEMMA RoutingIInvStays == RoutingIInv /\ [RoutingNext]_routing_vars => RoutingIInv'
<1> SUFFICES ASSUME RoutingIInv, [RoutingNext]_routing_vars PROVE RoutingIInv'
    OBVIOUS
<1>1. ASSUME UNCHANGED <<crew, jury, cast, verdict>> PROVE RoutingIInv'
    BY <1>1 DEF RoutingIInv, Independent, VotesOfTheJury, VerdictCounts
<1>2. CASE BuildCrew
    <2>1. jury' = <<>> /\ jury = <<>> /\ UNCHANGED <<cast, verdict>>
        BY <1>2 DEF BuildCrew, RoutingIInv
    <2>2. Independent(jury', crew')
        BY <2>1 DEF Independent
    <2> QED
        BY <2>1, <2>2 DEF RoutingIInv, VotesOfTheJury, VerdictCounts
<1>3. ASSUME NEW effort \in {"low", "medium", "high"}, NEW size \in Nat, SeatJury(effort, size)
      PROVE  RoutingIInv'
    <2>1. /\ jury = <<>> /\ crew # NoModel /\ UNCHANGED <<crew, cast, verdict>>
          /\ jury' = BuildPollJury(crew, effort, size)
        BY <1>3 DEF SeatJury
    <2>2. Independent(jury', crew')
        BY <2>1, SeatedJury
    <2>3. cast = <<>> /\ verdict = "none"
        BY <2>1 DEF RoutingIInv, VotesOfTheJury, VerdictCounts
    <2>4. Len(jury') \in Nat
        BY <2>2 DEF Independent
    <2>5. VotesOfTheJury'
        BY <2>1, <2>3, <2>4 DEF VotesOfTheJury
    <2> QED
        BY <2>1, <2>2, <2>3, <2>5 DEF RoutingIInv, VerdictCounts
<1>4. ASSUME NEW approved \in BOOLEAN, NEW weight \in 1..2, Vote(approved, weight)
      PROVE  RoutingIInv'
    <2>1. PICK vote : vote = [judge |-> jury[Len(cast) + 1], approved |-> approved,
                              weight |-> weight]
        OBVIOUS
    <2>2. Len(cast) < Len(jury) /\ cast' = Append(cast, vote) /\ UNCHANGED <<crew, jury, verdict>>
        BY <1>4, <2>1 DEF Vote
    <2>3. Len(cast) \in Nat /\ Len(jury) \in Nat /\ cast \in Seq(VoteType)
        BY DEF RoutingIInv, VotesOfTheJury, Independent
    <2>4. jury[Len(cast) + 1] \in CatalogModels
        BY <2>2, <2>3 DEF RoutingIInv, Independent
    <2>5. vote \in VoteType /\ vote.judge = jury[Len(cast) + 1]
        BY <2>1, <2>4 DEF VoteType
    <2>6. verdict = "none"
        BY <2>2, <2>3 DEF RoutingIInv, VerdictCounts
    <2>7. VotesOfTheJury'
        BY <2>2, <2>3, <2>5 DEF RoutingIInv, VotesOfTheJury
    <2>8. Independent(jury, crew)'
        BY <2>2 DEF RoutingIInv, Independent
    <2> QED
        BY <2>2, <2>6, <2>7, <2>8 DEF RoutingIInv, VerdictCounts
<1>5. ASSUME NEW unanimity, Aggregate(unanimity) PROVE RoutingIInv'
    <2>1. /\ jury # <<>> /\ Len(cast) = Len(jury)
          /\ verdict' = IF AggregatePollJury(cast, unanimity) THEN "approved" ELSE "rejected"
          /\ UNCHANGED <<crew, jury, cast>>
        BY <1>5, NotRefused DEF Aggregate
    <2>2. cast \in Seq(VoteType)
        BY DEF RoutingIInv, VotesOfTheJury
    <2>3. verdict' = "approved" => 3 * (Weight(cast) - ApprovedWeight(cast)) <= Weight(cast)
        BY <2>1, <2>2, ApprovalHasTwoThirds
    <2>4. VerdictCounts'
        BY <2>1, <2>3 DEF VerdictCounts
    <2>5. Independent(jury, crew)' /\ VotesOfTheJury'
        BY <2>1 DEF RoutingIInv, Independent, VotesOfTheJury
    <2> QED
        BY <2>1, <2>4, <2>5 DEF RoutingIInv
<1>6. CASE SeatJury("low", 2) \/ SeatJury("high", 3)
    BY <1>3, <1>6
<1>7. ASSUME NEW available, NEW is_retry \in BOOLEAN, SelectCritic(4500, is_retry, available)
      PROVE  RoutingIInv'
    BY <1>1, <1>7 DEF SelectCritic
<1>8. CASE StartRun \/ FindCritic \/ UNCHANGED routing_vars
    BY <1>1, <1>8 DEF StartRun, FindCritic, routing_vars
<1> QED
    BY <1>2, <1>4, <1>5, <1>6, <1>7, <1>8 DEF RoutingNext

\* Every panel reaches a verdict, without a judge of the drafter's family, and none approves
\* with more than a third of its weight against it.
THEOREM VerdictsStayIndependent == RoutingSpec => []VerdictsAreIndependent
<1>1. RoutingIInv => VerdictsAreIndependent
    BY DEF RoutingIInv, Independent, VerdictCounts, VerdictsAreIndependent
<1> QED
    BY <1>1, RoutingIInvAtFirst, RoutingIInvStays, PTL DEF RoutingSpec
==============================================================================
