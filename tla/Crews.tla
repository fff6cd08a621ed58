-------------------------------- MODULE Crews --------------------------------
(***************************************************************************)
(* The runs of one phase's crew, task by task: swarm/crews and the runner  *)
(* of crews/_compat.py, inside AuditFlow._run_crew_with_qa with its one    *)
(* automatic retry.                                                        *)
(*                                                                         *)
(* What a model writes is abstracted to what it was given: the task's      *)
(* context, and the feedback of its prompt.  A model call whose answer     *)
(* does not have the task's schema raises, so a task that ended has its    *)
(* result.  The stand-in crew of demo mode is not modelled.                *)
(***************************************************************************)
EXTENDS Naturals, Sequences

CONSTANT MaxCrewRuns   \* bound on the runs of the phase

ASSUME CrewsAssumption == MaxCrewRuns \in Nat

VARIABLES crew_phase,    \* the phase
          crew_runs,     \* runs begun so far
          crew_status,   \* "idle", "running", or how the latest run ended
          crew_attempt,  \* of the run: the first, or the automatic retry
          crew_seed,     \* the feedback that the run was started with
          crew_feedback, \* the feedback input of this attempt
          crew_outputs,  \* of the tasks that ended in this attempt, in order
          crew_draft     \* the stored artifact of the phase, or none

crew_vars == <<crew_phase, crew_runs, crew_status, crew_attempt, crew_seed, crew_feedback,
               crew_outputs, crew_draft>>

----------------------------------------------------------------------------
(* The crews.                                                              *)

CrewTask(name, context, told) == [name |-> name, context |-> context, told |-> told]

\* A task is given the outputs that its context names, and nothing without one.
PlanningTasks ==
    <<CrewTask("context_task",      {},                    FALSE),
      CrewTask("crosswalk_task",    {},                    FALSE),
      CrewTask("weighting_task",    {},                    FALSE),
      CrewTask("racm_drafting_task", {"weighting_task"},   TRUE),
      CrewTask("qa_gate_task",      {"racm_drafting_task"}, FALSE)>>

\* The collector has tools and no schema: its tools run without a model, and one that
\* fails leaves its error as text.
FieldworkTasks ==
    <<CrewTask("evidence_collection_task", {}, FALSE),
      CrewTask("execution_evaluation_task", {"evidence_collection_task"}, TRUE),
      CrewTask("eval_qa_gate_task",
               {"evidence_collection_task", "execution_evaluation_task"}, FALSE)>>

ReportingTasks ==
    <<CrewTask("deficiency_evaluation_task", {}, FALSE),
      CrewTask("drafting_task", {"deficiency_evaluation_task"}, TRUE),
      CrewTask("executive_summary_task", {"drafting_task"}, FALSE),
      CrewTask("tone_qa_task",
               {"drafting_task", "executive_summary_task", "deficiency_evaluation_task"},
               FALSE),
      CrewTask("generate_oscal_sar_task", {"drafting_task"}, FALSE),
      CrewTask("final_report_assembly_task",
               {"drafting_task", "executive_summary_task", "generate_oscal_sar_task",
                "deficiency_evaluation_task"}, FALSE)>>

CrewTasks == <<PlanningTasks, FieldworkTasks, ReportingTasks>>[crew_phase]
QaTask == <<"qa_gate_task", "eval_qa_gate_task", "tone_qa_task">>[crew_phase]
ArtifactTask == <<"racm_drafting_task", "execution_evaluation_task",
                  "final_report_assembly_task">>[crew_phase]

----------------------------------------------------------------------------
(* One attempt.                                                            *)

NamesOf(outputs) == {outputs[i].name : i \in DOMAIN outputs}

\* CrewResultAdapter: outputs are found by the task's name.
OutputOf(outputs, name) ==
    outputs[CHOOSE i \in DOMAIN outputs : outputs[i].name = name]

\* The context is found among the outputs of this attempt that are there already.
ContextOutputs(task) ==
    {OutputOf(crew_outputs, name) : name \in task.context \cap NamesOf(crew_outputs)}

\* An output has in it what its context has in it.
OutputOfTask(task, approved) ==
    LET context == ContextOutputs(task)
    IN  [name     |-> task.name,
         of       |-> <<crew_runs, crew_attempt>>,
         read     |-> {o.name : o \in context},
         basis    |-> UNION {o.basis \cup {o.name} : o \in context},
         told     |-> (IF task.told THEN crew_feedback ELSE {})
                         \cup UNION {o.told : o \in context},
         approved |-> approved]

CrewsInit ==
    /\ crew_phase \in 1..3
    /\ crew_runs = 0
    /\ crew_status = "idle"
    /\ crew_attempt = 0
    /\ crew_seed = {}
    /\ crew_feedback = {}
    /\ crew_outputs = <<>>
    /\ crew_draft = {}

\* A phase runs again after it failed, was rejected, or was returned for rework; the
\* feedback that the flow seeded is the run's first.
BeginCrewRun(seed) ==
    /\ crew_status # "running"
    /\ crew_runs < MaxCrewRuns
    /\ crew_runs' = crew_runs + 1
    /\ crew_status' = "running"
    /\ crew_attempt' = 1
    /\ crew_seed' = seed
    /\ crew_feedback' = seed
    /\ crew_outputs' = <<>>
    /\ UNCHANGED <<crew_phase, crew_draft>>

\* Crew.kickoff, the next task: its tools or its model, then the step callback.
RunTask(approved) ==
    /\ crew_status = "running"
    /\ Len(crew_outputs) < Len(CrewTasks)
    /\ LET task == CrewTasks[Len(crew_outputs) + 1]
       IN  /\ task.name # QaTask => ~approved
           /\ crew_outputs' = Append(crew_outputs, OutputOfTask(task, approved))
    /\ UNCHANGED <<crew_phase, crew_runs, crew_status, crew_attempt, crew_seed,
                   crew_feedback, crew_draft>>

\* Building the crew, a model call, or a callback raises: the run ends, and the draft of
\* an earlier run stays where it is.
CrewError ==
    /\ crew_status = "running"
    /\ crew_status' = "error"
    /\ UNCHANGED <<crew_phase, crew_runs, crew_attempt, crew_seed, crew_feedback,
                   crew_outputs, crew_draft>>

----------------------------------------------------------------------------
(* The end of an attempt.                                                  *)

\* Why a draft may be rejected: the QA agent, the evidence check of Fieldwork, and the
\* linters where they are strict.
RejectionReasons(evidence_holds, lint_passes) ==
    {r \in {"qa", "evidence", "linter"} :
        CASE r = "qa"       -> ~OutputOf(crew_outputs, QaTask).approved
          [] r = "evidence" -> crew_phase = 2 /\ ~evidence_holds
          [] r = "linter"   -> ~lint_passes}

AttemptEnded == crew_status = "running" /\ Len(crew_outputs) = Len(CrewTasks)

\* The artifact of the result, by its task's name.
DraftOfAttempt == {OutputOf(crew_outputs, ArtifactTask)}

\* Mutant of NextFeedback: the new reason takes the place of what the run began with.
FeedbackReplaced(reasons) == reasons

\* The automatic retry keeps the feedback that the run began with.
NextFeedback(reasons) == crew_seed \cup reasons

StoreDraft(status) ==
    /\ crew_draft' = DraftOfAttempt
    /\ crew_status' = status
    /\ UNCHANGED <<crew_phase, crew_runs, crew_attempt, crew_seed, crew_feedback,
                   crew_outputs>>

EndAttempt(evidence_holds, lint_passes) ==
    /\ AttemptEnded
    /\ LET reasons == RejectionReasons(evidence_holds, lint_passes)
       IN  \/ /\ reasons = {}
              /\ StoreDraft("qa_approved")
           \/ /\ reasons # {} /\ crew_attempt = 1
              /\ crew_attempt' = 2
              /\ crew_feedback' = NextFeedback(reasons)
              /\ crew_outputs' = <<>>
              /\ UNCHANGED <<crew_phase, crew_runs, crew_status, crew_seed, crew_draft>>
           \/ /\ reasons # {} /\ crew_attempt = 2
              /\ StoreDraft("qa_rejected")

CrewsNext ==
    \/ \E seed \in SUBSET {"notes", "earlier rejection"} : BeginCrewRun(seed)
    \/ \E approved \in BOOLEAN : RunTask(approved)
    \/ CrewError
    \/ \E evidence_holds, lint_passes \in BOOLEAN : EndAttempt(evidence_holds, lint_passes)

CrewsSpec == CrewsInit /\ [][CrewsNext]_crew_vars

----------------------------------------------------------------------------
(* The artifact that a finished run stores is the one its QA agent         *)
(* answered for: of the same attempt, with the QA agent given the artifact *)
(* itself or each output it was assembled from (the OSCAL of the report    *)
(* apart), and all that those were made from where tools collected it; and *)
(* what the run began with reached the draft, also of the automatic retry. *)
(* So an override after a rejection never accepts an older draft.          *)
StoredDraftsWereReviewed ==
    crew_status \in {"qa_approved", "qa_rejected"} =>
        /\ Len(crew_outputs) = Len(CrewTasks)
        /\ \E draft \in crew_draft :
              LET qa == OutputOf(crew_outputs, QaTask)
              IN  /\ draft.of = <<crew_runs, crew_attempt>>
                  /\ qa.of = draft.of
                  /\ \/ draft.name \in qa.read
                     \/ draft.read \ {"generate_oscal_sar_task"} \subseteq qa.read
                  /\ draft.basis \cap {"evidence_collection_task"} \subseteq qa.read
                  /\ crew_seed \subseteq draft.told
                  /\ crew_attempt = 2 => draft.told \ crew_seed # {}
                  /\ crew_status = "qa_approved" => qa.approved
=============================================================================
