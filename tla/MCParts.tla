------------------------------- MODULE MCParts -------------------------------
(***************************************************************************)
(* Small instances of the parts of the API process that need no audit and  *)
(* no file to be checked: the session service under fairness, the limiter  *)
(* of failed attempts, event queues, model routing, the crews, and the     *)
(* linters.  They share no state, so a behaviour is one of one part, and   *)
(* the variables of the others stay as they were at the start.             *)
(***************************************************************************)
EXTENDS SessionService, FailureLimiter, EventQueues, ModelRouting, AuditPapers, Crews

VARIABLE part

parts_vars == <<svars, limiter_vars, queue_vars, routing_vars, crew_vars, papers_vars,
                part>>

PlainSetting == [keys |-> {}, ollama |-> Unset, openrouter_model |-> Unset, qa |-> Unset,
                 enforce_qa |-> FALSE, enforce |-> FALSE]

PartsInit ==
    /\ part \in {"service", "limiter", "queues", "routing", "crews", "papers"}
    /\ Init
    /\ FailureLimiterInit
    /\ EventQueuesInit
    /\ RoutingInit /\ (part # "routing" => env = PlainSetting)
    /\ CrewsInit /\ (part # "crews" => crew_phase = 1)
    /\ AuditPapersInit

\* Every part but p stands still.
Others(p) ==
    /\ IF p = "service" THEN TRUE ELSE UNCHANGED svars
    /\ IF p = "limiter" THEN TRUE ELSE UNCHANGED limiter_vars
    /\ IF p = "queues"  THEN TRUE ELSE UNCHANGED queue_vars
    /\ IF p = "routing" THEN TRUE ELSE UNCHANGED routing_vars
    /\ IF p = "crews"   THEN TRUE ELSE UNCHANGED crew_vars
    /\ IF p = "papers"  THEN TRUE ELSE UNCHANGED papers_vars
    /\ UNCHANGED part

PartsNext ==
    \/ part = "service" /\ Next /\ Others("service")
    \/ part = "limiter" /\ FailureLimiterNext /\ Others("limiter")
    \/ part = "queues"  /\ EventQueuesNext /\ Others("queues")
    \/ part = "routing" /\ RoutingNext /\ Others("routing")
    \/ part = "crews"   /\ CrewsNext /\ Others("crews")
    \/ part = "papers"  /\ AuditPapersNext /\ Others("papers")

\* The fairness of FairSpec, where the service runs.
PartsSpec ==
    /\ PartsInit /\ [][PartsNext]_parts_vars
    /\ \A c \in Callers : WF_svars(part = "service" /\ Proceed(c) /\ Others("service"))
    /\ \A i \in JobIds : WF_svars(part = "service" /\ Work(i) /\ Others("service"))
    /\ \A a \in Actors : WF_svars(part = "service" /\ Save(a) /\ Others("service"))

----------------------------------------------------------------------------
CONSTANTS ann, bob, r1, r2, job1, job2, stream1, q1, q2

\* A local model and one of the same weights at another provider.
MCLocalNames == {Name("deepseek-r1", {"deepseek"}, "deepseek")}
MCRouterNames == {Claude}
MCQaModels == {Model("deepseek", Name("deepseek-chat", {"deepseek"}, "deepseek")),
               Model("openai", Gpt)}
MCOneQaModel == {Model("openai", Gpt)}

PlannedControl(id, nature, frequency, minimum, change_mgmt) ==
    [id |-> id, nature |-> nature, frequency |-> frequency, method |-> NotGiven,
     size |-> NotGiven, minimum |-> minimum, period |-> <<1, 365>>, change_mgmt |-> change_mgmt, ipe |-> FALSE,
     steps |-> TRUE, complete |-> TRUE, procedure |-> TRUE, slop |-> FALSE]

\* One ID planned with two thresholds, and a change management control.
MCPlanned ==
    {PlannedControl("CTRL-1", "Automated", "Daily", 8, FALSE),
     PlannedControl("CTRL-1", "Automated", "Continuous", 14, FALSE),
     PlannedControl("CTRL-2", "Manual", "Weekly", NotGiven, TRUE),
     PlannedControl("CTRL-2", "IT-dependent-manual", "Annual", NotGiven, TRUE)}

MCDrafts ==
    {Finding("CTRL-1", "Effective", "Not-tested", 1, 0, "supports"),
     [Finding("CTRL-1", "Effective", "Effective", 1, 0, "supports") EXCEPT !.basis = "itgc"],
     [Finding("CTRL-1", "Effective", "Not-tested", 1, 0, "length") EXCEPT !.measured = 10],
     Finding("CTRL-1", "Effective", "Exceptions-noted", 2, 1, "failure"),
     [Finding("CTRL-1", "Effective", "Exceptions-noted", 2, 1, "failure")
        EXCEPT !.prelim = FALSE],
     Finding("CTRL-2", "Effective", "Effective", 2, 0, "supports"),
     [Finding("CTRL-2", "Effective", "Effective", 2, 0, "supports") EXCEPT !.verified = FALSE],
     Finding("CTRL-2", "Ineffective", "Effective", 2, 0, "failure")}

Evaluation(findings, cited, classification) ==
    [id |-> "DEF-1", findings |-> findings, risks |-> {"RISK-1"}, cited |-> cited,
     likelihood |-> "Medium", magnitude |-> "High", classification |-> classification,
     slop |-> FALSE]

MCEvaluations ==
    {Evaluation({"CTRL-1"}, {}, "Material-Weakness"),
     Evaluation({"CTRL-1"}, {"CTRL-2"}, "Control-Deficiency"),
     Evaluation({"CTRL-1"}, {"CTRL-2"}, "Low"),
     Evaluation({"CTRL-2"}, {}, "High"),
     Evaluation({"CTRL-1", "CTRL-2"}, {}, "Significant-Deficiency")}

MCProses == {{}, {"sox-terms"}, {"slop"}}
=============================================================================
