--------------------------- MODULE ReviewPolicy ---------------------------
(***************************************************************************)
(* src/swarm/review_policy.py: who may act on an audit and when, and what  *)
(* each gate needs first.  Pure operators over names, decision types and   *)
(* conclusions; the statuses come from AuditMachine.                       *)
(***************************************************************************)
EXTENDS AuditMachine

CONSTANTS
    Names,      \* identities as typed by callers (never blank: those are refused)
    Identity    \* normalise_identity: the person a typed name stands for

SamePerson(a, b) == Identity[a] = Identity[b]

PreparerExcludedActions == {"gate_approval", "qa_override", "return_for_rework"}

\* Mutant of DistinctApproverGates: one reviewer may approve everything.
NoDistinctApproverGates(g) == {}

\* gate -> the gates whose approver must be somebody else
DistinctApproverGates(g) == IF g = 3 THEN {2} ELSE {}

---------------------------------------------------------------------------
DecisionTypes ==
    {"sign_off", "challenge", "classify", "scope_limitation",
     "engagement_conclusion", "writeup", "management_response",
     "remediation_verification"}

\* A write-up and management's response may be recorded by the preparer.
PreparerExcludedDecisions == DecisionTypes \ {"writeup", "management_response"}

\* Mutant of DecisionSodViolation: the type is looked up among the gate actions.
DecisionSodViolationOfActions(type, h, preparers) ==
    type \in PreparerExcludedActions /\ \E n \in preparers : SamePerson(h, n)

\* decision_sod_violation, for every name the audit was prepared under.
DecisionSodViolation(type, h, preparers) ==
    type \in PreparerExcludedDecisions /\ \E n \in preparers : SamePerson(h, n)

\* Mutant of RecordableStatuses: findings are still reviewed at Gate 3.
RecordableAtTheNextGate(type) ==
    CASE type \in {"sign_off", "challenge"}    -> {Gate(2), Gate(3)}
      [] type = "management_response"          -> {Gate(3), Completed}
      [] type = "remediation_verification"     -> {Completed}
      [] OTHER                                 -> {Gate(3)}

\* Mutant of RecordableStatuses: an issued report is still decided on.
RecordableAfterIssue(type) ==
    CASE type \in {"sign_off", "challenge"}    -> {Gate(2)}
      [] type = "remediation_verification"     -> {Completed}
      [] OTHER                                 -> {Gate(3), Completed}

\* DECISION_RECORDABLE_STATUSES
RecordableStatuses(type) ==
    CASE type \in {"sign_off", "challenge"}    -> {Gate(2)}
      [] type = "management_response"          -> {Gate(3), Completed}
      [] type = "remediation_verification"     -> {Completed}
      [] OTHER                                 -> {Gate(3)}

\* Mutant of ConclusionChangeAllowed: any conclusion may be withdrawn.
AnyConclusionWithdrawn(draft, new) == new \in {draft, "Not tested"}

\* Without rework a reviewer may only withdraw a positive conclusion.
ConclusionChangeAllowed(draft, new) ==
    new = draft \/ (new = "Not tested" /\ draft = "Effective")

FindingNeedsReview(result, isKey) == result = "Exception" \/ isKey

FindingNeedsScopeLimitation(result, isKey) == isKey /\ result = "Not tested"
===========================================================================
