--------------------------- MODULE AuditMachine ---------------------------
(***************************************************************************)
(* The audit lifecycle of src/swarm/state/machine.py: the statuses, the    *)
(* table of transitions and the named transitions AuditFlow calls.  A      *)
(* status is a pair of a kind and a phase; the two statuses that belong to *)
(* no phase carry phase 0.                                                 *)
(***************************************************************************)
EXTENDS Naturals

VARIABLE
    status      \* AuditStateMachine._status, mirrored in AuditState.status

Phases == 1..3

WaitingForScope == <<"WAITING_FOR_SCOPE", 0>>
Running(p)      == <<"RUNNING_PHASE", p>>
Gate(p)         == <<"WAITING_HUMAN_GATE", p>>
QARejected(p)   == <<"QA_REJECTED_PHASE", p>>
Error(p)        == <<"ERROR_PHASE", p>>
Completed       == <<"COMPLETED", 0>>

Statuses ==
    {WaitingForScope, Completed}
        \cup UNION {{Running(p), Gate(p), QARejected(p), Error(p)} : p \in Phases}

\* Mutant of AfterGate: the approval of Fieldwork already ends the audit.
AfterGateTooFar(g) == IF g >= 2 THEN Completed ELSE Running(g + 1)

\* Where the approval of gate g leads.
AfterGate(g) == IF g = 3 THEN Completed ELSE Running(g + 1)

Transitions ==
    {<<WaitingForScope, Running(1)>>}
        \cup UNION {
            {Running(p)} \X {Gate(p), QARejected(p), Error(p)}
                \cup {Gate(p)} \X {AfterGate(p), Running(p)}
                \cup {QARejected(p)} \X {Running(p), Gate(p)}
                \cup {Error(p)} \X {Running(p)} : p \in Phases}

\* AuditStateMachine.can: the source is one the caller names, and the table
\* allows the step.
Can(target, sources) == /\ status \in sources
                        /\ <<status, target>> \in Transitions

Transition(target, sources) == /\ Can(target, sources)
                               /\ status' = target

---------------------------------------------------------------------------
\* Mutant of ErrorPhase: the failure is swallowed and the status stays.
SwallowedError(p) == status = Running(p) /\ UNCHANGED status

\* Mutant of ReopenPhase: a retry reopens whatever phase it is asked for.
ReopenAnyPhase(p) == /\ status \in UNION {{QARejected(q), Error(q)} : q \in Phases}
                     /\ status' = Running(p)

StartPhase1       == Transition(Running(1), {WaitingForScope})
CompletePhase(p)  == Transition(Gate(p), {Running(p)})
RejectPhase(p)    == Transition(QARejected(p), {Running(p)})
ErrorPhase(p)     == Transition(Error(p), {Running(p)})
ReopenPhase(p)    == Transition(Running(p), {QARejected(p), Error(p)})  \* retry_phase
ReturnPhase(p)    == Transition(Running(p), {Gate(p)})      \* return_for_rework
OverridePhase(p)  == Transition(Gate(p), {QARejected(p)})   \* override_qa
PassGate(g)       == Transition(AfterGate(g), {Gate(g)})    \* approve_gate_1, _2, _3
===========================================================================
