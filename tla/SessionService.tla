--------------------------- MODULE SessionService ---------------------------
(***************************************************************************)
(* One audit session as the API serves it: requests of callers             *)
(* (src/api/routers/sessions.py), jobs on the phase executor               *)
(* (src/api/executor.py), the flow object in memory (src/api/job_store.py) *)
(* and the session's entry in the sessions file                            *)
(* (src/swarm/state/repository.py, src/swarm/session_manager.py).          *)
(*                                                                         *)
(* AuditFlow takes each method for one step.  Here a method is cut where   *)
(* another thread can come between, and its checks are only those that     *)
(* involve the machine.  At any time there is one flow object of the       *)
(* session: it is loaded under the session's lock, and after a delete      *)
(* nothing loads it again; a job may still run on the orphan.  Phases,     *)
(* statuses and transitions are AuditMachine's; its `status` is the        *)
(* machine of that flow object.                                            *)
(***************************************************************************)
EXTENDS AuditMachine, SequencesExt

CONSTANTS
    None,       \* nothing
    Callers,    \* request handlers that may be at work at the same time
    MaxTrail,   \* bound: entries in the approval trail
    MaxTails,   \* bound: jobs on their last statements at the same time
    Faults      \* bound: what may go wrong

\* The actions of a caller; "delete" and "create" are the session's own.
FlowOps == {"gate_approval", "retry", "return_for_rework", "qa_override", "review_decision"}
Ops     == FlowOps \cup {"create", "delete"}

\* AuditState.approval_trail[i], AuditState and the session's entry in the file
Reasons == {"rejection", "error", None}
TrailEntries ==
    [action : FlowOps \cup {"audit_created"}, phase : 0..3,
     previous_status : Statuses \cup {None}, reason : Reasons]
Snapshots == [status : Statuses, reason : Reasons, trail : Seq(TrailEntries)]
Entries   == [snapshot : Snapshots \cup {None}]

ASSUME ServiceAssumption ==
    /\ MaxTrail \in Nat \ {0}
    /\ MaxTails \in Nat \ {0}
    /\ None \notin Callers
    /\ Faults \subseteq {"write", "restart"}
    /\ Callers \cap 1..MaxTrail = {}
    /\ None \notin Entries

VARIABLES
    mirror,              \* flow.state.status
    qa_rejection_reason, \* flow.state.qa_rejection_reason, as its kind
    approval_trail,      \* flow.state.approval_trail
    cached,              \* the flow is in job_store._flows
    entry,               \* the session in the file: None, or its snapshot
    deleted,             \* history: the session was deleted
    request,             \* caller -> the request it handles
    session_lock,        \* the caller that holds the session's action lock
    job,                 \* trail length at the submit -> the job
    dump                 \* caller or job -> the snapshot it writes under _SAVE_LOCK

flow   == <<status, mirror, qa_rejection_reason, approval_trail>>
stored == <<entry, deleted>>
svars  == <<flow, cached, stored, request, session_lock, job, dump>>

Idle  == [op |-> None, phase |-> 0, previous |-> None, pc |-> "idle"]
NoJob == [phase |-> 0, pc |-> "none", outcome |-> None, seen |-> None]

JobIds == 1..MaxTrail
Actors == Callers \cup JobIds

\* flow.state.model_dump
Snapshot == [status |-> mirror, reason |-> qa_rejection_reason, trail |-> approval_trail]

HasSnapshot == entry # None /\ entry.snapshot # None

\* What the file holds of the trail.
TrailOnDisk == IF HasSnapshot THEN entry.snapshot.trail ELSE <<>>

Step(c, pc) == request' = [request EXCEPT ![c].pc = pc]

\* The handler returns or raises: the `with session_lock` block is left.
Release(c) == /\ request' = [request EXCEPT ![c] = Idle]
              /\ session_lock' = IF session_lock = c THEN None ELSE session_lock

---------------------------------------------------------------------------
(* The methods of the flow, by name.                                       *)

Target(op, p) == CASE op = "gate_approval" -> AfterGate(p)
                   [] op \in {"retry", "return_for_rework"} -> Running(p)
                   [] op = "qa_override" -> Gate(p)

Sources(op, p) == CASE op \in {"gate_approval", "return_for_rework"} -> {Gate(p)}
                    [] op = "retry" -> {QARejected(p), Error(p)}
                    [] op = "qa_override" -> {QARejected(p)}

\* The statuses in which some type of decision can be recorded.
DecisionStatuses == {Gate(2), Gate(3), Completed}

Allowed(op, p) == IF op = "review_decision" THEN status \in DecisionStatuses
                  ELSE Can(Target(op, p), Sources(op, p))

\* The phase a request submits once it is saved, or 0.
PhaseToRun(op, p) ==
    CASE op = "create" -> 1
      [] op = "gate_approval" /\ p < 3 -> p + 1
      [] op \in {"retry", "return_for_rework"} -> p
      [] OTHER -> 0

TrailEntry(op, p, previous, reason) ==
    [action |-> op, phase |-> p, previous_status |-> previous, reason |-> reason]

---------------------------------------------------------------------------
NoFlow ==
    /\ status = WaitingForScope
    /\ mirror = WaitingForScope
    /\ qa_rejection_reason = None
    /\ approval_trail = <<>>
    /\ cached = FALSE

NothingRuns ==
    /\ request = [c \in Callers |-> Idle]
    /\ session_lock = None
    /\ job = [i \in JobIds |-> NoJob]
    /\ dump = [a \in Actors |-> None]

Init == NoFlow /\ NothingRuns /\ entry = None /\ deleted = FALSE

(* _create_and_launch, outside any lock: the id is new.                    *)
Create(c) ==
    /\ request[c].pc = "idle"
    /\ approval_trail = <<>> /\ entry = None /\ ~ deleted
    /\ status = WaitingForScope
    /\ status' = Running(1)
    /\ mirror' = Running(1)
    /\ approval_trail' = <<TrailEntry("audit_created", 0, None, None)>>
    /\ cached' = TRUE
    /\ request' = [request EXCEPT ![c] = [Idle EXCEPT !.op = "create", !.pc = "register"]]
    /\ UNCHANGED <<qa_rejection_reason, stored, session_lock, job, dump>>

\* save_session: the entry is written, without a snapshot, or the write raises.
Register(c) ==
    /\ request[c].pc = "register"
    /\ entry' = [snapshot |-> None]
    /\ Step(c, "saving")
    /\ UNCHANGED <<flow, cached, deleted, session_lock, job, dump>>

RegisterFails(c) ==
    /\ "write" \in Faults
    /\ request[c].pc = "register"
    /\ Release(c)
    /\ UNCHANGED <<flow, cached, stored, job, dump>>

---------------------------------------------------------------------------
(* A request: _require_session, the lock, _require_flow, the method's      *)
(* checks, its transition, its stamp, the save, the submit.                *)

\* _require_session.  What the request asks for is chosen below, where it first
\* matters.
Arrive(c) ==
    /\ request[c].pc = "idle"
    /\ entry # None
    /\ Step(c, "waiting")
    /\ UNCHANGED <<flow, cached, stored, session_lock, job, dump>>

\* Mutant of Lock: no request waits for another.
NoLock(c) ==
    /\ request[c].pc = "waiting"
    /\ Step(c, "locked")
    /\ UNCHANGED <<flow, cached, stored, session_lock, job, dump>>

\* A delete discards the lock: who waits for the old one and who gets a new one
\* both find no flow, so one lock stands for all.
Lock(c) ==
    /\ request[c].pc = "waiting"
    /\ session_lock = None
    /\ session_lock' = c
    /\ Step(c, "locked")
    /\ UNCHANGED <<flow, cached, stored, job, dump>>

\* _get_or_load_flow after a restart.  The machine starts from the stored mirror.
Load(c) ==
    /\ request[c].pc = "locked"
    /\ ~ cached /\ HasSnapshot
    /\ status' = entry.snapshot.status
    /\ mirror' = entry.snapshot.status
    /\ qa_rejection_reason' = entry.snapshot.reason
    /\ approval_trail' = entry.snapshot.trail
    /\ cached' = TRUE
    /\ Step(c, "found")
    /\ UNCHANGED <<stored, session_lock, job, dump>>

FlowFound(c) == \/ request[c].pc = "found"
                \/ request[c].pc = "locked" /\ cached

\* The request ends with an error and nothing is changed: there is no flow, the
\* machine says no, or one of the checks AuditFlow models does.
Refuse(c) ==
    /\ \/ FlowFound(c)
       \/ request[c].pc = "locked" /\ ~ HasSnapshot
    /\ Release(c)
    /\ UNCHANGED <<flow, cached, stored, job, dump>>

Accept(c, op, p) ==
    /\ FlowFound(c)
    /\ Len(approval_trail) < MaxTrail
    /\ Allowed(op, p)
    /\ request' = [request EXCEPT ![c] =
            [op |-> op, phase |-> p, previous |-> status,
             pc |-> IF op = "review_decision" THEN "stamp" ELSE "move"]]
    /\ UNCHANGED <<flow, cached, stored, session_lock, job, dump>>

\* machine transition and _commit_status
Move(c) ==
    /\ request[c].pc = "move"
    /\ status' = Target(request[c].op, request[c].phase)
    /\ mirror' = Target(request[c].op, request[c].phase)
    /\ Step(c, "stamp")
    /\ UNCHANGED <<qa_rejection_reason, approval_trail, cached, stored, session_lock, job, dump>>

\* _stamp_trail; a return and an override then drop the old reason.
StampTrail(c) ==
    /\ request[c].pc = "stamp"
    /\ approval_trail' = Append(approval_trail,
            TrailEntry(request[c].op, request[c].phase, request[c].previous,
                       IF request[c].op = "retry" THEN qa_rejection_reason ELSE None))
    /\ qa_rejection_reason' = IF request[c].op \in {"return_for_rework", "qa_override"}
                              THEN None ELSE qa_rejection_reason
    /\ Step(c, "saving")
    /\ UNCHANGED <<status, mirror, cached, stored, session_lock, job, dump>>

\* Mutant of Submit: the crew is started first and the save comes too late.
SubmitUnsaved(c) ==
    /\ request[c].pc = "saving"
    /\ LET p == PhaseToRun(request[c].op, request[c].phase)
       IN  job' = IF p = 0 THEN job
                  ELSE [job EXCEPT ![Len(approval_trail)] =
                            [NoJob EXCEPT !.phase = p, !.pc = "queued"]]
    /\ Release(c)
    /\ UNCHANGED <<flow, cached, stored, dump>>

\* _submit_phase, where there is a phase to run; the handler returns.
Submit(c) ==
    /\ request[c].pc = "saved"
    /\ LET p == PhaseToRun(request[c].op, request[c].phase)
       IN  job' = IF p = 0 THEN job
                  ELSE [job EXCEPT ![Len(approval_trail)] =
                            [NoJob EXCEPT !.phase = p, !.pc = "queued"]]
    /\ Release(c)
    /\ UNCHANGED <<flow, cached, stored, dump>>

---------------------------------------------------------------------------
(* DELETE: refused once a gate is signed off.                              *)

SignedOff(st, trail) ==
    \/ st = Completed \/ st[2] >= 2
    \/ \E i \in DOMAIN trail : trail[i].action = "gate_approval"

\* Mutant of HasSignOff: only the file is asked.
SignOffOnDisk == HasSnapshot /\ SignedOff(entry.snapshot.status, entry.snapshot.trail)

\* _has_sign_off: asked of the flow in memory and of the file.
HasSignOff ==
    \/ cached /\ SignedOff(mirror, approval_trail)
    \/ HasSnapshot /\ SignedOff(entry.snapshot.status, entry.snapshot.trail)

MayDelete(c) ==
    /\ request[c].pc = "locked"
    /\ ~ HasSignOff
    /\ request' = [request EXCEPT ![c].op = "delete", ![c].pc = "deleting"]
    /\ UNCHANGED <<flow, cached, stored, session_lock, job, dump>>

MayNotDelete(c) ==
    /\ request[c].pc = "locked"
    /\ HasSignOff
    /\ Release(c)
    /\ UNCHANGED <<flow, cached, stored, job, dump>>

\* delete_session and remove_flow
RemoveSession(c) ==
    /\ request[c].pc = "deleting"
    /\ entry' = None
    /\ deleted' = TRUE
    /\ cached' = FALSE
    /\ Release(c)
    /\ UNCHANGED <<flow, job, dump>>

RemoveFails(c) ==
    /\ "write" \in Faults
    /\ request[c].pc = "deleting"
    /\ Release(c)
    /\ UNCHANGED <<flow, cached, stored, job, dump>>

\* The entry is gone, its anchor cannot be written: remove_flow is not reached.
RemoveHalfway(c) ==
    /\ "write" \in Faults
    /\ request[c].pc = "deleting"
    /\ entry' = None
    /\ deleted' = TRUE
    /\ Release(c)
    /\ UNCHANGED <<flow, cached, job, dump>>

---------------------------------------------------------------------------
(* A job: _run_phase_n on a thread of the executor.                        *)

JobStep(i, pc) == job' = [job EXCEPT ![i].pc = pc]
JobEnds(i) == job' = [job EXCEPT ![i] = [NoJob EXCEPT !.pc = "done"]]

\* generate_*: the flow is there and the machine in the phase.
StartJob(i) ==
    /\ job[i].pc = "queued"
    /\ cached /\ status = Running(job[i].phase)
    /\ qa_rejection_reason' = None
    /\ JobStep(i, "crew")
    /\ UNCHANGED <<status, mirror, approval_trail, cached, stored, request, session_lock, dump>>

\* "flow not found", a wrong status, or a crew run that raises before the machine
\* has moved: the job is failed and nothing is saved.
JobFails(i) ==
    /\ \/ job[i].pc = "queued" /\ ~ (cached /\ status = Running(job[i].phase))
       \/ job[i].pc = "crew"
    /\ JobEnds(i)
    /\ UNCHANGED <<flow, cached, stored, request, session_lock, dump>>

\* Jobs whose crew run has ended and whose last statements are still to come.
Tails == {i \in JobIds : job[i].pc \in {"moved", "read", "mirrored", "saving"}}

\* complete_phase, reject_phase or error_phase: the machine alone.
CrewEnds(i, outcome) ==
    /\ job[i].pc = "crew"
    /\ Cardinality(Tails) < MaxTails
    /\ Transition(outcome, {Running(job[i].phase)})
    /\ job' = [job EXCEPT ![i].pc = "moved", ![i].outcome = outcome]
    /\ UNCHANGED <<mirror, qa_rejection_reason, approval_trail, cached, stored, request,
                   session_lock, dump>>

\* _commit_status reads the machine ...
ReadMachine(i) ==
    /\ job[i].pc = "moved"
    /\ job' = [job EXCEPT ![i].pc = "read", ![i].seen = status]
    /\ UNCHANGED <<flow, cached, stored, request, session_lock, dump>>

\* ... and writes the mirror.
WriteMirror(i) ==
    /\ job[i].pc = "read"
    /\ mirror' = job[i].seen
    /\ JobStep(i, IF job[i].outcome = Gate(job[i].phase) THEN "saving" ELSE "mirrored")
    /\ UNCHANGED <<status, qa_rejection_reason, approval_trail, cached, stored, request,
                   session_lock, dump>>

\* Only then is it said why the run stopped.
WriteReason(i) ==
    /\ job[i].pc = "mirrored"
    /\ qa_rejection_reason' =
            IF job[i].outcome = QARejected(job[i].phase) THEN "rejection" ELSE "error"
    /\ JobStep(i, "saving")
    /\ UNCHANGED <<status, mirror, approval_trail, cached, stored, request, session_lock, dump>>

---------------------------------------------------------------------------
(* FlowRepository.save, of a caller or of a job.                           *)

Saving(a) == IF a \in Callers THEN request[a].pc = "saving" ELSE job[a].pc = "saving"

\* Mutant of BeginSave: the snapshot is taken before the lock.
DumpBeforeLock(a) ==
    /\ Saving(a) /\ dump[a] = None
    /\ dump' = [dump EXCEPT ![a] = Snapshot]
    /\ UNCHANGED <<flow, cached, stored, request, session_lock, job>>

\* Under _SAVE_LOCK the snapshot is taken ...
BeginSave(a) ==
    /\ Saving(a)
    /\ \A b \in Actors : dump[b] = None
    /\ dump' = [dump EXCEPT ![a] = Snapshot]
    /\ UNCHANGED <<flow, cached, stored, request, session_lock, job>>

\* Mutant of EndSave: the write creates the entry it does not find.
EndSaveCreating(a) ==
    /\ dump[a] # None
    /\ entry' = [snapshot |-> dump[a]]
    /\ dump' = [dump EXCEPT ![a] = None]
    /\ \/ a \in Callers /\ Step(a, "saved") /\ UNCHANGED job
       \/ a \in JobIds /\ JobEnds(a) /\ UNCHANGED request
    /\ UNCHANGED <<flow, cached, deleted, session_lock>>

\* ... and replaces the one in the file, if the session is still there.
EndSave(a) ==
    /\ dump[a] # None
    /\ entry' = IF entry = None THEN None ELSE [snapshot |-> dump[a]]
    /\ dump' = [dump EXCEPT ![a] = None]
    /\ \/ a \in Callers /\ Step(a, "saved") /\ UNCHANGED job
       \/ a \in JobIds /\ JobEnds(a) /\ UNCHANGED request
    /\ UNCHANGED <<flow, cached, deleted, session_lock>>

\* Mutant of FailSave: the error leaves the session's lock taken.
FailSaveLocked(a) ==
    /\ "write" \in Faults
    /\ dump[a] # None
    /\ dump' = [dump EXCEPT ![a] = None]
    /\ \/ a \in Callers /\ request' = [request EXCEPT ![a] = Idle] /\ UNCHANGED job
       \/ a \in JobIds /\ JobEnds(a) /\ UNCHANGED request
    /\ UNCHANGED <<flow, cached, stored, session_lock>>

\* The write raises.  What the method did to the flow stays in memory, and no job
\* is submitted.
FailSave(a) ==
    /\ "write" \in Faults
    /\ dump[a] # None
    /\ dump' = [dump EXCEPT ![a] = None]
    /\ \/ a \in Callers /\ Release(a) /\ UNCHANGED job
       \/ a \in JobIds /\ JobEnds(a) /\ UNCHANGED <<request, session_lock>>
    /\ UNCHANGED <<flow, cached, stored>>

---------------------------------------------------------------------------
\* The process dies and starts again: what is in memory is gone, and the
\* lifespan of src/api/main.py recovers nothing.
Restart ==
    /\ "restart" \in Faults
    /\ status' = WaitingForScope
    /\ mirror' = WaitingForScope
    /\ qa_rejection_reason' = None
    /\ approval_trail' = <<>>
    /\ cached' = FALSE
    /\ request' = [c \in Callers |-> Idle]
    /\ session_lock' = None
    /\ job' = [i \in JobIds |-> NoJob]
    /\ dump' = [a \in Actors |-> None]
    /\ UNCHANGED stored

\* What a request does once it has begun.
Proceed(c) ==
    \/ Register(c) \/ RegisterFails(c)
    \/ Lock(c) \/ Load(c) \/ Refuse(c)
    \/ Accept(c, "review_decision", 0)
    \/ \E op \in FlowOps \ {"review_decision"}, p \in Phases : Accept(c, op, p)
    \/ Move(c) \/ StampTrail(c) \/ Submit(c)
    \/ MayDelete(c) \/ MayNotDelete(c) \/ RemoveSession(c) \/ RemoveFails(c)
    \/ RemoveHalfway(c)

Work(i) ==
    \/ StartJob(i) \/ JobFails(i)
    \/ \E p \in Phases : \E outcome \in {Gate(p), QARejected(p), Error(p)} :
            CrewEnds(i, outcome)
    \/ ReadMachine(i) \/ WriteMirror(i) \/ WriteReason(i)

Save(a) == BeginSave(a) \/ EndSave(a) \/ FailSave(a)

Next ==
    \/ \E c \in Callers : Create(c) \/ Arrive(c) \/ Proceed(c)
    \/ \E i \in JobIds : Work(i)
    \/ \E a \in Actors : Save(a)
    \/ Restart

Spec == Init /\ [][Next]_svars

\* Handlers and jobs run on threads the operating system schedules, and a crew run
\* returns or raises.  Nobody owes a request, a restart is never due, and which
\* of two outcomes an operation has is nobody's choice.
FairSpec ==
    /\ Spec
    /\ \A c \in Callers : WF_svars(Proceed(c))
    /\ \A i \in JobIds : WF_svars(Work(i))
    /\ \A a \in Actors : WF_svars(Save(a))

---------------------------------------------------------------------------
\* job_store.py: "check-transition-submit must be atomic per session so a double
\* request cannot start two crews on one flow".  A job that has ended its crew
\* run may still be on its last statements when the next one starts.
OneCrewPerFlow ==
    \A i, j \in JobIds : {job[i].pc, job[j].pc} \subseteq {"queued", "crew"} => i = j

\* A save never takes anything back: the trail in the file only grows, whatever
\* jobs and requests save at the same time, in memory it has everything the file
\* has, and it is lost only with the session (FlowRepository.save, _SAVE_LOCK).
TrailOnDiskGrows ==
    [][HasSnapshot /\ entry' # None =>
            entry'.snapshot # None /\ IsPrefix(entry.snapshot.trail, entry'.snapshot.trail)]_svars

GateApproved(trail) == \E i \in DOMAIN trail : trail[i].action = "gate_approval"

\* An approval in memory or in the file keeps the session from being deleted, also
\* when the approval's save has failed or is still under way (_has_sign_off).
SignedOffIsKept ==
    [][/\ entry # None
       /\ GateApproved(TrailOnDisk) \/ (cached /\ GateApproved(approval_trail))
       => entry' # None]_svars

\* A job that outlives its session does not bring it back (FlowRepository.save).
DeletedStaysDeleted == deleted => entry = None

\* sessions.py: "Persist the sign-off before any crew runs."  While a crew is queued
\* or at work, the file has every approval, retry and return, unless the session
\* was deleted.
RunsAreOnRecord ==
    \A i \in JobIds :
        job[i].pc \in {"queued", "crew"} /\ ~ deleted =>
            /\ Len(TrailOnDisk) >= i
            /\ PhaseToRun(IF i = 1 THEN "create" ELSE TrailOnDisk[i].action,
                          TrailOnDisk[i].phase) = job[i].phase

\* Nobody waits forever: the session's lock is always given back, and every job ends.
EverybodyFinishes ==
    /\ \A c \in Callers : session_lock = c ~> session_lock # c
    /\ \A i \in JobIds : job[i].pc # "none" ~> job[i].pc \in {"none", "done"}

---------------------------------------------------------------------------
(* What comments say and the code does not keep.                           *)

\* _carried_feedback: "a retry out of QA_REJECTED_PHASE_n carries the QA rejection
\* reason".  A retry between _commit_status and the assignment of the reason
\* stamps none.
RetryCarriesTheRejection ==
    \A i \in DOMAIN approval_trail :
        LET e == approval_trail[i]
        IN  e.action = "retry" /\ e.previous_status = QARejected(e.phase) =>
                e.reason = "rejection"

\* AuditFlow: "state.status is only ever written by _commit_status as a mirror of the
\* machine".  The two statements of _commit_status are not atomic: when everything
\* is at rest the mirror can still be what a job read before a retry.
MirrorAtRest ==
    /\ cached
    /\ \A c \in Callers : request[c].pc = "idle"
    /\ \A i \in JobIds : job[i].pc \in {"none", "done"}
    => mirror = status
=============================================================================
