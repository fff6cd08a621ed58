# Formal model of grc-audit-swarm

TLA+ modules for the core of the audit workflow, TLC runs that check them on small
instances, and TLAPS proofs of the theorems that matter most. Paths are relative to the
repository; `src/...` below is its Python package directory.

## The system

One audit goes through three phases: Planning drafts a risk-control matrix (`racm_plan`),
Fieldwork drafts working papers (`working_papers`), Reporting drafts the report
(`final_report`). A phase is drafted by a crew of language-model agents on a worker
thread, checked by a QA agent and by deterministic code, retried once by the code, and
then held at a gate until a person approves it.

| component | state | operations | interacts with |
|---|---|---|---|
| state machine `swarm/state/machine.py` | `_status` | named transitions, `can` | only the audit flow |
| audit flow `swarm/audit_flow.py` | `AuditState`: drafts, trail, decisions, runs, preparer, rejection reason, dossier, mirror of the status | create, run a phase, approve, retry, return, override, decide | policy, decisions, vault, trail; called by the session service |
| review policy `swarm/review_policy.py` | none | segregation of duties, recordable statuses, what needs review | called by the flow |
| reviewer decisions `swarm/review_decisions.py` | the append-only list in `AuditState` | validate a decision, effective view, what a gate misses | policy, drafts |
| trail `swarm/trail.py` | hash chain in `AuditState` | append, verify, changes since approval | flow, anchors file |
| evidence vault `swarm/evidence.py` | one file per record | register, verify a quote, migrate digests | tools, QA, Gate 2 |
| session service `api/routers/sessions.py`, `api/job_store.py`, `api/executor.py` | flow cache, session locks, job table, event queues, a pool of ten threads | one handler per human action, `_run_phase_n`, delete | flow, repository |
| repository and store `swarm/state/repository.py`, `swarm/session_manager.py` | sessions file, anchors file | save, load, delete, corrupt-file backup | service, trail |
| reviewer tokens `api/reviewer_tokens.py` | tokens file, its cache, failure windows | authenticate, edit with the CLI, limit failures | every human action |
| crews `swarm/crews/` | the outputs of one attempt's tasks | run the tasks in order, hand outputs on, results by name | flow |
| model routing `swarm/model_routing.py`, `swarm/llm_factory.py` | none but the environment | which model drafts and which reviews, families, panels | crews, flow |
| rules `swarm/schema.py`, `swarm/linters.py`, `swarm/sampling.py`, `swarm/decision_engine.py` | none | validate, lint, sample sizes, cascade | flow, crews |
| tools, skills, exports, frontend, evaluation | none that an audit depends on | | |

What is hard here: an audit is a long protocol between people who may not trust each
other, in which every step can be repeated, refused, rejected, overridden or overtaken;
drafts change under decisions already made on them; phase threads, requests, file
saves and restarts interleave around the last statements of a run; and what was signed
must still be told from what was changed when it is read back from files. `PROJECT.json` lists
the hazards, each at its line.

## Modules

| module | models |
|---|---|
| `AuditMachine` | the statuses, `_TRANSITIONS` and the named transitions |
| `ReviewPolicy` | `review_policy.py` |
| `ReviewDecisions` | `review_decisions.py` and the consistency rules of a finding in `schema.py` |
| `AuditFlow` | class `AuditFlow`, with the submission of a phase by the API |
| `SignOff` | the abstract specification an audit implements |
| `SessionService` | one session as the API serves it: `sessions.py`, `job_store.py`, `executor.py`, `repository.py`, the sessions file |
| `Crews` | the tasks of the three crews, the sequential runner, the retry around them |
| `Digests` | SHA-256 and HMAC as injective functions of what they cover |
| `Trail` | `trail.py`: sealing, the chain, its verification, the anchor |
| `TrailStore` | one audit's trail between memory, the sessions file and the anchors file, and outside changes |
| `SessionsFile` | `session_manager.py`, and the order in which `repository.py` calls it |
| `EvidenceVault` | `evidence.py`: records, quotes, the digest migration |
| `ReviewerTokens`, `FailureLimiter` | `reviewer_tokens.py` and `auth.py`: the file, its cache and the command; the window of failures |
| `EventQueues` | the queues of `job_store.py` and the streams of `phases.py` |
| `ModelRouting` | `model_routing.py`, `llm_factory.py`, the provenance of a run |
| `AuditRules` | the rules of schema, linters, sampling and decision engine as operators |
| `AuditPapers` | a plan, working papers and a report under these rules, with repairs and withdrawals |
| `MCAuditFlow`, `MCSessionService`, `MCStorage`, `MCParts` | instances for TLC |
| `AuditFlowProofs`, `AuditRunsProofs`, `AuditReviewProofs` | theorems about `AuditFlow`: gates, seals, duties and the refinement of `SignOff`; runs and feedback; evidence and decisions |
| `SessionServiceProofs`, `TrailStoreProofs` | theorems about `SessionService` and `TrailStore` |
| `StoresProofs` | theorems about `EvidenceVault`, `ReviewerTokens` and `SessionsFile` |
| `PartsProofs` | theorems about `Crews`, `FailureLimiter`, `EventQueues` and `ModelRouting` |
| `PapersProofs` | theorems about `AuditPapers` and the rules it applies |

`AuditMachine <- ReviewPolicy <- ReviewDecisions <- AuditFlow` is a chain of `EXTENDS`;
`AuditFlow` instantiates `SignOff` under a refinement mapping. `SessionService` extends
`AuditMachine` and cuts the methods that are atomic in `AuditFlow` where threads meet.
`Digests` is used by `Trail` and `EvidenceVault`, `Trail` by `TrailStore`, `AuditRules` by
`AuditPapers`. The parts that share no state are put side by side, and a behaviour is one
of a single part, with the others at rest: `MCStorage` has what is kept in files
(`StorageSpec`: `TrailStore`, `SessionsFile`, `EvidenceVault`, `ReviewerTokens`), `MCParts`
the rest of the API process (`PartsSpec`: `SessionService`, `FailureLimiter`,
`EventQueues`, `ModelRouting`, `Crews`, `AuditPapers`).

### State

| variable | in the code |
|---|---|
| `status` | `AuditStateMachine._status` and its mirror `state.status`, as a pair of a kind and a phase |
| `prepared_by`, `review_decisions`, `qa_rejection_reason` | the fields of `AuditState` |
| `artifact` | `racm_plan`, `working_papers`, `final_report`, by phase |
| `approval_trail` | the entries; their hash chain is in `Trail` |
| `generation_runs` | phase, outcome, attempts, and the feedback the run was seeded with |
| `crew` | the phase thread: attempt 0 is submitted, n is in its n-th crew attempt |
| `missing_evidence` | outside the flow: controls whose quote no longer verifies in the vault |
| `producer` | history: the run each draft came from; the code does not keep it |

A draft is a model value that stands for its digest (equal drafts have equal digests).
What decisions read of its content is given by constants: `KeyControls`, `Findings` (a
sequence, since nothing stops two findings on one control), `Classification`. A typed
name is a model value too, and `Identity` says which person `normalise_identity` makes of
it, so one person may act under several spellings. A rejection reason is
`<<"rejection", n>>`, the reason of run n, a crash `<<"error", n>>`, review notes
`<<"notes", i>>` with the trail entry that holds them.

### Actions

| action | code |
|---|---|
| `CreateAudit` | `_create_and_launch`: `record_preparer`, `begin_phase_1`, submit |
| `StartRun` | `generate_*` up to the first kickoff: reason cleared, feedback seeded, run appended |
| `RunAborts` | `_start_generation_run` raises (models of one family, environment forbids it) |
| `AttemptRejected` | an attempt rejected by QA, the evidence check or strict linting, with one left |
| `RunRejected` | the last attempt rejected: draft replaced or cleared, `reject_phase`, reason |
| `RunFails` | the crew raises, returns no artifact, or one that fails validation: `_fail_phase` |
| `RunApproved` | artifact stored, `complete_phase_n` |
| `ApproveGate` | `_approve_gate`: transition, duties, evidence, artifact, decisions, seal, stamp, submit |
| `RetryPhase`, `ReturnForRework`, `OverrideQA` | the methods of the same names, with the submit of the first two |
| `RecordDecision` | `record_decision` with `build_decision` |
| `LoseEvidence`, `RestoreEvidence` | the vault's files change outside the flow (external) |

A request that is refused changes nothing, so it is no step. The API runs human actions
under the session's lock, and while a phase runs no human action is allowed by the status,
so each action is atomic here. The exception is the end of a run: the thread commits the
status first and writes the reason and saves the snapshot afterwards. `SessionService`
models what happens there.

Not in this module: blank names, notes and rationales (refused); the dossier text; a
missing matrix or missing papers at the start of a later phase (unreachable here, since
an approved gate has its artifact); audits created before preparers were recorded;
likelihood, magnitude and dates of decisions; two evaluations of one deficiency ID.

### The session service

`SessionService` has one session and one flow object of it: the cache is filled under the
session's lock, a restart empties it with everything else, and after a delete nothing
fills it again, though a job may go on with the orphan.

| variable | in the code |
|---|---|
| `status` | the machine of the flow object |
| `mirror`, `qa_rejection_reason`, `approval_trail` | `state.status`, the kind of the reason, the entries |
| `cached` | the flow is in `_flows` |
| `entry` | the session in the sessions file: absent, without a snapshot, or with one |
| `request`, `session_lock` | what each caller's handler is about to do, and who holds the action lock |
| `job` | the jobs, each under the length the trail had when it was submitted |
| `dump` | the snapshot somebody writes under `_SAVE_LOCK` |
| `deleted` | history |

A human action is `Arrive` (`_require_session`), `Lock`, `Load` if the cache is empty,
`Accept` or `Refuse` (the machine's check; that any other check may refuse is left open),
`Move` (transition and mirror), `StampTrail`, `BeginSave` and `EndSave` or `FailSave`,
`Submit`. A request may be any action: which one it is, is chosen at `Accept` or
`MayDelete`, the first step that depends on it. `Create` and `Register` are
`_create_and_launch`, outside the lock. Deletion is `MayDelete` or `MayNotDelete`, then
`RemoveSession`, or an error before or after the entry is gone. A job is `StartJob`,
`CrewEnds` (the machine moves), `ReadMachine` and `WriteMirror` (the two halves of
`_commit_status`), `WriteReason`, and a save; `JobFails` is every exception before the
machine has moved. `Restart` can come at any time and `os.replace` makes each write of the
file one step. Every job has a worker here. Events are in `EventQueues`, the threads in the
sessions file in `SessionsFile`, the anchors file in `TrailStore`.

### Crews

`BeginCrewRun` is a run with the feedback it is seeded with, `RunTask` the next task of the
runner, `CrewError` an exception anywhere in the crew, `EndAttempt` what
`_run_crew_with_qa` makes of the QA verdict, the evidence check and strict linting: stored
as approved, tried once more, or stored as rejected. An output is a record of what its
prompt was made from: whose outputs it was given as context (`read`, and transitively
`basis`) and which feedback (`told`). The texts themselves are left open.

### Files

`Trail` has the entries of the approval trail as records of a body and three chain fields,
and `VerifyTrail` with its verdicts in the order of the code. `TrailStore` moves one audit
through `Draft`, `Decide`, `Approve` (memory), `WriteSession` and `WriteAnchor` (the two
writes of `FlowRepository.save`; a crash or error between them is `AnchorNotSaved` or
`Reload`), `Reload` (a restart: another key, or a schema that refuses a stored artifact),
and `EditDisk`: somebody changes the trail, the artifact or a decision in the sessions file,
cuts the trail, or computes a chain anew without the key. It has one phase, since what is
verified of a phase does not depend on another. `ExportRefused` is the check of the export
routes (409).

`SessionsFile` has threads that are anywhere in `get`, `save`, `update`, `delete` or a
flow's save: reads without a lock, `Recheck` and `MoveAside` of a file found corrupt under
`_LOCK`, read-modify-replace under it, anchors after it, errors (`FileFails`) and the death
of the process. The content of a session is how often it was written.

`EvidenceVault` has records of this version and of earlier ones, with and without a
session, encrypted or not. `RegisterEvidence`, `ChangeKey` (restart under another key),
`Damage` (a record on disk), and the migration command file by file: `ReadRecord`,
`ReplaceRecord`, `ReplaceFails`, `MigrationDies`. `FindingVerified` is the exact-quote check
with the session binding and the digest.

`ReviewerTokens` has the command (`BeginEdit` reads, `EndEdit` replaces the file), edits by
hand, and requests that go through `StatFile`, `LookUp`, `ReadRegistry`, `StoreRegistry` and
`CheckToken`, the places where another request or the command may come between. A token is
the number of its issue, the file's stamp its modification time and size.
`FailureLimiter` has requests that ask the limiter, fail and record, each reading the clock
before it holds the lock. `EventQueues` has job threads that find or create the queue and
schedule a put on the event loop, streams that take, and a deletion with late events. That
events come once and in order is said of one sequence: what streams took, then what is
queued, then what is still a callback of the loop (`InOrder`).

### Routing and rules

`ModelRouting` starts in any environment: keys of five providers, local and routed models, a
QA model, two enforcement flags. `StartRun` writes the provenance, `BuildCrew` builds the
agents, `FindCritic` and `SelectCritic` find another reviewer, `SeatJury`, `Vote` and
`Aggregate` are a panel. A model's name is the words family detection looks for, with the
family its weights really are of.

`AuditRules` has one operator per rule; what a pattern finds in a text is a field of the
value (`quote`, `basis`, `slop`), so rules that only look at the wording of one field are
left out. `AuditPapers` drafts, repairs and submits a plan, papers and a report with
`AUDIT_STRICT_LINTER` set; the next stage is reached only past the linter of the last, and
between fieldwork and reporting a reviewer may withdraw a positive conclusion. Overrides of
a rejection are in `AuditFlow`.

## Runs

The first six runs use `MCAuditFlow`, the next three `MCSessionService`, then once `MCStorage`
and twice `MCParts`. Deadlock is not checked: an audit stops when it is completed,
and the bounds stop the others.

| run | checks | instance |
|---|---|---|
| `gates` | types, gates in order, segregation of duties, seals, refinement of `SignOff`, every running phase settles | `FairSpec`; four names of three people, one re-run, two runs that do not pass; no decisions |
| `rework` | provenance, feedback, evidence at Gate 2 | two re-runs, three setbacks, runs that never start, one set of papers whose quotes come and go and one that never verifies |
| `reviews` | slots, review of gates, exceptions, scope limitations, frozen conclusions | two names, two re-runs over two sets of papers, so a draft can go away and come back; four decisions |
| `report` | whose decisions, what Gate 3 seals | two reports, one classification, one re-run, four decisions, before and after the report is issued |
| `stuck` | violation: a RUNNING status without a run | environment that forbids models of one family |
| `double` | violation: an exception nobody reviewed | papers with two findings on one control |
| `service` | one crew, deletion, what is on record before a crew runs, what a save may replace | two callers, four trail entries (all three gates), failing writes, restarts |
| `feedback` | violation: a retry without the rejection | one caller, two entries |
| `mirror` | violation: a mirror behind the machine | one caller, two entries |
| `storage` | honest trails verify, what an anchored or verified trail still is, the anchor's chain; no lost write; quotes that verify, and the migration; revoked and issued tokens | trail: three entries, one outside change, with and without a key; file: two threads, two sessions, one write each; vault: two records, one damaged, two migrations, three keys; tokens: two requests, one operator, two changes |
| `parts` | bounded failures; events once and in order; independent verdicts; drafts that QA read; sample sizes, findings, exceptions and compensation across the linters; every handler, job and save of the service finishes | service: two callers, two entries, failing writes, restarts; limiter: two clients, limit and window of two, four ticks; queues: two jobs, one stream, two events each; routing: every choice of providers, with one model set for QA; crews: two runs of each phase; papers: two controls, two findings, one evaluation |
| `families` | violation: two models of one family recorded as two | as `parts`, and a QA model with a drafting model's weights |

Bounds: `MaxSetbacks` counts earlier runs that did not pass at once, `MaxReruns` retries
and returns, `MaxDecisions` recorded decisions; `RequestTypes` narrows what reviewers ask
for, and `VolatileControls` which quotes may be lost. Each run gives its bounds to the
events its properties are about. Two re-runs are needed for feedback or an override to
reach the wrong run and for a draft to return after another; three decisions for one to
be superseded, go stale and return beside a third. Two persons who review and a preparer
are the fewest who can complete an audit (`gates`, `report`); `reviews` has one reviewer, who
passes Gate 2 but not Gate 3 as well, which its decisions on findings do not need. Where every person has one spelling, names are
symmetric and `MCPeople` declares it (`MCCallers` for the callers of `service`, `MCVaultKeys`
for the keys of the vault that are not the empty one); no run with symmetry checks liveness.

In the service runs `MaxTrail` bounds the entries, `MaxTails` the jobs that are on their
last statements when another crew run ends (one: a crew takes minutes and the statements
milliseconds; a job's tail still overlaps every step of the next request and all of the
next job up to the end of its crew run), and `Faults` says what may go wrong. Two callers
suffice, because every request but the creation holds the session's lock for all its
steps.

In `storage`, `MaxEntries` leaves room for a note or a decision, the approval that seals
it and one entry after; a change and a continuation are what a cut needs to be hidden under.
Two threads and two sessions are a lost update's fewest; `MaxWrites` keeps the file finite.
Two records and two migrations let one die between them and be repeated. In `parts`,
`MaxTime` lets a window pass twice, `MaxQueues` is above what two creations and a deletion
can make, and `MaxCrewRuns` allows a run after a setback. Two controls and two findings let
two share an ID, in one risk or in two; `RecommendedSamplesPass` adds every frequency,
nature, risk and populations up to 65 by itself, past the greatest sample size.

Each property has a mutant in the modules: a variant of a definition with a plausible bug
(a dropped guard, a wrong table, a comparison by spelling), under which TLC finds the
property violated.

### Fairness

`FairSpec` is weakly fair to the thread of each phase: the executor runs every submitted
job, and a crew call returns or raises. It is not fair to people or to the vault.
`RunsSettle` is checked in `gates`. It does not hold where `EnforceCrossFamily` is set:
`RunAborts` leaves nothing running (run `stuck`).

`PartsSpec` is weakly fair to each handler, job and save of the session service (`Proceed`,
`Work`, `Save`), as the service's own `FairSpec` is, and to nothing else: they run on threads
the operating system schedules. `EverybodyFinishes`, checked in `parts`, is what it gives. It owes nobody a request or a restart, and it does not
choose between success and failure. That a waiting request gets the lock is not claimed:
a Python lock is not fair among its waiters.

### What the violation runs show

* `stuck`: `_start_generation_run` is called before the `try` of `_run_crew_with_qa`. When
  it raises, the job fails and the audit stays `RUNNING_PHASE_n`; no retry, return or
  override is allowed from there, and the docstring promises that on failure the status
  has moved on.
* `double`: the effective view keeps the first finding of a control. Neither the schema
  nor the linter (rule D1 compares sets of IDs) refuses a second, so an exception that
  comes second is approved at Gate 2 without sign-off or challenge, against default 4 of
  ADR-011.
* `feedback`: a rejected run moves the machine, commits the status and then writes the
  reason. A retry between the last two is accepted and stamps an empty reason, so its run
  does not know what was wrong with the last one.
* `mirror`: `_commit_status` of a job reads the machine, an override moves it on, and the
  job writes what it read. The status shown and saved stays `QA_REJECTED_PHASE_n` while
  the machine waits at the gate; after a restart the machine starts from it.
* `families`: `detect_model_family` looks for "llama" anywhere in the string of a model, and
  "ollama" has it. A model that Ollama serves is META whatever it is, so `deepseek-r1` served
  by Ollama beside `deepseek-chat` is recorded as cross-family verified.

A retry or approval that is saved before a restart leaves a RUNNING status that nothing
resumes. `job_store.py:3` accepts that jobs are lost, so it is no violation run; the model
has it as a possible end.

### Remarks

Met while modelling, each a matter for the code's owners and none of them a run:

* Rule D1 of the linters is commented as one-to-one but compares sets of IDs, so two
  findings on one control pass (run `double` shows what that leads to).
* Two IT general controls that rely on each other pass rule D8, and D8 is not asked again
  when a reviewer withdraws the conclusion that was relied on.
* `lint_phase_artifact` passes an artifact when the linter raises.
* An empty population gets sample size 0, which rule D7 refuses
  (`RecommendedSamplesPass` starts at 1).
* `get_cross_family_qa_llm` promises another family but falls back to the usual QA model
  when no other family is available, as with the keys of NVIDIA and Groq alone.
* Two migrations at once write the same `<file>.tmp`; the model has one at a time.
* Two operators who edit the tokens file at once can lose an edit: the command has no lock.
* A QA answer that does not parse raises in the native runner, so the run ends in ERROR,
  where the docstring of `_qa_rejection` speaks of a rejection.
* The native runner gives a task without `context` nothing. The outputs of `context_task`
  and `crosswalk_task` are read by nobody, though a comment at `planning_crew.py:75` says
  the specialist already consumed them.
* Of the reporting tasks only drafting is given the feedback, so a strict-lint rejection of
  evaluations does not reach the agent that evaluates.
* The dossier says the final report passed tone QA; tone QA reads the sections before they
  are assembled (`DECISIONS.md:23` says so).

## Proofs

Every theorem is for all values of the constants that satisfy the assumptions of its
module, so for any number of people, drafts, callers, entries, records, requests and
steps. TLC checks the same property on the instance of its run, and has checked most of
the inductive invariants there before they were proved.

### The audit flow

Assumptions: `DraftsAssumption` (`None` is no draft, the content of drafts has its types and
the findings are consistent as `schema.py` demands) and `BoundsAssumption`.

| module | theorem | states |
|---|---|---|
| `AuditFlowProofs` | `TypeCorrect` | `[]TypeOK` |
| | `GatesInOrder` | `[]ApprovalsFollowTheStatus` |
| | `SealsHold` | `[]ApprovedArtifactsAreSealed` |
| | `DutiesAreSegregated` | `[]SegregationOfDuties` |
| | `ImplementsTheSignOff` | `ImplementsSignOff`: the refinement of `SignOff` |
| `AuditRunsProofs` | `RunsAreNamedCorrectly` | `[]ProvenanceNamesTheProducer` |
| | `FeedbackFits` | `[]FeedbackIsOfTheRunRepeated` |
| `AuditReviewProofs` | `EvidenceIsAccepted` | `UnverifiedEvidenceWasAccepted` |
| | `OneDecisionInForce` | `[]OneActiveDecisionPerSlot` |
| | `ConclusionsAreFrozen` | `ConclusionsOfRecordAreFrozen` |
| | `ReviewsHold` | `[]ApprovedGatesStayReviewed` |
| | `ExceptionsStay` | `[]ExceptionsAreNeverWithdrawn` |
| | `LimitationsAreTrue` | `[]ScopeLimitationsAreTrue` |
| | `SealsAreComplete` | `[]SealedDecisionsAreComplete` |
| | `DecisionsAreAccountable` | `[]DecisionsAreTheReviewers` |

`TypeOK` is not inductive: that a run has at most `MaxQAAttempts` attempts is known only
from the thread that counts them, which is `RunInFlight`. The first safety theorems share
one invariant,

    IInv == TypeOK /\ RunInFlight /\ TrailStartsEmpty /\ ApprovalsFollowTheStatus
              /\ ApprovedArtifactsAreSealed /\ SegregationOfDuties

Seals need the order of the gates (an artifact is only redrafted in a phase whose gate is
not approved), and segregation needs that nothing is stamped before the audit is created
(`TrailStartsEmpty`: otherwise a reviewer could become the preparer afterwards). The
argument has two layers. `EveryStep` shows that every step keeps the types and is one of
three kinds: quiet (trail, gates passed and the drafts under them stay), one entry that is
no approval, or one approval. `QuietKeepsIInv`, `OtherEntryKeepsIInv` and
`ApprovalKeepsIInv` then show the invariant kept by kind, without the actions. The
refinement uses the same three kinds: a quiet step is a redraft or a stutter of `SignOff`, an
approval signs.

The runs need `ThreadOwnsTheLastRun`: the run whose attempts a thread counts is the last of
the list, so an edit of the last run never touches a settled one. Feedback further needs
that the status tells how the latest run of its phase ended, and that the rejection
reason the next run is seeded with is that run's (`FeedbackInv`).

Decisions are appended and never edited, but which of them is active is recomputed against
the drafts of the moment, so no invariant over active decisions is inductive by itself. Each
section of `AuditReviewProofs` first states what the whole list keeps, active or not: a
decision names the one it supersedes, and was allowed on the draft it was made on. Only
`RecordDecision` touches the list (`DecisionsChange`); any other step can only replace a
draft and with it change which decisions are active.

### The session service and the sessions file

Assumptions: `ServiceAssumption` (a caller is no job, `None` no caller) and
`SessionsFileAssumption` (what json parses to is told from a missing and a corrupt file).

| module | theorem | states |
|---|---|---|
| `SessionServiceProofs` | `ServiceTypesCorrect` | types |
| | `CrewsRunAlone` | `[]OneCrewPerFlow` |
| | `DeletionIsFinal` | `[]DeletedStaysDeleted` |
| | `CrewsStartOnRecord` | `[]RunsAreOnRecord` |
| | `SavesTakeNothingBack` | `TrailOnDiskGrows` |
| | `SignedOffSessionsStay` | `SignedOffIsKept` |
| `StoresProofs` | `WritersAreAlone` | `[]FileInv` |
| | `WritesAreKept` | `NoWriteIsLost` |

The invariant of the service has a part for each of what its properties rest on: the
session's lock (`OneAtWork`), what a request has done at each place of its handler
(`RequestInv`), that a crew, queued or at work, is the one the machine waits for
(`CrewInv`), that the trail in the file is a prefix of the one a save is writing and that one
of the flow's (`SaveInv`, `DiskInv`). A save by a job and one by a request write in any
order; that neither takes anything back is the prefix order. `CallerStep` and the like show
once what a step of one actor leaves true of the others.

`FileInv` adds to the types that a call which has read the file for a change, or is moving
it aside, holds `_LOCK`, and that the file is still as it read it. The proof needs the second
look at an unreadable file under the lock: without it `move_aside` does not imply that the
file is corrupt.

### The trail, the vault and the tokens

| module | theorem | states |
|---|---|---|
| `TrailStoreProofs` | `AnchorsTellForgeries` | `[]AnchoredPartIsGenuine` |
| | `AnchorsMoveAlongTheChain` | `AnchorStaysOnItsChain` |
| | `VerifiedTrailsAreApproved` | `[]VerifiedMeansApproved` |
| | `HonestAuditsAreExported` | `[]HonestAuditsVerify` |
| `StoresProofs` | `QuotesWereCollected` | `[]VerifiedQuotesWereCollected` |
| | `MigrationsLoseNothing` | `MigrationLosesNoEvidence` |
| | `RevocationsTakeEffect` | `[]RevokedTokensAreRefused` |
| | `GrantsTakeEffect` | `[]IssuedTokensWork` |

Digests are terms (`Digests`), which is to say that SHA-256 and HMAC have no collisions and
that nobody computes an HMAC without its key. That is the one cryptographic assumption, and
everything here rests on it.

`ChainsAgree` is the lemma behind the trail: two trails whose chains verify and which agree
on the hash of one entry agree on everything up to it. It is an induction along the chain,
which the prover cannot be given as such; it is argued by the last place at which the two
differ, which exists because places are numbers. `ChainInv` is then small (the anchor is of a
trail whose chain verifies), and nothing in it is about what is on disk, since that may have
been changed in any way. For honest audits the invariant says that anchor, file and memory
are prefixes of each other and chained without a gap, and that what an approval sealed is
still there (`HonestInv`).
`HonestAuditsAreExported` has two hypotheses. `OneKey`: the key is set or not but never
replaced by another one; the code has no second key to try, so a trail sealed under the old
one does not verify under the new. `NoneIsNoDigest`:
what stands for a missing field is no hash.

The invariant of the vault is that the digest of every readable file is of something that was
registered, whatever else of the file is damaged, and that a record the migration is about to
replace is sound. `EvidenceVaultAssumption` says that the redaction of account numbers turns
no session's id into another session's, and `RecordsAreReadable` that a record is told from a
file json does not parse.

For the tokens, what a request may answer from is related to what it found when it came in:
a registry that is cached under the stamp of a later look at the file has everything that was
granted, and nothing that was revoked, before the request (`Answers`). Both theorems have the
hypothesis `OneOperator`: no two runs of the command overlap. The command has no lock, and
with two operators one edit is lost (see the remarks), so a revocation may be undone.

### The parts

Assumptions: `FailureLimiterAssumption` (finitely many requests at work, a limit and a window
that are not zero) and `EventQueuesAssumption`.

| module | theorem | states |
|---|---|---|
| `PartsProofs` | `DraftsWereReviewed` | `[]StoredDraftsWereReviewed` |
| | `FailuresStayBounded` | `[]FailuresAreBounded` |
| | `EventsStayInOrder` | `[]EventsComeOnceInOrder` |
| | `VerdictsStayIndependent` | `[]VerdictsAreIndependent` |

For the crews, the i-th output is of the i-th task and of this attempt, with the context and
feedback its task gives it (`OutputsFit`), the feedback only grows from the run's first
attempt to its second (`FeedbackGrows`), and what a finished run keeps is the artifact of the
attempt that ended it (`FinishedOnItsDraft`). That every task list serves its QA task is
checked list by list (`CrewTasks`).

The limiter drops failures from the front of its deque and reads clocks before it locks, so
the deque need not be the failures of the window. The invariant says that it is a tail of
what is recorded, that what went before has expired for good (`DequeIsATail`), and that for
every window, past ones too, the failures in it and the requests that may still add one are
fewer than the limit and the requests (`WindowsAreBounded`). A request is let through only
when fewer than the limit are in the deque, so it may be counted from then on.

For the queues, `QueuesIInv` holds while the session exists: whoever has a queue has the
session's one, and no other has events (`QueueIsShared`), a thread that waits asked the loop
once (`WaitersAskedOnce`), and the events are in order from the streams back to the callbacks
(`EventsInOrder`). Most steps leave that sequence as it is: a callback moves the head of one part
to the end of the part before (`EventMovesOn`).

For the panels, `RoutingIInv` says that the judges are of different families and none of the
drafter's, and that the votes are theirs, one each and in their order; so the count, which
looks at the families again, refuses none. It rests on the catalog (`CatalogIsRight`: every
model is recognized as of the family it is listed under). That votes add up to a number is
argued like `FlattenedIsSeq` below.

### The papers

Assumption: `AuditPapersAssumption` (controls and findings have the attributes of the schema,
and the findings are what its validator accepts).

| module | theorem | states |
|---|---|---|
| `PapersProofs` | `PapersAreTyped` | types, and what each stage has passed |
| | `SamplesPass` | `[]RecommendedSamplesPass` |
| | `FindingsHold` | `[]FindingsHoldForTheirControls` |
| | `ExceptionsReported` | `[]ExceptionsAreReported` |
| | `CompensationStanding` | `[]CompensationStands` |
| | `AcceptedFindings` | `[]AcceptedFindingsPassTheLinter` |

The invariant is that an artifact which its phase let through still passes its linter
(`StagesPassed`): nothing but a later stage's own artifact changes after that, and a
withdrawal is laid over the papers, never written into them. The theorems then take a
passed linter apart (`PassedPart`, `RuleHolds`): a rule that passes does not hold of its
subject. `FindingsHold` joins two linters, since `controls_by_id` finds the control that is
meant only because the linter of the plan refuses duplicate IDs (`ControlIsFound`).
`ExceptionsReported` needs in addition that a withdrawal lowers 'Effective' and nothing else
(`LoweredKeepsExceptions`). `ControlsOf` flattens the lists of controls by a recursive
function; that the result is a list of controls is argued by the least place at which it
would not be (`FlattenedIsSeq`).

### Only model-checked

* `RunsSettle` and `EverybodyFinishes`: liveness, and the `ENABLED` in it, are out of the
  prover's reach.
* `VerifiedCrossFamily` and the other `violation` runs: what they check does not hold.

## Not modelled, and why

* The executor's limit of ten threads: how long a phase waits for a worker depends only on
  crews that return, and a phase that waits is RUNNING like one that runs.
* Read-only routes, the API shell (parsing, upload limits, headers) and the frontend: no
  state an audit depends on.
* Exports and OSCAL: renderings of the effective view; only their refusal of a changed trail
  is modelled (`ExportRefused`).
* Tools, the MCP server and imported reports: reading AWS and files. What they collect is
  registered in the vault, which is modelled.
* Skills and prompts: text. Demo mode: fixed drafts in place of a crew's.
* The evaluation harness and the monitors: measurements outside an audit.
* Engines of the decision module that call a model, and the values of their probabilities;
  receipts and costs.
* Linter rules on the wording of a single field.
* Two runs of the tokens command at once: nothing in the code promises that both edits stay.
* A session whose process died before its first snapshot: it is a state of `SessionService`,
  but the code does not say what may be expected of it.
