------------------------ MODULE SessionServiceProofs ------------------------
(***************************************************************************)
(* What holds of a served session for any number of callers, any length of *)
(* the trail and any number of jobs on their last statements, whatever     *)
(* writes fail and however often the process restarts: one crew at a time, *)
(* no crew before what it follows from is in the file, a trail in the file *)
(* that only grows, signed-off sessions that stay, deleted ones that do    *)
(* not come back.                                                          *)
(*                                                                         *)
(* None of these is inductive.  They follow together from IInv below: who  *)
(* holds the session's lock, that one request at a time changes the flow,  *)
(* what a request has done at each place of its handler, and that the      *)
(* trail in the file is a prefix of the one being written, which is a      *)
(* prefix of the one in memory.                                            *)
(***************************************************************************)
EXTENDS SessionService, SequenceTheorems, TLAPS

RequestPlaces == {"idle", "register", "waiting", "locked", "found", "move", "stamp",
                  "saving", "saved", "deleting"}

JobPlaces == {"none", "queued", "crew", "moved", "read", "mirrored", "saving", "done"}

Requests == [op : Ops \cup {None}, phase : 0..3, previous : Statuses \cup {None},
             pc : RequestPlaces]

Jobs == [phase : 0..3, pc : JobPlaces, outcome : Statuses \cup {None},
         seen : Statuses \cup {None}]

ServiceTypes ==
    /\ status \in Statuses
    /\ mirror \in Statuses
    /\ qa_rejection_reason \in Reasons
    /\ approval_trail \in Seq(TrailEntries)
    /\ cached \in BOOLEAN
    /\ deleted \in BOOLEAN
    /\ entry \in Entries \cup {None}
    /\ request \in [Callers -> Requests]
    /\ session_lock \in Callers \cup {None}
    /\ job \in [JobIds -> Jobs]
    /\ dump \in [Actors -> Snapshots \cup {None}]
    /\ \A i \in JobIds : job[i].pc = "read" => job[i].seen \in Statuses

\* The session's lock is the caller's.
Holds(c) == \/ request[c].pc \in {"locked", "found", "move", "stamp", "deleting"}
            \/ request[c].pc \in {"saving", "saved"} /\ request[c].op # "create"

\* The caller is changing the flow.
Busy(c) == request[c].pc \in {"register", "move", "stamp", "saving", "saved"}

Active(i) == job[i].pc \in {"queued", "crew"}

(* Nobody is between the check of a transition and the save but the holder *)
(* of the lock, or the request that creates the session.                   *)
OneAtWork ==
    /\ \A c \in Callers : Holds(c) => session_lock = c
    /\ \A c, d \in Callers : Busy(c) /\ Busy(d) => c = d

(* A session that is not in the file yet, or not in memory yet, has no job *)
(* and no save; a flow without a trail is no flow at all.                  *)
AtRest == /\ \A i \in JobIds : job[i].pc = "none"
          /\ \A a \in Actors : dump[a] = None

Beginnings ==
    /\ entry = None /\ ~ deleted =>
        AtRest /\ \A c \in Callers : request[c].pc \in {"idle", "register"}
    /\ ~ cached /\ ~ deleted =>
        AtRest /\ \A c \in Callers : request[c].pc \in {"idle", "waiting", "locked", "deleting"}
    /\ approval_trail = <<>> =>
        ~ cached /\ \A c \in Callers : request[c].pc \in {"idle", "waiting", "locked", "deleting"}

\* The phase the request submits when it is saved.
RunToCome(c) == PhaseToRun(request[c].op, request[c].phase)

(* What a request knows at each place of its handler: after its transition *)
(* the machine waits for its crew and no crew is there, its entry is the   *)
(* last one on the trail, its save is in the file, and what it is about to *)
(* delete was never signed off.                                            *)
RequestInv(c) ==
    LET r == request[c]
    IN  /\ r.pc = "register" => entry = None /\ ~ deleted /\ r.op = "create"
        /\ Busy(c) /\ r.op = "create" =>
                r.pc \in {"register", "saving", "saved"} /\ Len(approval_trail) = 1
        /\ r.pc = "move" => /\ r.op \in FlowOps \ {"review_decision"}
                            /\ r.phase \in Phases
                            /\ status \in Sources(r.op, r.phase)
        /\ r.pc = "stamp" => r.op \in FlowOps
        /\ r.pc \in {"register", "stamp", "saving", "saved"} /\ RunToCome(c) # 0 =>
                status = Running(RunToCome(c)) /\ \A i \in JobIds : ~ Active(i)
        /\ r.pc \in {"register", "saving", "saved"} =>
                \A i \in JobIds : job[i].pc # "none" => i < Len(approval_trail)
        /\ r.pc \in {"saving", "saved"} /\ r.op # "create" =>
                /\ Len(approval_trail) >= 2
                /\ approval_trail[Len(approval_trail)].action = r.op
                /\ approval_trail[Len(approval_trail)].phase = r.phase
        /\ dump[c] # None /\ ~ deleted => dump[c].trail = approval_trail
        /\ r.pc = "saved" /\ ~ deleted => HasSnapshot /\ TrailOnDisk = approval_trail
        /\ r.pc = "deleting" => /\ ~ GateApproved(TrailOnDisk)
                                /\ cached => ~ GateApproved(approval_trail)

(* A crew, queued or at work, is the one the machine waits for.            *)
CrewInv ==
    /\ \A i \in JobIds : job[i].pc # "none" => i <= Len(approval_trail)
    /\ \A i \in JobIds : Active(i) => job[i].phase \in Phases /\ status = Running(job[i].phase)
    /\ OneCrewPerFlow
    /\ RunsAreOnRecord

(* One save at a time; what it writes lies between the file and the flow.  *)
SaveInv ==
    /\ \A a, b \in Actors : dump[a] # None /\ dump[b] # None => a = b
    /\ \A a \in Actors : dump[a] # None =>
            /\ Saving(a)
            /\ ~ deleted => /\ IsPrefix(dump[a].trail, approval_trail)
                            /\ IsPrefix(TrailOnDisk, dump[a].trail)
                            /\ dump[a].trail # <<>>

(* The flow in the cache has everything the file has.                      *)
DiskInv ==
    /\ DeletedStaysDeleted
    /\ cached => IsPrefix(TrailOnDisk, approval_trail)
    /\ HasSnapshot => TrailOnDisk # <<>>

IInv ==
    /\ ServiceTypes
    /\ OneAtWork
    /\ Beginnings
    /\ \A c \in Callers : RequestInv(c)
    /\ CrewInv
    /\ SaveInv
    /\ DiskInv

---------------------------------------------------------------------------
\* A prefix is as long as the sequence at most, and agrees with it.
LEMMA PrefixIsElementwise ==
    ASSUME NEW S, NEW s \in Seq(S), NEW t \in Seq(S)
    PROVE  IsPrefix(s, t) <=> Len(s) <= Len(t) /\ \A i \in 1..Len(s) : s[i] = t[i]
    BY DEF IsPrefix

\* Prefixes are a partial order ...
LEMMA PrefixOfItself ==
    ASSUME NEW S, NEW s \in Seq(S)
    PROVE  IsPrefix(s, s)
    BY PrefixIsElementwise

\* ... an entry more keeps every prefix ...
LEMMA PrefixOfLonger ==
    ASSUME NEW S, NEW s \in Seq(S), NEW t \in Seq(S), IsPrefix(s, t), NEW e \in S
    PROVE  IsPrefix(s, Append(t, e))
<1> DEFINE u == Append(t, e)
<1>1. u \in Seq(S) /\ Len(u) = Len(t) + 1 /\ \A i \in 1..Len(t) : u[i] = t[i]
    BY AppendProperties
<1>2. Len(s) <= Len(t) /\ \A i \in 1..Len(s) : s[i] = t[i]
    BY PrefixIsElementwise
<1>3. Len(s) <= Len(u) /\ \A i \in 1..Len(s) : s[i] = u[i]
    BY <1>1, <1>2, LenProperties
<1> HIDE DEF u
<1>4. IsPrefix(s, u)
    BY <1>1, <1>3, PrefixIsElementwise
<1> QED
    BY <1>4 DEF u

\* ... a prefix of a prefix is one ...
LEMMA PrefixIsTransitive ==
    ASSUME NEW S, NEW s \in Seq(S), NEW t \in Seq(S), NEW u \in Seq(S),
           IsPrefix(s, t), IsPrefix(t, u)
    PROVE  IsPrefix(s, u)
    BY PrefixIsElementwise

\* ... and who are prefixes of each other are equal.
LEMMA PrefixBothWays ==
    ASSUME NEW S, NEW s \in Seq(S), NEW t \in Seq(S), IsPrefix(s, t), IsPrefix(t, s)
    PROVE  s = t
    BY PrefixIsElementwise, SeqEqual

\* The empty sequence is a prefix of each, and has no other.
LEMMA EmptyIsPrefix ==
    ASSUME NEW S, NEW s \in Seq(S)
    PROVE  <<>> \in Seq(S) /\ IsPrefix(<<>>, s)
<1> DEFINE none == <<>>
<1>1. none \in Seq(S) /\ Len(none) = 0
    BY EmptySeq
<1> HIDE DEF none
<1>2. Len(none) <= Len(s) /\ \A i \in 1..Len(none) : none[i] = s[i]
    BY <1>1, LenProperties
<1>3. IsPrefix(none, s)
    BY <1>1, <1>2, PrefixIsElementwise
<1> QED
    BY <1>1, <1>3 DEF none

\* The empty trail is the only prefix of itself.
LEMMA PrefixOfEmpty ==
    ASSUME NEW S, NEW s \in Seq(S), IsPrefix(s, <<>>)
    PROVE  s = <<>>
    BY EmptyIsPrefix, PrefixBothWays

\* An approval is not lost by going on.
LEMMA ApprovalsOfPrefix ==
    ASSUME NEW s \in Seq(TrailEntries), NEW t \in Seq(TrailEntries), IsPrefix(s, t),
           GateApproved(s)
    PROVE  GateApproved(t)
    BY PrefixIsElementwise DEF GateApproved

---------------------------------------------------------------------------
\* A caller that goes on, and a caller that returns: nobody else is moved, and
\* nobody else loses the lock.
LEMMA StepTakes ==
    ASSUME ServiceTypes, NEW c \in Callers, NEW pc \in RequestPlaces, Step(c, pc)
    PROVE  /\ request' \in [Callers -> Requests]
           /\ request'[c].pc = pc /\ request'[c].op = request[c].op
           /\ request'[c].phase = request[c].phase
           /\ request'[c].previous = request[c].previous
           /\ \A d \in Callers \ {c} : request'[d] = request[d]
    BY DEF ServiceTypes, Step, Requests

\* A handler that ends gives the lock back and changes no other request.
LEMMA ReleaseTakes ==
    ASSUME ServiceTypes, OneAtWork, NEW c \in Callers, Release(c)
    PROVE  /\ request' \in [Callers -> Requests]
           /\ request'[c].pc = "idle" /\ request'[c].op = None
           /\ \A d \in Callers \ {c} : request'[d] = request[d]
           /\ session_lock' \in Callers \cup {None}
           /\ \A d \in Callers \ {c} : session_lock = d => session_lock' = d
<1>1. Idle \in Requests /\ Idle.pc = "idle" /\ Idle.op = None
    BY DEF Idle, Requests, RequestPlaces
<1> QED
    BY <1>1, ServiceAssumption DEF Release, ServiceTypes

\* Callers, jobs and nobody are different things.
LEMMA NoneIsNoActor == \A c \in Callers : c \in Actors /\ c \notin JobIds /\ c # None
    BY ServiceAssumption DEF Actors, JobIds

\* A step of a caller that leaves the flow, the file, the jobs and the saves alone
\* has only its own place to account for.
LEMMA CallerStep ==
    ASSUME IInv, NEW c \in Callers,
           UNCHANGED <<flow, cached, stored, job, dump>>,
           request' \in [Callers -> Requests],
           \A d \in Callers \ {c} : request'[d] = request[d],
           session_lock' \in Callers \cup {None},
           \A d \in Callers \ {c} : session_lock = d => session_lock' = d,
           dump[c] = None,
           Holds(c)' => session_lock' = c,
           Busy(c)' => \A d \in Callers \ {c} : ~ Busy(d),
           entry = None /\ ~ deleted => request'[c].pc \in {"idle", "register"},
           approval_trail = <<>> \/ (~ cached /\ ~ deleted) =>
                request'[c].pc \in {"idle", "waiting", "locked", "deleting"},
           RequestInv(c)'
    PROVE  IInv'
<1>1. UNCHANGED <<status, mirror, qa_rejection_reason, approval_trail, cached, entry, deleted,
                  job, dump>>
    BY DEF flow, stored
<1>2. ServiceTypes'
    BY <1>1 DEF IInv, ServiceTypes
<1>3. OneAtWork'
    BY <1>1 DEF IInv, OneAtWork, Holds, Busy
<1>4. Beginnings'
    BY <1>1 DEF IInv, Beginnings, AtRest
<1>5. ASSUME NEW d \in Callers \ {c}
      PROVE  RequestInv(d)'
    BY <1>1, <1>5 DEF IInv, RequestInv, Busy, RunToCome, Active, TrailOnDisk, HasSnapshot
<1>6. CrewInv'
    BY <1>1 DEF IInv, CrewInv, Active, OneCrewPerFlow, RunsAreOnRecord, TrailOnDisk, HasSnapshot
<1>7. SaveInv'
    BY <1>1, ServiceAssumption DEF IInv, SaveInv, Actors, JobIds, Saving, TrailOnDisk, HasSnapshot
<1>8. DiskInv'
    BY <1>1 DEF IInv, DiskInv, DeletedStaysDeleted, TrailOnDisk, HasSnapshot
<1> QED
    BY <1>2, <1>3, <1>4, <1>5, <1>6, <1>7, <1>8 DEF IInv

---------------------------------------------------------------------------
\* Only who is at its save holds a snapshot.
LEMMA NoDumpUnlessSaving ==
    ASSUME IInv, NEW c \in Callers, request[c].pc # "saving"
    PROVE  dump[c] = None
    BY NoneIsNoActor DEF IInv, SaveInv, Saving

\* The handlers' steps, one by one.  First those that return an error, or wait.
LEMMA ReleaseKeepsIInv ==
    ASSUME IInv, NEW c \in Callers, Release(c),
           UNCHANGED <<flow, cached, stored, job, dump>>, dump[c] = None
    PROVE  IInv'
<1>1. UNCHANGED <<deleted, dump>>
    BY DEF stored
<1>2. RequestInv(c)'
    BY <1>1, ReleaseTakes DEF IInv, RequestInv, Busy
<1>3. ~ Holds(c)' /\ ~ Busy(c)'
    BY ReleaseTakes DEF IInv, Holds, Busy
<1> QED
    BY <1>2, <1>3, ReleaseTakes, CallerStep DEF IInv

\* The first save of a new session fails: nothing is cached or on file.
LEMMA RegisterFailsKeepsIInv ==
    ASSUME IInv, NEW c \in Callers, RegisterFails(c) PROVE IInv'
    BY NoDumpUnlessSaving, ReleaseKeepsIInv DEF RegisterFails

\* A refused action leaves everything but the lock.
LEMMA RefuseKeepsIInv ==
    ASSUME IInv, NEW c \in Callers, Refuse(c) PROVE IInv'
    BY NoDumpUnlessSaving, ReleaseKeepsIInv DEF Refuse, FlowFound

\* A deletion refused for a sign-off leaves everything but the lock.
LEMMA MayNotDeleteKeepsIInv ==
    ASSUME IInv, NEW c \in Callers, MayNotDelete(c) PROVE IInv'
    BY NoDumpUnlessSaving, ReleaseKeepsIInv DEF MayNotDelete

\* A deletion that fails before the entry is gone.
LEMMA RemoveFailsKeepsIInv ==
    ASSUME IInv, NEW c \in Callers, RemoveFails(c) PROVE IInv'
    BY NoDumpUnlessSaving, ReleaseKeepsIInv DEF RemoveFails

\* _require_session: the request has seen the entry and holds nothing yet.
LEMMA ArriveKeepsIInv ==
    ASSUME IInv, NEW c \in Callers, Arrive(c) PROVE IInv'
<1>1. dump[c] = None /\ entry # None
    BY NoDumpUnlessSaving DEF Arrive
<1>2. /\ request' \in [Callers -> Requests] /\ request'[c].pc = "waiting"
      /\ \A d \in Callers \ {c} : request'[d] = request[d]
    BY StepTakes DEF Arrive, IInv, RequestPlaces
<1>3. RequestInv(c)' /\ ~ Holds(c)' /\ ~ Busy(c)'
    BY <1>1, <1>2 DEF RequestInv, Holds, Busy, Arrive
<1> QED
    BY <1>1, <1>2, <1>3, CallerStep DEF Arrive, IInv, ServiceTypes

\* The request that gets the lock is the only one to change the flow.
LEMMA LockKeepsIInv ==
    ASSUME IInv, NEW c \in Callers, Lock(c) PROVE IInv'
<1>1. dump[c] = None
    BY NoDumpUnlessSaving DEF Lock
<1>2. /\ request' \in [Callers -> Requests] /\ request'[c].pc = "locked"
      /\ \A d \in Callers \ {c} : request'[d] = request[d]
    BY StepTakes DEF Lock, IInv, RequestPlaces
<1>3. RequestInv(c)' /\ ~ Busy(c)'
    BY <1>1, <1>2 DEF RequestInv, Busy, Lock
<1>4. session_lock' = c /\ session_lock = None
    BY DEF Lock
<1>5. ~ (entry = None /\ ~ deleted)
    BY DEF Lock, IInv, Beginnings
<1> QED
    BY <1>1, <1>2, <1>3, <1>4, <1>5, NoneIsNoActor, CallerStep DEF Lock

\* A deletion goes ahead only where no gate is approved, in the file or in the cached flow.
LEMMA MayDeleteKeepsIInv ==
    ASSUME IInv, NEW c \in Callers, MayDelete(c) PROVE IInv'
<1>1. dump[c] = None
    BY NoDumpUnlessSaving DEF MayDelete
<1>2. /\ request' \in [Callers -> Requests]
      /\ request'[c].pc = "deleting" /\ request'[c].op = "delete"
      /\ \A d \in Callers \ {c} : request'[d] = request[d]
    BY DEF MayDelete, IInv, ServiceTypes, Requests, RequestPlaces, Ops
<1>3. ~ GateApproved(TrailOnDisk) /\ (cached => ~ GateApproved(approval_trail))
    BY DEF MayDelete, HasSignOff, SignedOff, GateApproved, TrailOnDisk
<1>4. UNCHANGED <<TrailOnDisk, approval_trail, cached, deleted, dump>>
    BY DEF MayDelete, flow, stored, TrailOnDisk, HasSnapshot
<1>5. RequestInv(c)' /\ ~ Busy(c)'
    BY <1>1, <1>2, <1>3, <1>4 DEF RequestInv, Busy, GateApproved
<1>6. session_lock' = session_lock /\ session_lock = c
    BY DEF MayDelete, IInv, OneAtWork, Holds
<1>7. ~ (entry = None /\ ~ deleted)
    BY DEF MayDelete, IInv, Beginnings
<1> QED
    BY <1>1, <1>2, <1>5, <1>6, <1>7, CallerStep DEF MayDelete, IInv, ServiceTypes

\* No request starts from a running phase.
LEMMA RunningIsNoSource ==
    ASSUME NEW op \in FlowOps \ {"review_decision"}, NEW p, NEW q
    PROVE  Running(q) \notin Sources(op, p)
<1>1. Running(q) # Gate(p) /\ Running(q) # QARejected(p) /\ Running(q) # Error(p)
    BY DEF Running, Gate, QARejected, Error
<1> QED
    BY <1>1 DEF Sources, FlowOps

\* An accepted action has yet to move the machine.
LEMMA AcceptKeepsIInv ==
    ASSUME IInv, NEW c \in Callers, NEW op \in FlowOps, NEW p \in 0..3, Accept(c, op, p),
           op # "review_decision" => p \in Phases
    PROVE  IInv'
<1>1. dump[c] = None /\ session_lock = c /\ session_lock' = session_lock
    BY NoDumpUnlessSaving DEF Accept, FlowFound, IInv, OneAtWork, Holds
<1>2. /\ request' \in [Callers -> Requests]
      /\ request'[c].pc = IF op = "review_decision" THEN "stamp" ELSE "move"
      /\ request'[c].op = op /\ request'[c].phase = p
      /\ \A d \in Callers \ {c} : request'[d] = request[d]
    BY DEF Accept, IInv, ServiceTypes, Requests, RequestPlaces, Ops
<1>3. status' = status /\ dump' = dump
    BY DEF Accept, flow
<1>4. op # "review_decision" => status \in Sources(op, p)
    BY DEF Accept, Allowed, Can
<1>5. op # "create" /\ (op = "review_decision" => PhaseToRun(op, p) = 0)
    BY DEF FlowOps, PhaseToRun
<1>6. RequestInv(c)'
    BY <1>1, <1>2, <1>3, <1>4, <1>5 DEF RequestInv, Busy, Sources, RunToCome
<1>7. ASSUME NEW d \in Callers \ {c}, Busy(d)
      PROVE  FALSE
    <2>1. request[d].op = "create"
        BY <1>1, <1>7 DEF IInv, OneAtWork, Busy, Holds, RequestInv
    <2>2. PhaseToRun("create", request[d].phase) = 1
        BY DEF PhaseToRun
    <2>3. status = Running(1)
        BY <2>1, <2>2, <1>7 DEF IInv, RequestInv, Busy, RunToCome
    <2>4. \/ op = "review_decision" /\ status \in DecisionStatuses
          \/ op \in FlowOps \ {"review_decision"} /\ status \in Sources(op, p)
        BY DEF Accept, Allowed, Can
    <2> QED
        BY <2>3, <2>4, RunningIsNoSource DEF DecisionStatuses, Running, Gate, Completed
<1>8. ~ (entry = None /\ ~ deleted) /\ approval_trail # <<>> /\ (cached \/ deleted)
    BY DEF Accept, FlowFound, IInv, Beginnings
<1> QED
    BY <1>1, <1>2, <1>6, <1>7, <1>8, CallerStep DEF Accept, IInv, ServiceTypes

---------------------------------------------------------------------------
\* The transition: the machine now waits for the phase the request will submit.
LEMMA MoveKeepsIInv ==
    ASSUME IInv, NEW c \in Callers, Move(c) PROVE IInv'
<1> DEFINE r == request[c]
<1>1. /\ request' \in [Callers -> Requests] /\ request'[c].pc = "stamp"
      /\ request'[c].op = r.op /\ request'[c].phase = r.phase
      /\ \A d \in Callers \ {c} : request'[d] = request[d]
    BY StepTakes DEF Move, IInv, RequestPlaces
<1>2. UNCHANGED <<qa_rejection_reason, approval_trail, cached, entry, deleted, session_lock,
                  job, dump>>
    BY DEF Move, stored
<1>3. /\ r.op \in FlowOps \ {"review_decision"} /\ r.phase \in Phases
      /\ status \in Sources(r.op, r.phase) /\ r.pc = "move" /\ dump[c] = None
    BY NoDumpUnlessSaving DEF Move, IInv, RequestInv
<1>4. \A i \in JobIds : ~ Active(i)
    BY <1>3, RunningIsNoSource DEF IInv, CrewInv
<1>5. \A d \in Callers \ {c} : ~ Busy(d)
    BY <1>3 DEF IInv, OneAtWork, Busy
<1>6. /\ status' \in Statuses /\ mirror' \in Statuses
      /\ PhaseToRun(r.op, r.phase) # 0 => status' = Running(PhaseToRun(r.op, r.phase))
    BY <1>3 DEF Move, Target, AfterGate, PhaseToRun, Statuses, FlowOps, Phases
<1>7. ServiceTypes'
    BY <1>1, <1>2, <1>6 DEF IInv, ServiceTypes
<1>8. OneAtWork'
    BY <1>1, <1>2, <1>3 DEF IInv, OneAtWork, Holds, Busy
<1>9. Beginnings'
    BY <1>1, <1>2, <1>3 DEF IInv, Beginnings, AtRest
<1>10. RequestInv(c)'
    BY <1>1, <1>2, <1>3, <1>4, <1>6 DEF RequestInv, Busy, RunToCome, Active, FlowOps
<1>11. ASSUME NEW d \in Callers \ {c} PROVE RequestInv(d)'
    BY <1>1, <1>2, <1>5 DEF IInv, RequestInv, Busy, RunToCome, Active, TrailOnDisk, HasSnapshot
<1>12. CrewInv'
    BY <1>2, <1>4 DEF IInv, CrewInv, Active, OneCrewPerFlow, RunsAreOnRecord
<1>13. SaveInv'
    BY <1>1, <1>2, <1>3, NoneIsNoActor DEF IInv, SaveInv, Actors, Saving, TrailOnDisk, HasSnapshot
<1>14. DiskInv'
    BY <1>2 DEF IInv, DiskInv, DeletedStaysDeleted, TrailOnDisk, HasSnapshot
<1> QED
    BY <1>7, <1>8, <1>9, <1>10, <1>11, <1>12, <1>13, <1>14 DEF IInv

(* An entry on the trail: what was on it stays, and it grows.              *)
LEMMA TrailGrows ==
    ASSUME NEW t \in Seq(TrailEntries), NEW e \in TrailEntries
    PROVE  /\ Append(t, e) \in Seq(TrailEntries)
           /\ Append(t, e) # <<>>
           /\ Len(Append(t, e)) = Len(t) + 1
           /\ Append(t, e)[Len(t) + 1] = e
           /\ \A s \in Seq(TrailEntries) : IsPrefix(s, t) => IsPrefix(s, Append(t, e))
<1>1. \A s \in Seq(TrailEntries) : IsPrefix(s, t) => IsPrefix(s, Append(t, e))
    BY PrefixOfLonger
<1> QED
    BY <1>1, AppendProperties

\* Trails in memory, in a dump and in the file are of the types of entries.
LEMMA TrailsAreTyped ==
    ASSUME IInv
    PROVE  /\ approval_trail \in Seq(TrailEntries)
           /\ TrailOnDisk \in Seq(TrailEntries)
           /\ \A a \in Actors : dump[a] # None => dump[a].trail \in Seq(TrailEntries)
    BY EmptySeq DEF IInv, ServiceTypes, TrailOnDisk, HasSnapshot, Entries, Snapshots

\* The stamp: the request's entry is the last one from here to its submit.
LEMMA StampTrailKeepsIInv ==
    ASSUME IInv, NEW c \in Callers, StampTrail(c) PROVE IInv'
<1> DEFINE r == request[c]
           e == TrailEntry(r.op, r.phase, r.previous,
                           IF r.op = "retry" THEN qa_rejection_reason ELSE None)
<1>1. /\ request' \in [Callers -> Requests] /\ request'[c].pc = "saving"
      /\ request'[c].op = r.op /\ request'[c].phase = r.phase
      /\ \A d \in Callers \ {c} : request'[d] = request[d]
    BY StepTakes DEF StampTrail, IInv, RequestPlaces
<1>2. UNCHANGED <<status, mirror, cached, entry, deleted, session_lock, job, dump>>
    BY DEF StampTrail, stored
<1>3. /\ r.op \in FlowOps /\ r.op # "create" /\ r.pc = "stamp" /\ dump[c] = None
      /\ session_lock = c
    BY NoDumpUnlessSaving DEF StampTrail, IInv, RequestInv, OneAtWork, Holds, FlowOps
<1>4. \A d \in Callers \ {c} : ~ Busy(d) /\ ~ Holds(d)
    BY <1>3 DEF IInv, OneAtWork, Busy
<1>5. e \in TrailEntries /\ e.action = r.op /\ e.phase = r.phase
    BY <1>3 DEF IInv, ServiceTypes, Requests, TrailEntry, TrailEntries, Reasons
<1>6. approval_trail' = Append(approval_trail, e)
    BY DEF StampTrail
<1> HIDE DEF e
<1>7. /\ approval_trail' \in Seq(TrailEntries)
      /\ approval_trail' # <<>>
      /\ Len(approval_trail') = Len(approval_trail) + 1
      /\ approval_trail'[Len(approval_trail')] = e
      /\ \A s \in Seq(TrailEntries) : IsPrefix(s, approval_trail) => IsPrefix(s, approval_trail')
    BY <1>5, <1>6, TrailsAreTyped, TrailGrows
<1>8. approval_trail # <<>> /\ Len(approval_trail') >= 2
    BY <1>3, <1>7, TrailsAreTyped, EmptySeq, LenProperties DEF IInv, Beginnings
<1>9. \A i \in JobIds : job'[i].pc # "none" => i < Len(approval_trail')
    BY <1>2, <1>7, TrailsAreTyped, LenProperties DEF IInv, CrewInv, JobIds
<1>10. ServiceTypes'
    BY <1>1, <1>2, <1>7 DEF IInv, ServiceTypes, StampTrail, Reasons
<1>11. OneAtWork'
    BY <1>1, <1>2, <1>3 DEF IInv, OneAtWork, Holds, Busy
<1>12. Beginnings'
    BY <1>1, <1>2, <1>3, <1>7 DEF IInv, Beginnings, AtRest
<1>13. RequestInv(c)'
    BY <1>1, <1>2, <1>3, <1>5, <1>7, <1>8, <1>9
       DEF IInv, RequestInv, Busy, RunToCome, Active
<1>14. ASSUME NEW d \in Callers \ {c} PROVE RequestInv(d)'
    <2>1. request'[d] = request[d] /\ ~ Busy(d) /\ ~ Holds(d) /\ dump[d] = None
        BY <1>1, <1>4, NoDumpUnlessSaving DEF Busy
    <2> QED
        BY <1>2, <2>1 DEF RequestInv, Busy, Holds
<1>15. CrewInv'
    BY <1>2, <1>9, <1>7, LenProperties
       DEF IInv, CrewInv, JobIds, Active, OneCrewPerFlow, RunsAreOnRecord, TrailOnDisk, HasSnapshot
<1>16. TrailOnDisk' = TrailOnDisk /\ HasSnapshot' = HasSnapshot
    BY <1>2 DEF TrailOnDisk, HasSnapshot
<1>17. SaveInv'
    BY <1>1, <1>2, <1>3, <1>7, <1>16, NoneIsNoActor, TrailsAreTyped
       DEF IInv, SaveInv, Actors, Saving
<1>18. DiskInv'
    BY <1>2, <1>7, <1>16, TrailsAreTyped DEF IInv, DiskInv, DeletedStaysDeleted
<1> QED
    BY <1>10, <1>11, <1>12, <1>13, <1>14, <1>15, <1>17, <1>18 DEF IInv

\* The submit: the trail in the file is the flow's, so the crew is on record.
LEMMA SubmitKeepsIInv ==
    ASSUME IInv, NEW c \in Callers, Submit(c) PROVE IInv'
<1> DEFINE r == request[c]
           p == PhaseToRun(r.op, r.phase)
           n == Len(approval_trail)
<1>1. UNCHANGED <<status, mirror, qa_rejection_reason, approval_trail, cached, entry, deleted,
                  dump>>
    BY DEF Submit, flow, stored
<1>2. /\ r.pc = "saved" /\ dump[c] = None
      /\ ~ deleted => HasSnapshot /\ TrailOnDisk = approval_trail
      /\ p # 0 => status = Running(p) /\ \A i \in JobIds : ~ Active(i)
    BY NoDumpUnlessSaving DEF Submit, IInv, RequestInv, RunToCome
<1>3. \A d \in Callers \ {c} : ~ Busy(d)
    BY <1>2 DEF IInv, OneAtWork, Busy
<1>4. /\ request' \in [Callers -> Requests] /\ request'[c].pc = "idle" /\ request'[c].op = None
      /\ \A d \in Callers \ {c} : request'[d] = request[d]
      /\ session_lock' \in Callers \cup {None}
      /\ \A d \in Callers \ {c} : session_lock = d => session_lock' = d
    BY ReleaseTakes DEF Submit, IInv
<1>5. p \in 0..3
    BY DEF PhaseToRun, IInv, ServiceTypes, Requests
<1>6. /\ \/ r.op = "create" /\ n = 1
         \/ /\ r.op # "create" /\ n >= 2
            /\ approval_trail[n].action = r.op
            /\ approval_trail[n].phase = r.phase
      /\ \A i \in JobIds : job[i].pc # "none" => i < n
    BY <1>2 DEF IInv, RequestInv, Busy
<1>7. /\ job' \in [JobIds -> Jobs]
      /\ \A i \in JobIds : \/ job'[i] = job[i]
                           \/ /\ i = n /\ p # 0
                              /\ job'[i].pc = "queued" /\ job'[i].phase = p
    BY <1>5 DEF Submit, IInv, ServiceTypes, Jobs, JobPlaces, NoJob
<1> HIDE DEF p, n
<1>8. ServiceTypes'
    BY <1>1, <1>4, <1>7 DEF IInv, ServiceTypes
<1>9. OneAtWork'
    BY <1>1, <1>4 DEF IInv, OneAtWork, Holds, Busy
<1>10. ~ (entry = None /\ ~ deleted) /\ (cached \/ deleted) /\ approval_trail # <<>>
    BY <1>2 DEF IInv, Beginnings
<1>11. Beginnings'
    BY <1>1, <1>10 DEF Beginnings
<1>12. RequestInv(c)'
    BY <1>1, <1>2, <1>4 DEF RequestInv, Busy
<1>13. ASSUME NEW d \in Callers \ {c} PROVE RequestInv(d)'
    <2>1. request'[d] = request[d] /\ ~ Busy(d) /\ TrailOnDisk' = TrailOnDisk
        BY <1>1, <1>3, <1>4 DEF TrailOnDisk, HasSnapshot
    <2> QED
        BY <1>1, <2>1 DEF IInv, RequestInv, Busy
<1>14. \A i \in JobIds : Active(i)' => job'[i].phase \in Phases /\ status' = Running(job'[i].phase)
    BY <1>1, <1>2, <1>5, <1>7 DEF IInv, CrewInv, Active, Phases
<1>15. OneCrewPerFlow'
    BY <1>2, <1>7 DEF IInv, CrewInv, OneCrewPerFlow, Active
<1>16. RunsAreOnRecord'
    <2>1. UNCHANGED <<TrailOnDisk, deleted>>
        BY <1>1 DEF TrailOnDisk, HasSnapshot
    <2>2. ASSUME NEW i \in JobIds, job'[i].pc \in {"queued", "crew"}, ~ deleted'
          PROVE  /\ Len(TrailOnDisk') >= i
                 /\ PhaseToRun(IF i = 1 THEN "create" ELSE TrailOnDisk'[i].action,
                               TrailOnDisk'[i].phase) = job'[i].phase
        <3>1. CASE job'[i] = job[i]
            BY <2>1, <2>2, <3>1 DEF IInv, CrewInv, RunsAreOnRecord
        <3>2. CASE i = n /\ p # 0 /\ job'[i].phase = p
            <4>1. TrailOnDisk' = approval_trail /\ n \in Nat
                BY <1>2, <2>1, <2>2, TrailsAreTyped, LenProperties DEF n
            <4>2. PhaseToRun(IF i = 1 THEN "create" ELSE r.op, approval_trail[i].phase) = p
                BY <1>6, <3>2 DEF p, PhaseToRun
            <4> QED
                BY <1>6, <3>2, <4>1, <4>2 DEF n
        <3> QED
            BY <1>7, <3>1, <3>2
    <2> QED
        BY <2>2 DEF RunsAreOnRecord
<1>17. CrewInv'
    <2>1. \A i \in JobIds : job'[i].pc # "none" => i <= Len(approval_trail')
        BY <1>1, <1>7, TrailsAreTyped, LenProperties DEF IInv, CrewInv, n
    <2> QED
        BY <2>1, <1>14, <1>15, <1>16 DEF CrewInv
<1>18. SaveInv'
    <2>1. ASSUME NEW a \in Actors, dump[a] # None
          PROVE  Saving(a)'
        <3>1. Saving(a) /\ a # c
            BY <1>2, <2>1 DEF IInv, SaveInv
        <3>2. CASE a \in Callers
            BY <1>4, <3>1, <3>2 DEF Saving
        <3>3. CASE a \in JobIds /\ a \notin Callers
            <4>1. a # n
                BY <1>6, <3>1, <3>3, TrailsAreTyped, LenProperties DEF Saving, n
            <4> QED
                BY <1>7, <3>1, <3>3, <4>1 DEF Saving
        <3> QED
            BY <3>2, <3>3 DEF Actors
    <2> QED
        BY <1>1, <2>1 DEF IInv, SaveInv, TrailOnDisk, HasSnapshot
<1>19. DiskInv'
    BY <1>1 DEF IInv, DiskInv, DeletedStaysDeleted, TrailOnDisk, HasSnapshot
<1> QED
    BY <1>8, <1>9, <1>11, <1>12, <1>13, <1>17, <1>18, <1>19 DEF IInv

---------------------------------------------------------------------------
\* At first there is nothing.
LEMMA InitIInv == Init => IInv
<1> SUFFICES ASSUME Init PROVE IInv
    OBVIOUS
<1>1. Idle \in Requests /\ Idle.pc = "idle"
    BY DEF Idle, Requests, RequestPlaces
<1>2. NoJob \in Jobs /\ NoJob.pc = "none"
    BY DEF NoJob, Jobs, JobPlaces
<1>3. ServiceTypes
    BY <1>1, <1>2, EmptySeq DEF Init, NoFlow, NothingRuns, ServiceTypes, Statuses, Reasons
<1>4. AtRest /\ \A c \in Callers : request[c].pc = "idle" /\ dump[c] = None
    BY <1>1, <1>2, NoneIsNoActor DEF Init, NothingRuns, AtRest
<1> QED
    BY <1>3, <1>4 DEF Init, NoFlow, IInv, OneAtWork, Holds, Busy, Beginnings, RequestInv, CrewInv,
        Active, OneCrewPerFlow, RunsAreOnRecord, SaveInv, AtRest, DiskInv, DeletedStaysDeleted,
        HasSnapshot

\* Only a session nobody has seen is created.
LEMMA CreateKeepsIInv ==
    ASSUME IInv, NEW c \in Callers, Create(c) PROVE IInv'
<1> DEFINE e == TrailEntry("audit_created", 0, None, None)
<1>1. /\ status' = Running(1) /\ mirror' = Running(1) /\ cached'
      /\ approval_trail' = <<e>>
      /\ UNCHANGED <<qa_rejection_reason, entry, deleted, session_lock, job, dump>>
      /\ entry = None /\ ~ deleted
    BY DEF Create, stored
<1>2. /\ request' \in [Callers -> Requests]
      /\ request'[c].pc = "register" /\ request'[c].op = "create" /\ request'[c].phase = 0
      /\ \A d \in Callers \ {c} : request'[d] = request[d]
    <2>1. Idle \in Requests /\ Idle.phase = 0
        BY DEF Idle, Requests, RequestPlaces
    <2> QED
        BY <2>1 DEF Create, IInv, ServiceTypes, Requests, RequestPlaces, Ops
<1>3. e \in TrailEntries
    BY DEF TrailEntry, TrailEntries, Reasons
<1> HIDE DEF e
<1>4. approval_trail' \in Seq(TrailEntries) /\ Len(approval_trail') = 1 /\ approval_trail' # <<>>
    BY <1>1, <1>3
<1>5. AtRest /\ \A d \in Callers \ {c} : request[d].pc = "idle"
    BY <1>1 DEF Create, IInv, Beginnings
<1>6. AtRest'
    BY <1>1, <1>5 DEF AtRest
<1>7. Running(1) \in Statuses
    BY DEF Statuses, Phases
<1>8. ServiceTypes'
    BY <1>1, <1>2, <1>4, <1>7 DEF IInv, ServiceTypes
<1>9. OneAtWork'
    BY <1>2, <1>5 DEF OneAtWork, Holds, Busy
<1>10. Beginnings'
    BY <1>1, <1>2, <1>4, <1>5, <1>6 DEF Beginnings
<1>11. RequestInv(c)'
    BY <1>1, <1>2, <1>4, <1>6, NoneIsNoActor
       DEF RequestInv, Busy, RunToCome, PhaseToRun, AtRest, Active
<1>12. ASSUME NEW d \in Callers \ {c} PROVE RequestInv(d)'
    BY <1>2, <1>5, <1>6, NoneIsNoActor DEF RequestInv, Busy, AtRest
<1>13. CrewInv'
    BY <1>6 DEF CrewInv, AtRest, Active, OneCrewPerFlow, RunsAreOnRecord
<1>14. SaveInv'
    BY <1>6 DEF SaveInv, AtRest
<1>15. DiskInv'
    BY <1>1, <1>4, EmptyIsPrefix DEF DiskInv, DeletedStaysDeleted, TrailOnDisk, HasSnapshot
<1> QED
    BY <1>8, <1>9, <1>10, <1>11, <1>12, <1>13, <1>14, <1>15 DEF IInv

\* The session's entry comes before its snapshot.
LEMMA RegisterKeepsIInv ==
    ASSUME IInv, NEW c \in Callers, Register(c) PROVE IInv'
<1>1. /\ UNCHANGED <<status, mirror, qa_rejection_reason, approval_trail, cached, deleted,
                     session_lock, job, dump>>
      /\ entry' = [snapshot |-> None]
    BY DEF Register, flow
<1>2. /\ request' \in [Callers -> Requests]
      /\ request'[c].pc = "saving" /\ request'[c].op = request[c].op
      /\ request'[c].phase = request[c].phase
      /\ \A d \in Callers \ {c} : request'[d] = request[d]
    BY StepTakes DEF Register, IInv, RequestPlaces
<1>3. /\ request[c].pc = "register" /\ request[c].op = "create" /\ entry = None /\ ~ deleted
      /\ Len(approval_trail) = 1 /\ cached /\ approval_trail # <<>>
    BY DEF Register, IInv, RequestInv, Busy, Beginnings
<1>4. AtRest /\ AtRest' /\ \A d \in Callers \ {c} : request[d].pc = "idle"
    BY <1>1, <1>3 DEF IInv, Beginnings, AtRest, OneAtWork, Busy
<1>5. entry' \in Entries /\ entry' # None /\ ~ HasSnapshot' /\ TrailOnDisk' = <<>>
    BY <1>1, ServiceAssumption DEF Entries, HasSnapshot, TrailOnDisk
<1>6. ServiceTypes'
    BY <1>1, <1>2, <1>5 DEF IInv, ServiceTypes
<1>7. OneAtWork'
    BY <1>2, <1>3, <1>4 DEF OneAtWork, Holds, Busy
<1>8. Beginnings'
    BY <1>1, <1>3, <1>5 DEF Beginnings
<1>9. RequestInv(c)'
    BY <1>1, <1>2, <1>3, <1>4, NoneIsNoActor
       DEF IInv, RequestInv, Busy, RunToCome, AtRest, Active
<1>10. ASSUME NEW d \in Callers \ {c} PROVE RequestInv(d)'
    BY <1>2, <1>4, NoneIsNoActor DEF RequestInv, Busy, AtRest
<1>11. CrewInv'
    BY <1>4 DEF CrewInv, AtRest, Active, OneCrewPerFlow, RunsAreOnRecord
<1>12. SaveInv'
    BY <1>4 DEF SaveInv, AtRest
<1>13. DiskInv'
    BY <1>1, <1>3, <1>5, EmptyIsPrefix, TrailsAreTyped DEF DiskInv, DeletedStaysDeleted
<1> QED
    BY <1>6, <1>7, <1>8, <1>9, <1>10, <1>11, <1>12, <1>13 DEF IInv

\* A flow is loaded only when nothing is left of the one before.
LEMMA LoadKeepsIInv ==
    ASSUME IInv, NEW c \in Callers, Load(c) PROVE IInv'
<1>1. /\ UNCHANGED <<entry, deleted, session_lock, job, dump>>
      /\ cached' /\ HasSnapshot /\ ~ cached /\ request[c].pc = "locked" /\ session_lock = c
      /\ approval_trail' = TrailOnDisk
    BY DEF Load, stored, IInv, OneAtWork, Holds, TrailOnDisk
<1>2. /\ request' \in [Callers -> Requests] /\ request'[c].pc = "found"
      /\ \A d \in Callers \ {c} : request'[d] = request[d]
    BY StepTakes DEF Load, IInv, RequestPlaces
<1>3. ~ deleted /\ TrailOnDisk # <<>> /\ entry # None
    BY <1>1 DEF IInv, DiskInv, DeletedStaysDeleted, HasSnapshot
<1>4. AtRest /\ AtRest' /\ \A d \in Callers : ~ Busy(d) /\ (request[d].pc = "deleting" => d = c)
    BY <1>1, <1>3 DEF IInv, Beginnings, AtRest, Busy, OneAtWork, Holds
<1>5. entry.snapshot \in Snapshots
    BY <1>1 DEF HasSnapshot, IInv, ServiceTypes, Entries
<1>6. ServiceTypes'
    BY <1>1, <1>2, <1>5 DEF Load, IInv, ServiceTypes, Snapshots, Reasons
<1>7. OneAtWork'
    BY <1>1, <1>2, <1>4 DEF IInv, OneAtWork, Holds, Busy
<1>8. Beginnings'
    BY <1>1, <1>3 DEF Beginnings
<1>9. ASSUME NEW d \in Callers PROVE RequestInv(d)'
    BY <1>1, <1>2, <1>4, <1>9, NoneIsNoActor DEF RequestInv, Busy, AtRest
<1>10. CrewInv'
    BY <1>4 DEF CrewInv, AtRest, Active, OneCrewPerFlow, RunsAreOnRecord
<1>11. SaveInv'
    BY <1>4 DEF SaveInv, AtRest
<1>12. TrailOnDisk' = TrailOnDisk /\ HasSnapshot' = HasSnapshot
    BY <1>1 DEF TrailOnDisk, HasSnapshot
<1>13. DiskInv'
    BY <1>1, <1>3, <1>12, PrefixOfItself, TrailsAreTyped DEF DiskInv, DeletedStaysDeleted
<1> QED
    BY <1>6, <1>7, <1>8, <1>9, <1>10, <1>11, <1>13 DEF IInv

(* The entry is taken out of the file, and the flow stays or goes.         *)
LEMMA RemovalKeepsIInv ==
    ASSUME IInv, NEW c \in Callers, request[c].pc = "deleting", Release(c),
           entry' = None, deleted' = TRUE, cached' \in BOOLEAN, cached' => cached,
           UNCHANGED <<flow, job, dump>>
    PROVE  IInv'
<1>1. UNCHANGED <<status, mirror, qa_rejection_reason, approval_trail, job, dump>>
    BY DEF flow
<1>2. /\ request' \in [Callers -> Requests] /\ request'[c].pc = "idle"
      /\ \A d \in Callers \ {c} : request'[d] = request[d]
      /\ session_lock' \in Callers \cup {None}
      /\ \A d \in Callers \ {c} : session_lock = d => session_lock' = d
    BY ReleaseTakes DEF IInv
<1>3. \A d \in Callers \ {c} : ~ Holds(d) /\ dump[c] = None
    BY NoDumpUnlessSaving DEF IInv, OneAtWork, Holds
<1>4. ~ HasSnapshot' /\ TrailOnDisk' = <<>> /\ cached' \in BOOLEAN
    BY DEF HasSnapshot, TrailOnDisk, IInv, ServiceTypes
<1>5. ServiceTypes'
    BY <1>1, <1>2, <1>4 DEF IInv, ServiceTypes
<1>6. OneAtWork'
    BY <1>2 DEF IInv, OneAtWork, Holds, Busy
<1>7. Beginnings'
    BY <1>1, <1>2 DEF IInv, Beginnings
<1>8. RequestInv(c)'
    BY <1>1, <1>2, <1>3 DEF RequestInv, Busy
<1>9. ASSUME NEW d \in Callers \ {c} PROVE RequestInv(d)'
    <2>1. request[d].pc # "deleting"
        BY <1>3 DEF Holds
    <2>2. request[d].pc # "register"
        BY DEF IInv, RequestInv, Beginnings, OneAtWork, Busy
    <2> QED
        BY <1>1, <1>2, <2>1, <2>2 DEF IInv, RequestInv, Busy, RunToCome, Active
<1>10. CrewInv'
    BY <1>1 DEF IInv, CrewInv, Active, OneCrewPerFlow, RunsAreOnRecord
<1>11. SaveInv'
    BY <1>1, <1>2, <1>3, NoneIsNoActor DEF IInv, SaveInv, Actors, Saving
<1>12. DiskInv'
    BY <1>1, <1>4, EmptyIsPrefix, TrailsAreTyped DEF DiskInv, DeletedStaysDeleted
<1> QED
    BY <1>5, <1>6, <1>7, <1>8, <1>9, <1>10, <1>11, <1>12 DEF IInv

\* The entry is removed: nothing brings it back.
LEMMA RemoveSessionKeepsIInv ==
    ASSUME IInv, NEW c \in Callers, RemoveSession(c) \/ RemoveHalfway(c) PROVE IInv'
<1>1. CASE RemoveSession(c)
    BY <1>1, RemovalKeepsIInv DEF RemoveSession
<1>2. CASE RemoveHalfway(c)
    BY <1>2, RemovalKeepsIInv DEF RemoveHalfway, IInv, ServiceTypes
<1> QED
    BY <1>1, <1>2

---------------------------------------------------------------------------
\* The job's steps; no other job is moved.
LEMMA JobStepTakes ==
    ASSUME IInv, NEW i \in JobIds
    PROVE  /\ \A pc \in JobPlaces : JobStep(i, pc) =>
                /\ job' \in [JobIds -> Jobs]
                /\ job'[i].pc = pc /\ job'[i].phase = job[i].phase
                /\ job'[i].seen = job[i].seen
                /\ \A j \in JobIds \ {i} : job'[j] = job[j]
           /\ JobEnds(i) =>
                /\ job' \in [JobIds -> Jobs]
                /\ job'[i].pc = "done"
                /\ \A j \in JobIds \ {i} : job'[j] = job[j]
<1>1. NoJob \in Jobs /\ NoJob.pc = "none"
    BY DEF NoJob, Jobs, JobPlaces
<1> QED
    BY <1>1 DEF IInv, ServiceTypes, JobStep, JobEnds, Jobs, JobPlaces

(* A step of a job that leaves the machine, the trail and the file alone.  *)
LEMMA WorkKeepsIInv ==
    ASSUME IInv, NEW i \in JobIds,
           UNCHANGED <<status, approval_trail, cached, stored, request, session_lock, dump>>,
           mirror' \in Statuses, qa_rejection_reason' \in Reasons,
           job' \in [JobIds -> Jobs],
           \A j \in JobIds \ {i} : job'[j] = job[j],
           job[i].pc \notin {"none", "saving"},
           job'[i].pc = "read" => job'[i].seen \in Statuses,
           Active(i)' => Active(i) /\ job'[i].phase = job[i].phase
    PROVE  IInv'
<1>1. UNCHANGED <<entry, deleted, HasSnapshot, TrailOnDisk>>
    BY DEF stored, HasSnapshot, TrailOnDisk
<1>2. ServiceTypes'
    BY <1>1 DEF IInv, ServiceTypes
<1>3. OneAtWork'
    BY DEF IInv, OneAtWork, Holds, Busy
<1>4. ~ AtRest
    BY DEF AtRest
<1>5. Beginnings'
    BY <1>1, <1>4 DEF IInv, Beginnings
<1>6. \A j \in JobIds : job'[j].pc # "none" => job[j].pc # "none"
    OBVIOUS
<1>7. \A j \in JobIds : Active(j)' => Active(j) /\ job'[j].phase = job[j].phase
    BY DEF Active
<1>8. ASSUME NEW c \in Callers PROVE RequestInv(c)'
    BY <1>1, <1>6, <1>7, <1>8 DEF IInv, RequestInv, Busy, RunToCome
<1>9. CrewInv'
    BY <1>1, <1>6, <1>7 DEF IInv, CrewInv, Active, OneCrewPerFlow, RunsAreOnRecord
<1>10. SaveInv'
    BY <1>1, NoneIsNoActor DEF IInv, SaveInv, Actors, Saving
<1>11. DiskInv'
    BY <1>1 DEF IInv, DiskInv, DeletedStaysDeleted
<1> QED
    BY <1>2, <1>3, <1>5, <1>8, <1>9, <1>10, <1>11 DEF IInv

\* A worker takes a job up: what was submitted is on file by then.
LEMMA StartJobKeepsIInv ==
    ASSUME IInv, NEW i \in JobIds, StartJob(i) PROVE IInv'
    BY JobStepTakes, WorkKeepsIInv DEF StartJob, IInv, ServiceTypes, Reasons, JobPlaces, Active

\* A job that ends by an exception before the machine moved.
LEMMA JobFailsKeepsIInv ==
    ASSUME IInv, NEW i \in JobIds, JobFails(i) PROVE IInv'
    BY JobStepTakes, WorkKeepsIInv DEF JobFails, flow, IInv, ServiceTypes, Active

\* _commit_status, first half: only the job itself knows what it read.
LEMMA ReadMachineKeepsIInv ==
    ASSUME IInv, NEW i \in JobIds, ReadMachine(i) PROVE IInv'
<1>1. /\ job' \in [JobIds -> Jobs]
      /\ job'[i].pc = "read" /\ job'[i].seen = status /\ status \in Statuses
      /\ \A j \in JobIds \ {i} : job'[j] = job[j]
    BY DEF ReadMachine, IInv, ServiceTypes, Jobs, JobPlaces
<1> QED
    BY <1>1, WorkKeepsIInv DEF ReadMachine, flow, IInv, ServiceTypes, Active

\* _commit_status, second half.
LEMMA WriteMirrorKeepsIInv ==
    ASSUME IInv, NEW i \in JobIds, WriteMirror(i) PROVE IInv'
<1>1. /\ job' \in [JobIds -> Jobs]
      /\ job'[i].pc \in {"saving", "mirrored"}
      /\ \A j \in JobIds \ {i} : job'[j] = job[j]
    BY JobStepTakes DEF WriteMirror, JobPlaces
<1> QED
    BY <1>1, WorkKeepsIInv DEF WriteMirror, IInv, ServiceTypes, Active

\* The reason of a rejection is written, and a save comes next.
LEMMA WriteReasonKeepsIInv ==
    ASSUME IInv, NEW i \in JobIds, WriteReason(i) PROVE IInv'
    BY JobStepTakes, WorkKeepsIInv DEF WriteReason, IInv, ServiceTypes, Reasons, JobPlaces, Active

\* The end of a crew run takes the machine out of the phase: no crew is left.
LEMMA CrewEndsKeepsIInv ==
    ASSUME IInv, NEW i \in JobIds, NEW p \in Phases,
           NEW outcome \in {Gate(p), QARejected(p), Error(p)}, CrewEnds(i, outcome)
    PROVE  IInv'
<1>1. UNCHANGED <<mirror, qa_rejection_reason, approval_trail, cached, entry, deleted, request,
                  session_lock, dump, HasSnapshot, TrailOnDisk>>
    BY DEF CrewEnds, stored, HasSnapshot, TrailOnDisk
<1>2. status' = outcome /\ outcome \in Statuses
    BY DEF CrewEnds, Transition, Statuses
<1>3. /\ job' \in [JobIds -> Jobs] /\ job'[i].pc = "moved"
      /\ \A j \in JobIds \ {i} : job'[j] = job[j]
    BY <1>2 DEF CrewEnds, IInv, ServiceTypes, Jobs, JobPlaces
<1>4. Active(i) /\ job[i].phase \in Phases /\ status = Running(job[i].phase)
    BY DEF CrewEnds, IInv, CrewInv, Active
<1>5. \A j \in JobIds : ~ Active(j)'
    BY <1>3, <1>4 DEF IInv, CrewInv, OneCrewPerFlow, Active
<1>6. ServiceTypes'
    BY <1>1, <1>2, <1>3 DEF IInv, ServiceTypes
<1>7. OneAtWork'
    BY <1>1 DEF IInv, OneAtWork, Holds, Busy
<1>8. ~ AtRest
    BY <1>4 DEF AtRest, Active
<1>9. Beginnings'
    BY <1>1, <1>8 DEF IInv, Beginnings
<1>10. ASSUME NEW c \in Callers PROVE RequestInv(c)'
    <2>1. request[c].pc # "move"
        BY <1>4, RunningIsNoSource DEF IInv, RequestInv
    <2>2. \A j \in JobIds : job'[j].pc # "none" => job[j].pc # "none"
        BY <1>3, <1>4 DEF Active
    <2> QED
        BY <1>1, <1>4, <2>1, <2>2 DEF IInv, RequestInv, Busy, RunToCome
<1>11. CrewInv'
    <2>1. \A j \in JobIds : job'[j].pc # "none" => j <= Len(approval_trail')
        BY <1>1, <1>3, <1>4 DEF IInv, CrewInv, Active
    <2> QED
        BY <1>5, <2>1 DEF CrewInv, OneCrewPerFlow, RunsAreOnRecord, Active
<1>12. SaveInv'
    BY <1>1, <1>3, <1>4, NoneIsNoActor DEF IInv, SaveInv, Actors, Saving, Active
<1>13. DiskInv'
    BY <1>1 DEF IInv, DiskInv, DeletedStaysDeleted
<1> QED
    BY <1>6, <1>7, <1>9, <1>10, <1>11, <1>12, <1>13 DEF IInv

---------------------------------------------------------------------------
(* Who saves has a flow with a trail, and it is in the cache unless the    *)
(* session was deleted.                                                    *)
LEMMA SaverHasFlow ==
    ASSUME IInv, NEW a \in Actors, Saving(a)
    PROVE  /\ approval_trail # <<>>
           /\ entry = None => deleted
           /\ ~ cached => deleted
<1>1. CASE a \in Callers
    BY <1>1 DEF Saving, IInv, Beginnings
<1>2. CASE a \in JobIds /\ a \notin Callers
    <2>1. job[a].pc = "saving" /\ a <= Len(approval_trail)
        BY <1>2 DEF Saving, IInv, CrewInv
    <2>2. approval_trail # <<>>
        BY <1>2, <2>1, EmptySeq DEF JobIds
    <2> QED
        BY <1>2, <2>1, <2>2 DEF IInv, Beginnings, AtRest
<1> QED
    BY <1>1, <1>2 DEF Actors

\* The snapshot is the flow as it is under _SAVE_LOCK.
LEMMA BeginSaveKeepsIInv ==
    ASSUME IInv, NEW a \in Actors, BeginSave(a) PROVE IInv'
<1>1. /\ UNCHANGED <<status, mirror, qa_rejection_reason, approval_trail, cached, entry, deleted,
                     request, session_lock, job, HasSnapshot, TrailOnDisk>>
      /\ Saving(a) /\ Saving(a)'
      /\ \A b \in Actors : dump[b] = None
    BY DEF BeginSave, flow, stored, HasSnapshot, TrailOnDisk, Saving
<1>2. /\ dump' \in [Actors -> Snapshots \cup {None}]
      /\ dump'[a].trail = approval_trail
      /\ \A b \in Actors \ {a} : dump'[b] = None
    BY <1>1 DEF BeginSave, Snapshot, Snapshots, IInv, ServiceTypes, Reasons
<1>3. approval_trail # <<>> /\ (entry = None => deleted) /\ (~ cached => deleted)
    BY <1>1, SaverHasFlow
<1>4. ServiceTypes'
    BY <1>1, <1>2 DEF IInv, ServiceTypes
<1>5. OneAtWork'
    BY <1>1 DEF IInv, OneAtWork, Holds, Busy
<1>6. Beginnings'
    BY <1>1, <1>3 DEF Beginnings
<1>7. ASSUME NEW c \in Callers PROVE RequestInv(c)'
    BY <1>1, <1>2, <1>7, NoneIsNoActor DEF IInv, RequestInv, Busy, RunToCome, Active
<1>8. CrewInv'
    BY <1>1 DEF IInv, CrewInv, Active, OneCrewPerFlow, RunsAreOnRecord
<1>9. /\ IsPrefix(approval_trail, approval_trail)
      /\ ~ deleted => IsPrefix(TrailOnDisk, approval_trail)
    BY <1>3, TrailsAreTyped, PrefixOfItself DEF IInv, DiskInv
<1>10. SaveInv'
    BY <1>1, <1>2, <1>3, <1>9 DEF SaveInv
<1>11. DiskInv'
    BY <1>1 DEF IInv, DiskInv, DeletedStaysDeleted
<1> QED
    BY <1>4, <1>5, <1>6, <1>7, <1>8, <1>10, <1>11 DEF IInv

(* The save: the file takes the snapshot, a caller goes on, a job ends.    *)
LEMMA EndSaveKeepsIInv ==
    ASSUME IInv, NEW a \in Actors, EndSave(a) PROVE IInv'
<1>1. /\ UNCHANGED <<status, mirror, qa_rejection_reason, approval_trail, cached, deleted,
                     session_lock>>
      /\ dump[a] # None /\ Saving(a)
      /\ dump' \in [Actors -> Snapshots \cup {None}]
      /\ \A b \in Actors : dump'[b] = None
    BY DEF EndSave, flow, IInv, ServiceTypes, SaveInv
<1>2. approval_trail # <<>> /\ (entry = None => deleted) /\ (~ cached => deleted)
    BY <1>1, SaverHasFlow
<1>3. dump[a] \in Snapshots /\ dump[a].trail \in Seq(TrailEntries)
    BY <1>1, TrailsAreTyped DEF IInv, ServiceTypes
<1>4. /\ deleted => entry' = None /\ ~ HasSnapshot' /\ TrailOnDisk' = <<>>
      /\ ~ deleted => /\ entry' \in Entries /\ entry' # None /\ HasSnapshot'
                      /\ TrailOnDisk' = dump[a].trail /\ TrailOnDisk' # <<>>
                      /\ IsPrefix(TrailOnDisk', approval_trail)
                      /\ IsPrefix(TrailOnDisk, TrailOnDisk')
    <2>1. CASE deleted
        BY <2>1 DEF EndSave, IInv, DiskInv, DeletedStaysDeleted, HasSnapshot, TrailOnDisk
    <2>2. CASE ~ deleted
        <3>1. entry' = [snapshot |-> dump[a]] /\ entry' \in Entries /\ entry' # None
            BY <1>2, <1>3, <2>2, ServiceAssumption DEF EndSave, Entries
        <3>2. HasSnapshot' /\ TrailOnDisk' = dump[a].trail
            BY <1>1, <3>1 DEF HasSnapshot, TrailOnDisk
        <3> QED
            BY <1>1, <2>2, <3>1, <3>2 DEF IInv, SaveInv
    <2> QED
        BY <2>1, <2>2
<1>5. /\ request' \in [Callers -> Requests]
      /\ \A c \in Callers \ {a} : request'[c] = request[c]
      /\ a \in Callers => /\ request[a].pc = "saving" /\ request'[a].pc = "saved"
                          /\ request'[a].op = request[a].op
                          /\ request'[a].phase = request[a].phase
      /\ job' \in [JobIds -> Jobs]
      /\ \A i \in JobIds : job'[i] = job[i] \/ (job[i].pc = "saving" /\ job'[i].pc = "done")
    <2>1. CASE a \in Callers
        <3>1. Step(a, "saved") /\ job' = job
            BY <2>1, NoneIsNoActor DEF EndSave
        <3> QED
            BY <1>1, <2>1, <3>1, StepTakes DEF IInv, ServiceTypes, RequestPlaces, Saving
    <2>2. CASE a \in JobIds /\ a \notin Callers
        <3>1. JobEnds(a) /\ request' = request
            BY <2>2 DEF EndSave
        <3> QED
            BY <1>1, <2>2, <3>1, JobStepTakes DEF IInv, ServiceTypes, Saving
    <2> QED
        BY <2>1, <2>2 DEF Actors
<1>6. ServiceTypes'
    BY <1>1, <1>4, <1>5 DEF IInv, ServiceTypes
<1>7. OneAtWork'
    BY <1>1, <1>5 DEF IInv, OneAtWork, Holds, Busy
<1>8. Beginnings'
    BY <1>1, <1>2, <1>4 DEF Beginnings
<1>9. \A i \in JobIds : /\ Active(i)' => Active(i) /\ job'[i] = job[i]
                        /\ job'[i].pc # "none" => job[i].pc # "none"
    BY <1>5 DEF Active
<1>10. ASSUME NEW c \in Callers PROVE RequestInv(c)'
    <2>1. request'[c].pc = "saved" /\ ~ deleted => HasSnapshot' /\ TrailOnDisk' = approval_trail
        <3>1. CASE c = a
            BY <1>1, <1>4, <3>1 DEF IInv, RequestInv
        <3>2. CASE c # a
            <4>1. ASSUME request[c].pc = "saved", ~ deleted
                  PROVE  TrailOnDisk' = approval_trail
                BY <1>4, <4>1, TrailsAreTyped, <1>3, PrefixBothWays DEF IInv, RequestInv
            <4> QED
                BY <1>4, <1>5, <3>2, <4>1
        <3> QED
            BY <3>1, <3>2
    <2>2. request'[c].pc = "deleting" => ~ GateApproved(TrailOnDisk')
        <3>1. CASE deleted
            BY <1>4, <3>1 DEF GateApproved
        <3>2. CASE ~ deleted
            BY <1>1, <1>2, <1>3, <1>4, <1>5, <3>2, TrailsAreTyped, ApprovalsOfPrefix
               DEF IInv, RequestInv
        <3> QED
            BY <3>1, <3>2
    <2>3. request[c].pc # "register"
        BY <1>2 DEF IInv, RequestInv
    <2>4. \/ request'[c] = request[c]
          \/ /\ request[c].pc = "saving" /\ request'[c].pc = "saved"
             /\ request'[c].op = request[c].op /\ request'[c].phase = request[c].phase
        BY <1>5
    <2> QED
        BY <1>1, <1>9, <2>1, <2>2, <2>3, <2>4, NoneIsNoActor
           DEF IInv, RequestInv, Busy, RunToCome
<1>11. CrewInv'
    <2>1. RunsAreOnRecord'
        <3>1. ASSUME NEW i \in JobIds, Active(i)', ~ deleted
              PROVE  /\ Len(TrailOnDisk') >= i
                     /\ PhaseToRun(IF i = 1 THEN "create" ELSE TrailOnDisk'[i].action,
                                   TrailOnDisk'[i].phase) = job'[i].phase
            <4>1. /\ Len(TrailOnDisk) >= i
                  /\ PhaseToRun(IF i = 1 THEN "create" ELSE TrailOnDisk[i].action,
                                TrailOnDisk[i].phase) = job'[i].phase
                BY <1>9, <3>1 DEF IInv, CrewInv, RunsAreOnRecord, Active
            <4>2. Len(TrailOnDisk') >= Len(TrailOnDisk)
                  /\ \A k \in 1..Len(TrailOnDisk) : TrailOnDisk'[k] = TrailOnDisk[k]
                BY <1>3, <1>4, <3>1, TrailsAreTyped, PrefixIsElementwise
            <4>3. i \in 1..Len(TrailOnDisk) /\ Len(TrailOnDisk') \in Nat /\ Len(TrailOnDisk) \in Nat
                BY <1>3, <1>4, <3>1, <4>1, TrailsAreTyped, LenProperties DEF JobIds
            <4> QED
                BY <4>1, <4>2, <4>3
        <3> QED
            BY <1>1, <3>1 DEF RunsAreOnRecord, Active
    <2> QED
        BY <1>1, <1>9, <2>1 DEF IInv, CrewInv, Active, OneCrewPerFlow
<1>12. SaveInv'
    BY <1>1 DEF SaveInv
<1>13. DiskInv'
    BY <1>1, <1>4, EmptyIsPrefix, TrailsAreTyped DEF DiskInv, DeletedStaysDeleted
<1> QED
    BY <1>6, <1>7, <1>8, <1>10, <1>11, <1>12, <1>13 DEF IInv

\* A save that fails leaves the flow ahead of the file.
LEMMA FailSaveKeepsIInv ==
    ASSUME IInv, NEW a \in Actors, FailSave(a) PROVE IInv'
<1>1. /\ UNCHANGED <<status, mirror, qa_rejection_reason, approval_trail, cached, entry, deleted,
                     HasSnapshot, TrailOnDisk>>
      /\ dump[a] # None /\ Saving(a)
      /\ dump' \in [Actors -> Snapshots \cup {None}]
      /\ \A b \in Actors : dump'[b] = None
    BY DEF FailSave, flow, stored, IInv, ServiceTypes, SaveInv, HasSnapshot, TrailOnDisk
<1>2. approval_trail # <<>> /\ (entry = None => deleted) /\ (~ cached => deleted)
    BY <1>1, SaverHasFlow
<1>3. /\ request' \in [Callers -> Requests]
      /\ \A c \in Callers : request'[c] = request[c] \/ request'[c].pc = "idle"
      /\ session_lock' \in Callers \cup {None}
      /\ \A c \in Callers \ {a} : session_lock = c => session_lock' = c
      /\ a \in Callers => request'[a].pc = "idle"
      /\ job' \in [JobIds -> Jobs]
      /\ \A i \in JobIds : job'[i] = job[i] \/ (job[i].pc = "saving" /\ job'[i].pc = "done")
    <2>1. CASE a \in Callers
        <3>1. Release(a) /\ job' = job
            BY <2>1, NoneIsNoActor DEF FailSave
        <3> QED
            BY <1>1, <2>1, <3>1, ReleaseTakes DEF IInv, ServiceTypes
    <2>2. CASE a \in JobIds /\ a \notin Callers
        <3>1. JobEnds(a) /\ request' = request /\ session_lock' = session_lock
            BY <2>2 DEF FailSave
        <3> QED
            BY <1>1, <2>2, <3>1, JobStepTakes DEF IInv, ServiceTypes, Saving
    <2> QED
        BY <2>1, <2>2 DEF Actors
<1>4. ServiceTypes'
    BY <1>1, <1>3 DEF IInv, ServiceTypes
<1>5. OneAtWork'
    BY <1>1, <1>3 DEF IInv, OneAtWork, Holds, Busy
<1>6. Beginnings'
    BY <1>1, <1>2 DEF Beginnings
<1>7. \A i \in JobIds : /\ Active(i)' => Active(i) /\ job'[i] = job[i]
                        /\ job'[i].pc # "none" => job[i].pc # "none"
    BY <1>3 DEF Active
<1>8. ASSUME NEW c \in Callers PROVE RequestInv(c)'
    <2>1. CASE request'[c] = request[c]
        BY <1>1, <1>7, <2>1, NoneIsNoActor DEF IInv, RequestInv, Busy, RunToCome
    <2>2. CASE request'[c].pc = "idle"
        BY <1>1, <2>2, NoneIsNoActor DEF RequestInv, Busy
    <2> QED
        BY <1>3, <2>1, <2>2
<1>9. CrewInv'
    BY <1>1, <1>7 DEF IInv, CrewInv, Active, OneCrewPerFlow, RunsAreOnRecord
<1>10. SaveInv'
    BY <1>1 DEF SaveInv
<1>11. DiskInv'
    BY <1>1 DEF IInv, DiskInv, DeletedStaysDeleted
<1> QED
    BY <1>4, <1>5, <1>6, <1>8, <1>9, <1>10, <1>11 DEF IInv

\* A restart leaves what is in the file.
LEMMA RestartKeepsIInv == IInv /\ Restart => IInv'
<1> SUFFICES ASSUME IInv, Restart PROVE IInv'
    OBVIOUS
<1>1. Idle \in Requests /\ Idle.pc = "idle"
    BY DEF Idle, Requests, RequestPlaces
<1>2. NoJob \in Jobs /\ NoJob.pc = "none"
    BY DEF NoJob, Jobs, JobPlaces
<1>3. UNCHANGED <<entry, deleted, HasSnapshot, TrailOnDisk>>
    BY DEF Restart, stored, HasSnapshot, TrailOnDisk
<1>4. ServiceTypes'
    BY <1>1, <1>2, <1>3, EmptySeq DEF Restart, IInv, ServiceTypes, Statuses, Reasons
<1>5. AtRest' /\ \A c \in Callers : request'[c].pc = "idle" /\ dump'[c] = None
    BY <1>1, <1>2, NoneIsNoActor DEF Restart, AtRest
<1>6. ~ cached'
    BY DEF Restart
<1>7. OneAtWork' /\ Beginnings'
    BY <1>5, <1>6 DEF OneAtWork, Holds, Busy, Beginnings
<1>8. \A c \in Callers : RequestInv(c)'
    BY <1>5 DEF RequestInv, Busy
<1>9. CrewInv' /\ SaveInv'
    BY <1>5 DEF CrewInv, SaveInv, AtRest, Active, OneCrewPerFlow, RunsAreOnRecord
<1>10. DiskInv'
    BY <1>3, <1>6 DEF IInv, DiskInv, DeletedStaysDeleted
<1> QED
    BY <1>4, <1>7, <1>8, <1>9, <1>10 DEF IInv

\* Nothing changes.
LEMMA StutterKeepsIInv == IInv /\ UNCHANGED svars => IInv'
<1> SUFFICES ASSUME IInv, UNCHANGED svars PROVE IInv'
    OBVIOUS
<1>1. UNCHANGED <<status, mirror, qa_rejection_reason, approval_trail, cached, entry, deleted,
                  request, session_lock, job, dump, HasSnapshot, TrailOnDisk>>
    BY DEF svars, flow, stored, HasSnapshot, TrailOnDisk
<1>2. ServiceTypes' /\ OneAtWork' /\ Beginnings'
    BY <1>1 DEF IInv, ServiceTypes, OneAtWork, Holds, Busy, Beginnings, AtRest
<1>3. \A c \in Callers : RequestInv(c)'
    BY <1>1 DEF IInv, RequestInv, Busy, RunToCome, Active
<1>4. CrewInv' /\ SaveInv' /\ DiskInv'
    BY <1>1 DEF IInv, CrewInv, Active, OneCrewPerFlow, RunsAreOnRecord, SaveInv, Saving, DiskInv,
        DeletedStaysDeleted
<1> QED
    BY <1>2, <1>3, <1>4 DEF IInv

\* Every step keeps the invariant.
LEMMA NextKeepsIInv == IInv /\ [Next]_svars => IInv'
<1> SUFFICES ASSUME IInv, [Next]_svars PROVE IInv'
    OBVIOUS
<1>1. CASE UNCHANGED svars
    BY <1>1, StutterKeepsIInv
<1>2. ASSUME NEW c \in Callers, Create(c) \/ Arrive(c)
      PROVE  IInv'
    BY <1>2, CreateKeepsIInv, ArriveKeepsIInv
<1>3. ASSUME NEW c \in Callers, Proceed(c)
      PROVE  IInv'
    <2>1. CASE Accept(c, "review_decision", 0)
        BY <2>1, AcceptKeepsIInv DEF FlowOps
    <2>2. CASE \E op \in FlowOps \ {"review_decision"}, p \in Phases : Accept(c, op, p)
        BY <2>2, AcceptKeepsIInv DEF Phases
    <2> QED
        BY <1>3, <2>1, <2>2, RegisterKeepsIInv, RegisterFailsKeepsIInv, LockKeepsIInv,
           LoadKeepsIInv, RefuseKeepsIInv, MoveKeepsIInv, StampTrailKeepsIInv, SubmitKeepsIInv,
           MayDeleteKeepsIInv, MayNotDeleteKeepsIInv, RemoveSessionKeepsIInv,
           RemoveFailsKeepsIInv
           DEF Proceed
<1>4. ASSUME NEW i \in JobIds, Work(i)
      PROVE  IInv'
    BY <1>4, StartJobKeepsIInv, JobFailsKeepsIInv, CrewEndsKeepsIInv, ReadMachineKeepsIInv,
       WriteMirrorKeepsIInv, WriteReasonKeepsIInv DEF Work
<1>5. ASSUME NEW a \in Actors, Save(a)
      PROVE  IInv'
    BY <1>5, BeginSaveKeepsIInv, EndSaveKeepsIInv, FailSaveKeepsIInv DEF Save
<1> QED
    BY <1>1, <1>2, <1>3, <1>4, <1>5, RestartKeepsIInv DEF Next

---------------------------------------------------------------------------
\* So it always holds.
LEMMA IInvIsInvariant == Spec => []IInv
<1>1. Init => IInv
    BY InitIInv
<1>2. IInv /\ [Next]_svars => IInv'
    BY NextKeepsIInv
<1> QED
    BY <1>1, <1>2, PTL DEF Spec

\* The variables keep their types: a status is one of AuditStatus, a trail is made of
\* entries _stamp_trail and _create_and_launch write, and the file holds snapshots of
\* such states or none.
THEOREM ServiceTypesCorrect == Spec => []ServiceTypes
<1>1. IInv => ServiceTypes
    BY DEF IInv
<1> QED
    BY <1>1, IInvIsInvariant, PTL

\* job_store.py promises that "a double request cannot start two crews on one flow":
\* at most one job is queued or at its crew run, on an orphaned flow too.
THEOREM CrewsRunAlone == Spec => []OneCrewPerFlow
<1>1. IInv => OneCrewPerFlow
    BY DEF IInv, CrewInv
<1> QED
    BY <1>1, IInvIsInvariant, PTL

\* FlowRepository.save: a job that outlives its session does not bring it back.
THEOREM DeletionIsFinal == Spec => []DeletedStaysDeleted
<1>1. IInv => DeletedStaysDeleted
    BY DEF IInv, DiskInv
<1> QED
    BY <1>1, IInvIsInvariant, PTL

\* sessions.py persists the sign-off before any crew runs: while a crew is queued or at
\* work, the approval, retry or return that called for it is in the file.
THEOREM CrewsStartOnRecord == Spec => []RunsAreOnRecord
<1>1. IInv => RunsAreOnRecord
    BY DEF IInv, CrewInv
<1> QED
    BY <1>1, IInvIsInvariant, PTL

(* The entry in the file changes in three ways only.                       *)
LEMMA EntryChanges ==
    ASSUME IInv, [Next]_svars
    PROVE  \/ entry' = entry
           \/ \E c \in Callers : Register(c)
           \/ \E a \in Actors : EndSave(a)
           \/ \E c \in Callers : request[c].pc = "deleting" /\ entry' = None
    BY DEF Next, Proceed, Work, Save, svars, stored, Create, Arrive, RegisterFails, Lock, Load,
       Refuse, Accept, Move, StampTrail, Submit, MayDelete, MayNotDelete, RemoveSession,
       RemoveFails, RemoveHalfway, StartJob, JobFails, CrewEnds, ReadMachine, WriteMirror,
       WriteReason, BeginSave, FailSave, Restart

\* A save of a session that is still there replaces its snapshot by a later one.
LEMMA SaveReplaces ==
    ASSUME IInv, NEW a \in Actors, EndSave(a), entry # None
    PROVE  /\ entry' = [snapshot |-> dump[a]] /\ entry' # None /\ dump[a] # None
           /\ IsPrefix(TrailOnDisk, dump[a].trail)
<1>1. ~ deleted
    BY DEF IInv, DiskInv, DeletedStaysDeleted
<1>2. dump[a] # None /\ dump[a] \in Snapshots /\ entry' = [snapshot |-> dump[a]]
    BY DEF EndSave, IInv, ServiceTypes
<1>3. entry' # None
    BY <1>2, ServiceAssumption DEF Entries
<1> QED
    BY <1>1, <1>2, <1>3 DEF IInv, SaveInv

\* FlowRepository.save: whatever jobs and requests save at the same time, the trail in
\* the file only grows, and is lost only with the session.
THEOREM SavesTakeNothingBack == Spec => TrailOnDiskGrows
<1>1. ASSUME IInv, [Next]_svars, HasSnapshot, entry' # None
      PROVE  entry'.snapshot # None /\ IsPrefix(entry.snapshot.trail, entry'.snapshot.trail)
    <2>1. TrailOnDisk = entry.snapshot.trail /\ entry # None /\ entry.snapshot # None
        BY <1>1 DEF TrailOnDisk, HasSnapshot
    <2>2. CASE entry' = entry
        <3>1. IsPrefix(TrailOnDisk, TrailOnDisk)
            BY <1>1, TrailsAreTyped, PrefixOfItself
        <3> QED
            BY <2>1, <2>2, <3>1
    <2>3. ASSUME NEW c \in Callers, Register(c)
          PROVE  FALSE
        BY <1>1, <2>1, <2>3 DEF IInv, RequestInv, Register
    <2>4. ASSUME NEW a \in Actors, EndSave(a)
          PROVE  entry'.snapshot # None /\ IsPrefix(entry.snapshot.trail, entry'.snapshot.trail)
        BY <1>1, <2>1, <2>4, SaveReplaces
    <2> QED
        BY <1>1, <2>2, <2>3, <2>4, EntryChanges
<1> QED
    BY <1>1, IInvIsInvariant, PTL DEF Spec, TrailOnDiskGrows

\* _has_sign_off: an approval, in memory or in the file, keeps the session from being
\* deleted, also when its save has failed or is still under way.
THEOREM SignedOffSessionsStay == Spec => SignedOffIsKept
<1>1. ASSUME IInv, [Next]_svars, entry # None,
             GateApproved(TrailOnDisk) \/ (cached /\ GateApproved(approval_trail))
      PROVE  entry' # None
    <2>1. ASSUME NEW c \in Callers
          PROVE  request[c].pc # "deleting" /\ ~ Register(c)
        BY <1>1, <2>1 DEF IInv, RequestInv, Register
    <2>2. ASSUME NEW a \in Actors, EndSave(a)
          PROVE  entry' # None
        BY <1>1, <2>2, SaveReplaces
    <2> QED
        BY <1>1, <2>1, <2>2, EntryChanges
<1> QED
    BY <1>1, IInvIsInvariant, PTL DEF Spec, SignedOffIsKept

=============================================================================
