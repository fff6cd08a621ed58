--------------------------- MODULE FailureLimiter ---------------------------
(***************************************************************************)
(* The limiter of invalid reviewer tokens (api/reviewer_tokens.py) under   *)
(* requests from one address.  A request asks it before the token is       *)
(* looked up and tells it of a failure afterwards, and both times it reads *)
(* the clock before it has the limiter's lock.                             *)
(***************************************************************************)
EXTENDS Integers, Sequences, FiniteSets

CONSTANTS Clients,      \* requests at work at the same time
          MaxFailures,  \* max_failures
          Window,       \* window, in ticks of the clock
          MaxTime,      \* bound on the clock
          MaxRecorded   \* bound on the failures

ASSUME FailureLimiterAssumption ==
    /\ IsFiniteSet(Clients) /\ Clients # {}
    /\ MaxFailures \in Nat \ {0} /\ Window \in Nat \ {0}
    /\ MaxTime \in Nat /\ MaxRecorded \in Nat

VARIABLES clock,     \* time.monotonic
          failures,  \* the deque of the address
          client,    \* where each request is, and the time it has read
          recorded   \* history: the times of all failures

limiter_vars == <<clock, failures, client, recorded>>

NoRequest == [pc |-> "idle", now |-> 0]

FailureLimiterInit ==
    /\ clock = 0
    /\ failures = <<>>
    /\ client = [c \in Clients |-> NoRequest]
    /\ recorded = <<>>

Expired(time, now) == now - time >= Window

\* _prune: from the left, up to the first that counts.
Prune(q, now) ==
    LET kept == {i \in DOMAIN q : ~ Expired(q[i], now)}
    IN  IF kept = {} THEN <<>>
        ELSE SubSeq(q, CHOOSE i \in kept : \A j \in kept : i <= j, Len(q))

Tick ==
    /\ clock < MaxTime
    /\ clock' = clock + 1
    /\ UNCHANGED <<failures, client, recorded>>

\* A request with a token reads the clock for retry_after ...
Ask(c) ==
    /\ client[c].pc \in {"idle", "blocked"}
    /\ client' = [client EXCEPT ![c] = [pc |-> "asking", now |-> clock]]
    /\ UNCHANGED <<clock, failures, recorded>>

\* Mutant of Blocked: one failure more than the limit is let through.
BlockedAboveLimit(q) == Len(q) > MaxFailures

Blocked(q) == Len(q) >= MaxFailures

\* ... and is refused (429) or let through.
Answer(c) ==
    /\ client[c].pc = "asking"
    /\ failures' = Prune(failures, client[c].now)
    /\ client' = [client EXCEPT ![c].pc = IF Blocked(failures') THEN "blocked" ELSE "passed"]
    /\ UNCHANGED <<clock, recorded>>

\* Its token is somebody's.
Succeed(c) ==
    /\ client[c].pc = "passed"
    /\ client' = [client EXCEPT ![c] = NoRequest]
    /\ UNCHANGED <<clock, failures, recorded>>

\* Its token is nobody's: record_failure reads the clock ...
Fail(c) ==
    /\ client[c].pc = "passed"
    /\ Len(recorded) < MaxRecorded
    /\ client' = [client EXCEPT ![c] = [pc |-> "failing", now |-> clock]]
    /\ UNCHANGED <<clock, failures, recorded>>

\* ... and enters the failure.
Record(c) ==
    /\ client[c].pc = "failing"
    /\ failures' = Append(Prune(failures, client[c].now), client[c].now)
    /\ recorded' = Append(recorded, client[c].now)
    /\ client' = [client EXCEPT ![c] = NoRequest]
    /\ UNCHANGED clock

FailureLimiterNext ==
    \/ Tick
    \/ \E c \in Clients : Ask(c) \/ Answer(c) \/ Succeed(c) \/ Fail(c) \/ Record(c)

FailureLimiterSpec == FailureLimiterInit /\ [][FailureLimiterNext]_limiter_vars

----------------------------------------------------------------------------
(* However requests interleave, no window holds more failures than the     *)
(* limit and one for each other request that was already let through.      *)
FailuresAreBounded ==
    \A t \in 0..MaxTime :
        Cardinality({i \in DOMAIN recorded : recorded[i] <= t /\ ~ Expired(recorded[i], t)})
            < MaxFailures + Cardinality(Clients)
=============================================================================
