---------------------------- MODULE EventQueues ----------------------------
(***************************************************************************)
(* The event queues of api/job_store.py: job threads push events through   *)
(* the event loop into the queue of their session, which is created on     *)
(* first use by whoever comes first; streams (api/routers/phases.py) take  *)
(* events out; deleting a session drops its queue.  One session, with jobs *)
(* that overlap: a job may still push while the next one starts.           *)
(***************************************************************************)
EXTENDS Integers, Sequences, FiniteSets

CONSTANTS Pushers,    \* threads of jobs
          Streams,    \* open connections
          MaxEvents,  \* bound on the events of a thread
          MaxQueues   \* bound on the queues ever created

ASSUME EventQueuesAssumption == MaxEvents \in Nat /\ MaxQueues \in Nat

VARIABLES event_queue, \* _event_queues: the session's queue, 0 for none
          contents,   \* of every queue ever created
          callbacks,  \* of the event loop, first come first served
          pusher, stream,
          loop_runs,  \* which stream's coroutine the loop is in the middle of
          known,      \* the session exists
          pushed,     \* history: how many events each thread has pushed
          taken       \* history: the events streams have taken, in order

queue_vars == <<event_queue, contents, callbacks, pusher, stream, loop_runs, known, pushed, taken>>

NoStream == "none"
Quiet == [pc |-> "idle", queue |-> 0]

EventQueuesInit ==
    /\ event_queue = 0
    /\ contents = <<>>
    /\ callbacks = <<>>
    /\ pusher = [p \in Pushers |-> Quiet]
    /\ stream = [s \in Streams |-> Quiet]
    /\ loop_runs = NoStream
    /\ known = TRUE
    /\ pushed = [p \in Pushers |-> 0]
    /\ taken = <<>>

\* Mutant of Store: the queue just created replaces one that is there.
StoreOver(queue) == queue

\* What get_queue stores, and returns: the second look at the table decides.
Store(queue) == IF event_queue = 0 THEN queue ELSE event_queue

NewQueue == Len(contents) + 1

----------------------------------------------------------------------------
(* push_event, on a thread of a job.                                       *)

\* get_queue looks for the queue; without one it asks the loop to create one.
FindQueue(p) ==
    /\ pusher[p].pc = "idle"
    /\ pushed[p] < MaxEvents
    /\ pushed' = [pushed EXCEPT ![p] = @ + 1]
    /\ IF event_queue # 0
       THEN /\ pusher' = [pusher EXCEPT ![p] = [pc |-> "put", queue |-> event_queue]]
            /\ UNCHANGED callbacks
       ELSE /\ pusher' = [pusher EXCEPT ![p] = [pc |-> "wait", queue |-> 0]]
            /\ callbacks' = Append(callbacks, [kind |-> "create", by |-> p])
    /\ UNCHANGED <<event_queue, contents, stream, loop_runs, known, taken>>

StoreQueue(p) ==
    /\ pusher[p].pc = "store"
    /\ event_queue' = Store(pusher[p].queue)
    /\ pusher' = [pusher EXCEPT ![p] = [pc |-> "put", queue |-> event_queue']]
    /\ UNCHANGED <<contents, callbacks, stream, loop_runs, known, pushed, taken>>

Event(p) == [by |-> p, number |-> pushed[p]]

\* call_soon_threadsafe(q.put_nowait, event)
PutEvent(p) ==
    /\ pusher[p].pc = "put"
    /\ callbacks' = Append(callbacks,
            [kind |-> "put", queue |-> pusher[p].queue, event |-> Event(p)])
    /\ pusher' = [pusher EXCEPT ![p] = Quiet]
    /\ UNCHANGED <<event_queue, contents, stream, loop_runs, known, pushed, taken>>

----------------------------------------------------------------------------
(* The event loop: one callback or one coroutine at a time.                *)

RunCallback ==
    /\ loop_runs = NoStream
    /\ callbacks # <<>>
    /\ LET c == Head(callbacks)
       IN  IF c.kind = "put"
           THEN /\ contents' = [contents EXCEPT ![c.queue] = Append(@, c.event)]
                /\ UNCHANGED pusher
           ELSE /\ Len(contents) < MaxQueues
                /\ contents' = Append(contents, <<>>)
                /\ pusher' = [pusher EXCEPT ![c.by] = [pc |-> "store", queue |-> NewQueue]]
    /\ callbacks' = Tail(callbacks)
    /\ UNCHANGED <<event_queue, stream, loop_runs, known, pushed, taken>>

\* stream_events: without a queue, only a session that exists gets one.
OpenStream(s) ==
    /\ loop_runs = NoStream
    /\ stream[s].pc = "idle"
    /\ IF event_queue # 0
       THEN /\ stream' = [stream EXCEPT ![s] = [pc |-> "open", queue |-> event_queue]]
            /\ UNCHANGED <<contents, loop_runs>>
       ELSE /\ known
            /\ Len(contents) < MaxQueues
            /\ contents' = Append(contents, <<>>)
            /\ stream' = [stream EXCEPT ![s] = [pc |-> "store", queue |-> NewQueue]]
            /\ loop_runs' = s
    /\ UNCHANGED <<event_queue, callbacks, pusher, known, pushed, taken>>

\* The rest of get_queue; threads may have come between.
StoreStreamQueue(s) ==
    /\ stream[s].pc = "store"
    /\ event_queue' = Store(stream[s].queue)
    /\ stream' = [stream EXCEPT ![s] = [pc |-> "open", queue |-> event_queue']]
    /\ loop_runs' = NoStream
    /\ UNCHANGED <<contents, callbacks, pusher, known, pushed, taken>>

TakeEvent(s) ==
    /\ loop_runs = NoStream
    /\ stream[s].pc = "open"
    /\ contents[stream[s].queue] # <<>>
    /\ taken' = Append(taken, Head(contents[stream[s].queue]))
    /\ contents' = [contents EXCEPT ![stream[s].queue] = Tail(@)]
    /\ UNCHANGED <<event_queue, callbacks, pusher, stream, loop_runs, known, pushed>>

\* The client goes away, and may come back.
CloseStream(s) ==
    /\ loop_runs = NoStream
    /\ stream[s].pc = "open"
    /\ stream' = [stream EXCEPT ![s] = Quiet]
    /\ UNCHANGED <<event_queue, contents, callbacks, pusher, loop_runs, known, pushed, taken>>

----------------------------------------------------------------------------
\* remove_session: the entry in the file, then what is held in memory.
DeleteSession ==
    /\ known
    /\ known' = FALSE
    /\ UNCHANGED <<event_queue, contents, callbacks, pusher, stream, loop_runs, pushed, taken>>

RemoveFlow ==
    /\ ~ known
    /\ event_queue' = 0
    /\ UNCHANGED <<contents, callbacks, pusher, stream, loop_runs, known, pushed, taken>>

EventQueuesNext ==
    \/ \E p \in Pushers : FindQueue(p) \/ StoreQueue(p) \/ PutEvent(p)
    \/ RunCallback
    \/ \E s \in Streams :
          OpenStream(s) \/ StoreStreamQueue(s) \/ TakeEvent(s) \/ CloseStream(s)
    \/ DeleteSession \/ RemoveFlow

EventQueuesSpec == EventQueuesInit /\ [][EventQueuesNext]_queue_vars

----------------------------------------------------------------------------
(* While the session exists no event of a thread is lost, doubled or       *)
(* overtaken: what streams took, what is queued and what is on its way are *)
(* the thread's events, one after the other.                               *)

\* A callback that creates a queue carries no event: its number is 0.
Carried(c) == IF c.kind = "put" THEN c.event ELSE [by |-> c.by, number |-> 0]
OnTheirWay == [i \in DOMAIN callbacks |-> Carried(callbacks[i])]
Queued == IF event_queue = 0 THEN <<>> ELSE contents[event_queue]

\* In a sequence, the events of p are its first n in order.
InOrder(events, p, n) ==
    LET mine == {i \in DOMAIN events : events[i].by = p /\ events[i].number > 0}
    IN  /\ {events[i].number : i \in mine} = 1..n
        /\ \A i, j \in mine : i < j => events[i].number < events[j].number

EventsComeOnceInOrder ==
    known =>
        \A p \in Pushers :
            InOrder((taken \o Queued) \o OnTheirWay, p,
                    pushed[p] - (IF pusher[p].pc = "idle" THEN 0 ELSE 1))
=============================================================================
