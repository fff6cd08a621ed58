---------------------------- MODULE SessionsFile ----------------------------
(***************************************************************************)
(* The sessions file of swarm/session_manager.py: threads that read it     *)
(* without a lock and replace it whole under one, a file that may be found *)
(* unreadable, writes that fail and processes that die.                    *)
(***************************************************************************)
EXTENDS Integers, Sequences, FiniteSets

CONSTANTS NoThread,
          Threads,
          Sessions,   \* thread_ids
          Missing,    \* there is no file
          Corrupt,    \* a file json does not parse, or not to an object
          MaxWrites   \* bound on the writes to one session

ASSUME SessionsFileAssumption ==
    /\ MaxWrites \in Nat
    /\ NoThread \notin Threads
    /\ Missing # Corrupt
    /\ \A some \in SUBSET Sessions : {Missing, Corrupt} \cap [some -> Nat] = {}

VARIABLES sessions_file,  \* Missing, Corrupt, or the map: how often a session was written
          moved_aside,    \* contents renamed to <path>.corrupt-<timestamp>, in order
          anchors_file,   \* the sessions that have a trail anchor
          file_lock,      \* who holds _LOCK
          save_lock,      \* who holds FlowRepository's _SAVE_LOCK
          call            \* what each thread is doing, and the map it has loaded

file_vars == <<sessions_file, moved_aside, anchors_file, file_lock, save_lock, call>>

Returned == [kind |-> "none", session |-> "none", pc |-> "idle", data |-> <<>>]

Kinds == {"get", "save", "update", "delete", "save_flow"}

\* What _load makes of a file that is not Corrupt.
AsMap(content) == IF content = Missing THEN <<>> ELSE content

WrittenOnce(map, s) ==
    [k \in DOMAIN map \cup {s} |->
        IF k # s THEN map[k] ELSE IF s \in DOMAIN map THEN map[s] + 1 ELSE 1]
Without(map, s) == [k \in DOMAIN map \ {s} |-> map[k]]

SessionsFileInit ==
    /\ sessions_file \in {Missing, Corrupt}
    /\ moved_aside = <<>>
    /\ anchors_file = {}
    /\ file_lock = NoThread
    /\ save_lock = NoThread
    /\ call = [t \in Threads |-> Returned]

----------------------------------------------------------------------------
At(t, pc) == call[t].pc = pc
GoTo(t, pc) == call' = [call EXCEPT ![t].pc = pc]

\* The call returns or raises: the locks it holds are given back.
Return(t) ==
    /\ call' = [call EXCEPT ![t] = Returned]
    /\ file_lock' = IF file_lock = t THEN NoThread ELSE file_lock
    /\ save_lock' = IF save_lock = t THEN NoThread ELSE save_lock

LockFile(t) == file_lock = NoThread /\ file_lock' = t

\* get_session and list_sessions; save_session, update_session and delete_session;
\* FlowRepository.save.
CallFile(t) ==
    /\ At(t, "idle")
    /\ \E kind \in Kinds, s \in Sessions :
          call' = [call EXCEPT ![t] =
                    [kind |-> kind, session |-> s, data |-> <<>>,
                     pc |-> CASE kind = "get"       -> "read"
                              [] kind = "save_flow" -> "enter"
                              [] OTHER              -> "lock"]]
    /\ UNCHANGED <<sessions_file, moved_aside, anchors_file, file_lock, save_lock>>

\* _load without the lock.
ReadFile(t) ==
    /\ At(t, "read")
    /\ IF sessions_file = Corrupt
       THEN GoTo(t, "recheck") /\ UNCHANGED <<file_lock, save_lock>>
       ELSE Return(t)
    /\ UNCHANGED <<sessions_file, moved_aside, anchors_file>>

\* Mutant of Recheck: what was unreadable a moment ago is moved aside.
RecheckNothing(t) ==
    /\ At(t, "recheck")
    /\ LockFile(t)
    /\ GoTo(t, "move_aside")
    /\ UNCHANGED <<sessions_file, moved_aside, anchors_file, save_lock>>

\* An unreadable file is read again under the lock.
Recheck(t) ==
    /\ At(t, "recheck")
    /\ file_lock = NoThread
    /\ IF sessions_file = Corrupt
       THEN LockFile(t) /\ GoTo(t, "move_aside") /\ UNCHANGED save_lock
       ELSE Return(t)
    /\ UNCHANGED <<sessions_file, moved_aside, anchors_file>>

EnterSave(t) ==
    /\ At(t, "enter")
    /\ save_lock = NoThread
    /\ save_lock' = t
    /\ GoTo(t, "lock")
    /\ UNCHANGED <<sessions_file, moved_aside, anchors_file, file_lock>>

BeginWrite(t) ==
    /\ At(t, "lock")
    /\ LockFile(t)
    /\ GoTo(t, "load")
    /\ UNCHANGED <<sessions_file, moved_aside, anchors_file, save_lock>>

\* The writer goes on with the map it has; only save_session creates a session.
GoOnWith(t, map) ==
    IF /\ call[t].kind \in {"update", "save_flow"}
       /\ call[t].session \notin DOMAIN map
    THEN Return(t)
    ELSE /\ call' = [call EXCEPT ![t].pc = "store", ![t].data = map]
         /\ UNCHANGED <<file_lock, save_lock>>

\* _load by a writer, which holds the (re-entrant) lock.
LoadFile(t) ==
    /\ At(t, "load")
    /\ IF sessions_file = Corrupt
       THEN GoTo(t, "move_aside") /\ UNCHANGED <<file_lock, save_lock>>
       ELSE GoOnWith(t, AsMap(sessions_file))
    /\ UNCHANGED <<sessions_file, moved_aside, anchors_file>>

\* _backup_corrupt_file; the caller sees an empty map.
MoveAside(t) ==
    /\ At(t, "move_aside")
    /\ moved_aside' = Append(moved_aside, sessions_file)
    /\ sessions_file' = Missing
    /\ IF call[t].kind = "get" THEN Return(t) ELSE GoOnWith(t, <<>>)
    /\ UNCHANGED anchors_file

\* _save of the changed map: a whole file replaces the other.
StoreFile(t) ==
    /\ At(t, "store")
    /\ LET s == call[t].session
       IN  IF call[t].kind = "delete"
           THEN /\ sessions_file' = Without(call[t].data, s)
                /\ IF s \in anchors_file
                   THEN GoTo(t, "drop_anchor") /\ UNCHANGED <<file_lock, save_lock>>
                   ELSE Return(t)
           ELSE /\ s \in DOMAIN call[t].data => call[t].data[s] < MaxWrites
                /\ sessions_file' = WrittenOnce(call[t].data, s)
                /\ IF call[t].kind = "save_flow"
                   THEN GoTo(t, "anchor") /\ file_lock' = NoThread /\ UNCHANGED save_lock
                   ELSE Return(t)
    /\ UNCHANGED <<moved_aside, anchors_file>>

\* delete_session forgets the session's anchor.
DropAnchor(t) ==
    /\ At(t, "drop_anchor")
    /\ anchors_file' = anchors_file \ {call[t].session}
    /\ Return(t)
    /\ UNCHANGED <<sessions_file, moved_aside>>

\* save_trail_anchor (TrailStore has what it checks).
SaveAnchor(t) ==
    /\ At(t, "anchor")
    /\ file_lock = NoThread
    /\ anchors_file' = anchors_file \cup {call[t].session}
    /\ Return(t)
    /\ UNCHANGED <<sessions_file, moved_aside>>

\* A rename or a write fails: nothing is changed, and the call raises (or logs it).
FileFails(t) ==
    /\ call[t].pc \in {"move_aside", "store", "drop_anchor", "anchor"}
    /\ Return(t)
    /\ UNCHANGED <<sessions_file, moved_aside, anchors_file>>

\* The process dies; files are as the last replacement left them.
FileProcessDies ==
    /\ call' = [t \in Threads |-> Returned]
    /\ file_lock' = NoThread
    /\ save_lock' = NoThread
    /\ UNCHANGED <<sessions_file, moved_aside, anchors_file>>

SessionsFileNext ==
    \/ \E t \in Threads :
          \/ CallFile(t) \/ ReadFile(t) \/ Recheck(t) \/ EnterSave(t) \/ BeginWrite(t)
          \/ LoadFile(t) \/ MoveAside(t) \/ StoreFile(t) \/ DropAnchor(t) \/ SaveAnchor(t)
          \/ FileFails(t)
    \/ FileProcessDies

SessionsFileSpec == SessionsFileInit /\ [][SessionsFileNext]_file_vars

----------------------------------------------------------------------------
(* Whatever threads do at the same time, the file changes by one call's    *)
(* work on the map as it is: no completed save, update or delete is lost.  *)
StoredMap == IF sessions_file = Corrupt THEN <<>> ELSE AsMap(sessions_file)

NoWriteIsLost ==
    [][\/ StoredMap' = StoredMap
       \/ \E s \in Sessions : StoredMap' \in {WrittenOnce(StoredMap, s), Without(StoredMap, s)}
      ]_file_vars
=============================================================================
