---------------------------- MODULE SessionStore ----------------------------
(***************************************************************************)
(* The Store backends (storage.py, sqlite_store.py, postgres_store.py) and *)
(* the way every service operation uses them: load a deep copy of the      *)
(* session, work on the copy across awaits, save it with the version it    *)
(* was loaded at.  A save whose version is stale raises StoreConflictError,*)
(* which the service turns into HTTP 409.                                  *)
(*                                                                         *)
(* The payload of a session is abstracted to the sequence of requests      *)
(* whose operations it contains; an operation appends its own request.     *)
(***************************************************************************)
EXTENDS Naturals, Sequences

CONSTANTS Sessions,    \* session ids
          Writers,     \* concurrent requests (HTTP handlers, socket tasks)
          Absent,      \* no row under this id
          Free,        \* nobody holds the store's asyncio.Lock
          MaxVersion   \* bound: no session is saved more often than this

ASSUME StoreAssumption ==
  /\ MaxVersion \in Nat
  /\ Free \notin Writers

VARIABLES
  sessions,  \* the stored rows: version column and payload
  issued,    \* session ids handed out by create_session so far
  req,       \* per request: its phase and the session object it holds
  lock,      \* holder of the store's lock
  backend    \* which store the deployment configured, for good

vars == <<sessions, issued, req, lock, backend>>

Backends == {"memory", "sqlite", "postgres"}

Row == [version : Nat, payload : Seq(Writers)]

ASSUME AbsentAssumption == Absent \notin Row /\ Absent \notin Seq(Writers)

(* "idle"     no session object is held                                    *)
(* "loaded"   the handler works on its copy (brain, judge, evaluator calls)*)
(* "selected" SqliteStore: the worker thread has run its SELECT            *)
(* "detached" the same, but the awaiting task was cancelled meanwhile      *)
(* "conflict" the save raised StoreConflictError                           *)
Phases == {"idle", "loaded", "selected", "detached", "conflict"}

Request == [phase : Phases, sid : Sessions \cup {Absent}, version : Nat,
            payload : Seq(Writers), found : BOOLEAN]

TypeOK ==
  /\ sessions \in [Sessions -> Row \cup {Absent}]
  /\ issued \in SUBSET Sessions
  /\ req \in [Writers -> Request]
  /\ lock \in Writers \cup {Free}
  /\ backend \in Backends

(* A request that holds no session object. *)
Idle == [phase |-> "idle", sid |-> Absent, version |-> 0, payload |-> <<>>,
         found |-> FALSE]

Holds(w) == req[w].phase # "idle"

Stored(s) == sessions[s] # Absent

(* A request's session object, in a given phase. *)
Copy(p, s, v, l, f) ==
  [phase |-> p, sid |-> s, version |-> v, payload |-> l, found |-> f]

InPhase(w, p) == Copy(p, req[w].sid, req[w].version, req[w].payload, req[w].found)

Init ==
  /\ sessions = [s \in Sessions |-> Absent]
  /\ issued = {}
  /\ req = [w \in Writers |-> Idle]
  /\ lock = Free
  /\ backend \in Backends
-----------------------------------------------------------------------------
(***************************************************************************)
(* Loading.                                                                *)
(***************************************************************************)

(* create_session builds an InterviewSession with a fresh uuid4 id; its    *)
(* version is the model default 0.                                         *)
NewSession(w, s) ==
  /\ req[w].phase = "idle"
  /\ s \notin issued
  /\ issued' = issued \cup {s}
  /\ req' = [req EXCEPT ![w] = Copy("loaded", s, 0, <<>>, FALSE)]
  /\ UNCHANGED <<sessions, lock>>

(* get_session returns a deep copy; a missing row is a 404 and leaves the  *)
(* request without a session.                                              *)
GetSession(w, s) ==
  /\ req[w].phase = "idle"
  /\ Stored(s)
  /\ req' = [req EXCEPT ![w] = Copy("loaded", s, sessions[s].version,
                                     sessions[s].payload, FALSE)]
  /\ UNCHANGED <<sessions, issued, lock>>

(* The handler returns, raises or is cancelled; its copy is dropped.       *)
Finish(w) ==
  /\ req[w].phase \in {"loaded", "conflict"}
  /\ req' = [req EXCEPT ![w] = Idle]
  /\ UNCHANGED <<sessions, issued, lock>>
-----------------------------------------------------------------------------
(***************************************************************************)
(* Saving.                                                                 *)
(***************************************************************************)

(* The row this request writes: its copy with its own operation applied,   *)
(* under the next version.                                                 *)
NextRow(w) == [version |-> req[w].version + 1, payload |-> Append(req[w].payload, w)]

(* A successful put stores a copy and moves session.version of the         *)
(* caller's object on, which may go on to be saved again (the webhook      *)
(* store appends its delivery events to the same object).                  *)
Saved(w) ==
  /\ sessions' = [sessions EXCEPT ![req[w].sid] = NextRow(w)]
  /\ req' = [req EXCEPT ![w] = Copy("loaded", req[w].sid, NextRow(w).version,
                                     NextRow(w).payload, FALSE)]

Conflict(w) ==
  /\ sessions' = sessions
  /\ req' = [req EXCEPT ![w] = InPhase(w, "conflict")]

(* Mutant: the WHERE clause does not compare versions.                     *)
AcceptAnyVersion(w) == (req[w].version = 0) = ~Stored(req[w].sid)

(* Mutant: the row's version has to be behind the caller's.                *)
AcceptOnlyAhead(w) ==
  IF Stored(req[w].sid) THEN sessions[req[w].sid].version < req[w].version
                        ELSE req[w].version = 0

(* Mutant: versions are compared only when there is a row (an upsert).     *)
AcceptMissingRow(w) ==
  Stored(req[w].sid) => sessions[req[w].sid].version = req[w].version

(* InMemoryStore.put_session, whole under the store's lock with no await.  *)
MemoryAccepts(w) ==
  IF Stored(req[w].sid) THEN sessions[req[w].sid].version = req[w].version
                        ELSE req[w].version = 0

MemoryPut(w) ==
  /\ backend = "memory"
  /\ req[w].phase = "loaded"
  /\ req[w].version < MaxVersion
  /\ \/ MemoryAccepts(w) /\ Saved(w)
     \/ ~MemoryAccepts(w) /\ Conflict(w)
  /\ UNCHANGED <<issued, lock>>

(* PostgresStore.put_session: one INSERT (version 0) or one conditional    *)
(* UPDATE, so the database decides atomically.                             *)
PostgresAccepts(w) ==
  IF req[w].version = 0
  THEN ~Stored(req[w].sid)
  ELSE Stored(req[w].sid) /\ sessions[req[w].sid].version = req[w].version

PostgresPut(w) ==
  /\ backend = "postgres"
  /\ req[w].phase = "loaded"
  /\ req[w].version < MaxVersion
  /\ \/ PostgresAccepts(w) /\ Saved(w)
     \/ ~PostgresAccepts(w) /\ Conflict(w)
  /\ UNCHANGED <<issued, lock>>

(* SqliteStore.put_session takes the asyncio lock and runs                 *)
(* _put_session_sync in a worker thread.  Its SELECT runs outside any      *)
(* transaction, so it is a step of its own.                                *)
SqliteSelect(w) ==
  /\ backend = "sqlite"
  /\ req[w].phase = "loaded"
  /\ req[w].version < MaxVersion
  /\ lock = Free
  /\ lock' = w
  /\ req' = [req EXCEPT ![w] = Copy("selected", req[w].sid, req[w].version,
                                     req[w].payload, Stored(req[w].sid))]
  /\ UNCHANGED <<sessions, issued>>

(* The awaiting task is cancelled: the lock is released by `async with`    *)
(* while the thread keeps running.                                         *)
CancelSave(w) ==
  /\ req[w].phase = "selected"
  /\ lock' = Free
  /\ req' = [req EXCEPT ![w] = InPhase(w, "detached")]
  /\ UNCHANGED <<sessions, issued>>

(* INSERT when the SELECT saw no row (the primary key rejects a row that   *)
(* appeared since), UPDATE ... WHERE id = ? AND version = ? otherwise.     *)
SqliteAccepts(w) ==
  IF ~req[w].found
  THEN req[w].version = 0 /\ ~Stored(req[w].sid)
  ELSE Stored(req[w].sid) /\ sessions[req[w].sid].version = req[w].version

SqliteWrite(w) ==
  /\ req[w].phase = "selected"
  /\ \/ SqliteAccepts(w) /\ Saved(w)
     \/ ~SqliteAccepts(w) /\ Conflict(w)
  /\ lock' = Free
  /\ UNCHANGED issued

(* The thread of a cancelled request ends: nobody receives its outcome.    *)
DetachedWrite(w) ==
  /\ req[w].phase = "detached"
  /\ sessions' = IF SqliteAccepts(w)
                 THEN [sessions EXCEPT ![req[w].sid] = NextRow(w)]
                 ELSE sessions
  /\ req' = [req EXCEPT ![w] = Idle]
  /\ UNCHANGED <<issued, lock>>
-----------------------------------------------------------------------------
(* Mutant: deletion keeps the row and clears its payload.                  *)
ClearSession(s) ==
  /\ Stored(s)
  /\ sessions' = [sessions EXCEPT ![s] = <<>>]
  /\ UNCHANGED <<issued, req, lock>>

(* delete_session (retention) removes the row whatever its version; a      *)
(* running handler keeps its copy.                                         *)
DeleteSession(s) ==
  /\ Stored(s)
  /\ sessions' = [sessions EXCEPT ![s] = Absent]
  /\ UNCHANGED <<issued, req, lock>>

(* The process dies: every copy is gone, and so is an in-memory store.     *)
Crash ==
  /\ sessions' = IF backend = "memory" THEN [s \in Sessions |-> Absent] ELSE sessions
  /\ req' = [w \in Writers |-> Idle]
  /\ lock' = Free
  /\ UNCHANGED issued

Request1(w) ==
  \/ \E s \in Sessions : NewSession(w, s) \/ GetSession(w, s)
  \/ MemoryPut(w) \/ PostgresPut(w)
  \/ SqliteSelect(w) \/ CancelSave(w) \/ SqliteWrite(w) \/ DetachedWrite(w)
  \/ Finish(w)

Next ==
  /\ \/ \E w \in Writers : Request1(w)
     \/ \E s \in Sessions : DeleteSession(s)
     \/ Crash
  /\ backend' = backend

Spec == Init /\ [][Next]_vars
-----------------------------------------------------------------------------
(***************************************************************************)
(* Properties.                                                             *)
(***************************************************************************)

(* No ABA: a request whose copy has the version of the stored row has      *)
(* exactly its content, whatever other requests, deletions, cancellations  *)
(* and crashes happened since it was loaded.  Comparing versions (the only *)
(* check put_session makes) is therefore as good as comparing contents.    *)
VersionIdentifiesContent ==
  \A w \in Writers :
    Holds(w) /\ Stored(req[w].sid) /\ sessions[req[w].sid].version = req[w].version
      => sessions[req[w].sid].payload = req[w].payload

(* A 409 is never spurious: a request told that the interview changed      *)
(* concurrently is behind the stored row, or the row was deleted.          *)
ConflictIsReal ==
  \A w \in Writers :
    req[w].phase = "conflict"
      => ~Stored(req[w].sid) \/ sessions[req[w].sid].version > req[w].version

(* put_session and delete_session, used with load, await and save as       *)
(* separate steps, implement atomic operations on the session: no commit   *)
(* is lost and none is invented.                                           *)
History == [s \in Sessions |-> IF Stored(s) THEN sessions[s].payload ELSE Absent]

Atomic == INSTANCE AtomicSession WITH history <- History

ImplementsAtomicSession == Atomic!Spec
=============================================================================
