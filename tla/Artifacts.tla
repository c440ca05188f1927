----------------------------- MODULE Artifacts -----------------------------
(***************************************************************************)
(* The artifacts of one session: ArtifactService (artifact_service.py)     *)
(* keeps the metadata in the stored session and the bytes in an object     *)
(* store (artifact_storage.py, s3_artifact_storage.py); RetentionManager   *)
(* (retention.py) purges the artifacts and then deletes the session.       *)
(*                                                                         *)
(* No transaction spans the two stores: each operation loads the session,  *)
(* touches objects and saves, with an await at every step, and a save is   *)
(* refused when the session changed in between or is gone.                 *)
(***************************************************************************)
EXTENDS Naturals, FiniteSets

CONSTANTS
  Tasks,       \* requests, the retention run among them
  Artifacts,   \* artifact ids, each with one storage key
  MaxVersion,  \* bound: saves of the session
  Faults       \* whether tasks crash and the object store fails

ASSUME ArtifactAssumption == MaxVersion \in Nat \ {0} /\ Faults \in BOOLEAN

VARIABLES
  version, refs, accessed,  \* the stored session: metadata, and artifact_accessed events
  completed,                \* it has a completed_at before the cutoff
  objects,                  \* keys that have an object
  tokens,                   \* artifacts with an access token that has not expired
  task,                     \* what each task does
  returned,                 \* history: reads whose bytes were returned
  stray,                    \* history: creations that crashed or could not clean up
  tried,                    \* history: artifacts whose object a deletion removed
  late                      \* history: artifacts that the row still listed when it was deleted

stored == <<version, refs, accessed, completed>>
history == <<returned, stray, tried, late>>
vars == <<stored, objects, tokens, task, history>>

Deleted == 0  \* version of a session that is not there
Metadata == {"none", "live", "deleted"}

(* "create"  "putting", "saving", "cleaning" after a refused save          *)
(* "read"    "verified" the token, "getting" the object, "saving" the access *)
(* "delete"  "removing" the object, "saving"                               *)
(* "retain"  "listed" the session, "removing" the objects, "saving",       *)
(*           "deleting" the row                                            *)
Steps == {"idle", "putting", "saving", "cleaning", "verified", "getting", "removing", "listed",
          "deleting"}

Idle == [op |-> "none", step |-> "idle", of |-> {}, version |-> Deleted]

At(t, op, step) == task[t].op = op /\ task[t].step = step
GoesTo(t, step) == task' = [task EXCEPT ![t].step = step]
Ends(t) == task' = [task EXCEPT ![t] = Idle]

\* _session: the loaded copy is the stored session of that version.
Loads(t, op, step, of) ==
  /\ version # Deleted
  /\ task' = [task EXCEPT ![t] = [op |-> op, step |-> step, of |-> of, version |-> version]]

Live == {a \in Artifacts : refs[a] = "live"}

Init ==
  /\ version = 1 /\ refs = [a \in Artifacts |-> "none"] /\ accessed = {} /\ completed = FALSE
  /\ objects = {} /\ tokens = {}
  /\ task = [t \in Tasks |-> Idle]
  /\ returned = {} /\ stray = {} /\ tried = {} /\ late = {}
-----------------------------------------------------------------------------
(* Saving *)

Fresh(t) == version # Deleted /\ task[t].version = version

Saves(newRefs, newAccessed) ==
  /\ version < MaxVersion
  /\ version' = version + 1 /\ refs' = newRefs /\ accessed' = newAccessed
  /\ UNCHANGED completed

WithMetadata(of, m) == [a \in Artifacts |-> IF a \in of THEN m ELSE refs[a]]
-----------------------------------------------------------------------------
(* create *)

Unused == {a \in Artifacts : refs[a] = "none" /\ a \notin objects \cup stray \cup tried
                              /\ \A t \in Tasks : a \notin task[t].of}

BeginCreate(t) ==
  /\ task[t] = Idle
  /\ \E a \in Unused : Loads(t, "create", "putting", {a})
  /\ UNCHANGED <<stored, objects, tokens, history>>

\* Defect: the failure of the object store is not noticed.
PutUnchecked(t) ==
  /\ At(t, "create", "putting")
  /\ \/ objects' = objects \cup task[t].of
     \/ Faults /\ UNCHANGED objects
  /\ GoesTo(t, "saving")
  /\ UNCHANGED <<stored, tokens, history>>

PutObject(t) ==
  /\ At(t, "create", "putting")
  /\ \/ objects' = objects \cup task[t].of /\ GoesTo(t, "saving")
     \/ Faults /\ Ends(t) /\ UNCHANGED objects
  /\ UNCHANGED <<stored, tokens, history>>

\* Defect: a refused save leaves the object.
CreateKeepsObject(t) ==
  /\ At(t, "create", "saving")
  /\ \/ Fresh(t) /\ Saves(WithMetadata(task[t].of, "live"), accessed)
     \/ ~Fresh(t) /\ UNCHANGED stored
  /\ Ends(t)
  /\ UNCHANGED <<objects, tokens, history>>

CreateSaves(t) ==
  /\ At(t, "create", "saving")
  /\ \/ Fresh(t) /\ Saves(WithMetadata(task[t].of, "live"), accessed) /\ Ends(t)
     \/ ~Fresh(t) /\ GoesTo(t, "cleaning") /\ UNCHANGED stored
  /\ UNCHANGED <<objects, tokens, history>>

\* The refused creation deletes its object; an error of that is raised instead.
CleanUp(t) ==
  /\ At(t, "create", "cleaning")
  /\ \/ objects' = objects \ task[t].of /\ UNCHANGED stray
     \/ Faults /\ stray' = stray \cup task[t].of /\ UNCHANGED objects
  /\ Ends(t)
  /\ UNCHANGED <<stored, tokens, returned, tried, late>>
-----------------------------------------------------------------------------
(* issue_access, read_token *)

IssueAccess ==
  /\ \E a \in Live \ tokens : tokens' = tokens \cup {a}
  /\ UNCHANGED <<stored, objects, task, history>>

TokenExpires ==
  /\ \E a \in tokens : tokens' = tokens \ {a}
  /\ UNCHANGED <<stored, objects, task, history>>

\* The signature and the expiry are checked once, before the session is loaded.
VerifyToken(t) ==
  /\ task[t] = Idle
  /\ \E a \in tokens :
       task' = [task EXCEPT ![t] = [op |-> "read", step |-> "verified", of |-> {a},
                                    version |-> Deleted]]
  /\ UNCHANGED <<stored, objects, tokens, history>>

ReadSession(t) ==
  /\ At(t, "read", "verified")
  /\ \/ task[t].of \subseteq Live /\ Loads(t, "read", "getting", task[t].of)
     \/ (version = Deleted \/ ~(task[t].of \subseteq Live)) /\ Ends(t)
  /\ UNCHANGED <<stored, objects, tokens, history>>

\* A missing object is a 503, like a failing store.
GetObject(t) ==
  /\ At(t, "read", "getting")
  /\ \/ task[t].of \subseteq objects /\ GoesTo(t, "saving")
     \/ (Faults \/ ~(task[t].of \subseteq objects)) /\ Ends(t)
  /\ UNCHANGED <<stored, objects, tokens, history>>

Returns(t) == returned' = returned \cup {<<a, task[t].version>> : a \in task[t].of}

\* Defect: a refused audit event does not keep the bytes back.
ReadAnyway(t) ==
  /\ At(t, "read", "saving")
  /\ \/ Fresh(t) /\ Saves(refs, accessed \cup {<<a, version>> : a \in task[t].of})
     \/ ~Fresh(t) /\ UNCHANGED stored
  /\ Returns(t) /\ Ends(t)
  /\ UNCHANGED <<objects, tokens, stray, tried, late>>

\* The bytes are returned only when the access is in the audit log.
ReadSaves(t) ==
  /\ At(t, "read", "saving")
  /\ \/ /\ Fresh(t) /\ Saves(refs, accessed \cup {<<a, version>> : a \in task[t].of})
        /\ Returns(t)
     \/ ~Fresh(t) /\ UNCHANGED <<stored, returned>>
  /\ Ends(t)
  /\ UNCHANGED <<objects, tokens, stray, tried, late>>
-----------------------------------------------------------------------------
(* delete *)

BeginDelete(t) ==
  /\ task[t] = Idle
  /\ \E a \in Live : Loads(t, "delete", "removing", {a})
  /\ UNCHANGED <<stored, objects, tokens, history>>

\* Defect: an object that cannot be removed is skipped.
RemoveSkips(t) ==
  /\ task[t].op \in {"delete", "retain"} /\ task[t].step = "removing"
  /\ \/ objects' = objects \ task[t].of /\ tried' = tried \cup task[t].of
     \/ Faults /\ UNCHANGED <<objects, tried>>
  /\ GoesTo(t, "saving")
  /\ UNCHANGED <<stored, tokens, returned, stray, late>>

\* One object; a failing store ends a deletion or a purge with a 503.
Remove(t) ==
  /\ task[t].op \in {"delete", "retain"} /\ task[t].step = "removing"
  /\ \/ \E a \in task[t].of \cap objects :
          objects' = objects \ {a} /\ tried' = tried \cup {a} /\ UNCHANGED task
     \/ task[t].of \cap objects = {} /\ GoesTo(t, "saving") /\ UNCHANGED <<objects, tried>>
     \/ Faults /\ Ends(t) /\ UNCHANGED <<objects, tried>>
  /\ UNCHANGED <<stored, tokens, returned, stray, late>>

DeleteSaves(t) ==
  /\ task[t].op \in {"delete", "retain"} /\ task[t].step = "saving"
  /\ \/ /\ Fresh(t) /\ Saves(WithMetadata(task[t].of, "deleted"), accessed)
        /\ IF task[t].op = "retain" THEN GoesTo(t, "deleting") ELSE Ends(t)
     \/ ~Fresh(t) /\ Ends(t) /\ UNCHANGED stored
  /\ UNCHANGED <<objects, tokens, history>>
-----------------------------------------------------------------------------
(* Retention, for a request that is not a dry run and matches this session *)

List(t) ==
  /\ task[t] = Idle /\ completed
  /\ Loads(t, "retain", "listed", {})
  /\ UNCHANGED <<stored, objects, tokens, history>>

\* purge_session loads the session again: without artifacts it is done at once, and
\* a session that is gone ends the run.
Purge(t) ==
  /\ At(t, "retain", "listed")
  /\ \/ version = Deleted /\ Ends(t)
     \/ version # Deleted /\ Live = {} /\ GoesTo(t, "deleting")
     \/ Live # {} /\ Loads(t, "retain", "removing", Live)
  /\ UNCHANGED <<stored, objects, tokens, history>>

\* delete_session, whatever the version of the session is by now.
DeleteSession(t) ==
  /\ At(t, "retain", "deleting")
  /\ version' = Deleted /\ refs' = [a \in Artifacts |-> "none"]
  /\ accessed' = {} /\ completed' = FALSE
  /\ late' = late \cup Live
  /\ Ends(t)
  /\ UNCHANGED <<objects, tokens, returned, stray, tried>>
-----------------------------------------------------------------------------
(* Surroundings *)

\* The interview completes; later the cutoff passes.
Complete ==
  /\ version \notin {Deleted, MaxVersion} /\ ~completed
  /\ version' = version + 1 /\ completed' = TRUE
  /\ UNCHANGED <<refs, accessed, objects, tokens, task, history>>

\* A request is cancelled or its process crashes; the thread of a cancelled put
\* goes on.
Crash(t) ==
  /\ Faults /\ task[t] # Idle
  /\ \/ UNCHANGED objects
     \/ At(t, "create", "putting") /\ objects' = objects \cup task[t].of
  /\ stray' = IF task[t].op = "create" THEN stray \cup task[t].of ELSE stray
  /\ Ends(t)
  /\ UNCHANGED <<stored, tokens, returned, tried, late>>

Step(t) ==
  \/ PutObject(t) \/ CreateSaves(t) \/ CleanUp(t)
  \/ ReadSession(t) \/ GetObject(t) \/ ReadSaves(t)
  \/ Remove(t) \/ DeleteSaves(t) \/ Purge(t) \/ DeleteSession(t)

Next ==
  \/ \E t \in Tasks : BeginCreate(t) \/ VerifyToken(t) \/ BeginDelete(t) \/ List(t)
                       \/ Step(t) \/ Crash(t)
  \/ IssueAccess \/ TokenExpires \/ Complete

Spec == Init /\ [][Next]_vars
-----------------------------------------------------------------------------
(* Properties *)

TypeOK ==
  /\ version \in 0..MaxVersion /\ completed \in BOOLEAN
  /\ refs \in [Artifacts -> Metadata]
  /\ objects \subseteq Artifacts /\ tokens \subseteq Artifacts
  /\ accessed \subseteq Artifacts \X (1..MaxVersion)
  /\ task \in [Tasks -> [op : {"none", "create", "read", "delete", "retain"}, step : Steps,
                         of : SUBSET Artifacts, version : 0..MaxVersion]]

\* A creation never saves metadata without its bytes, and cleans up only its own: an
\* artifact that is listed and has no object was being deleted.
MissingOnlyByDeletion ==
  \A a \in Live : a \in objects \/ a \in tried

\* An object that nobody refers to belongs to a creation under way, or to one that
\* crashed or could not clean up, or was saved after retention had purged the session
\* and before it deleted the row.
UnreferencedIsStray ==
  \A a \in objects : refs[a] = "none" =>
    \/ a \in stray \cup late
    \/ \E t \in Tasks : task[t].op = "create" /\ a \in task[t].of

\* What the metadata calls deleted is gone, whatever was created or read meanwhile.
DeletedIsGone == \A a \in objects : refs[a] # "deleted"

\* Bytes leave the service only with an artifact_accessed event in the log, and only
\* while the artifact is not deleted.
ReadIsAudited ==
  [][\A r \in returned' \ returned : refs[r[1]] = "live" /\ r \in accessed']_vars
=============================================================================
