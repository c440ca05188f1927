--------------------------- MODULE ArtifactsProofs ---------------------------
(***************************************************************************)
(* Proofs about Artifacts: what the metadata and the object store may say  *)
(* of each other although no transaction spans them.  Versions alone would *)
(* not do: an object is put and removed outside of the session.  What      *)
(* makes it work is that an artifact id belongs to one creation, and that  *)
(* each operation touches the object before the metadata.                  *)
(***************************************************************************)
EXTENDS Artifacts, TLAPS

TaskState == [op : {"none", "create", "read", "delete", "retain"}, step : Steps,
              of : SUBSET Artifacts, version : 0..MaxVersion]

\* Nobody else works on an artifact that is being created: ids are fresh.
CreatedByOne ==
  \A t, u \in Tasks : t # u /\ task[t].op = "create" => task[t].of \cap task[u].of = {}

\* It is not in the metadata yet, and nobody has a token for it.
CreatedIsNew ==
  \A t \in Tasks : task[t].op = "create" =>
    \A a \in task[t].of : refs[a] = "none" /\ a \notin tokens

\* A token names an artifact of the session, as long as there is one.
TokensAreNamed == version # Deleted => \A a \in tokens : refs[a] # "none"

\* The object comes before the metadata when it is created, and goes before it when
\* it is deleted.
ObjectFirst ==
  \A t \in Tasks :
    /\ At(t, "create", "putting") => task[t].of \cap objects = {}
    /\ At(t, "create", "saving") => task[t].of \subseteq objects
    /\ task[t].op \in {"delete", "retain"} /\ task[t].step = "saving" => task[t].of \cap objects = {}

ArtifactsInv ==
  /\ TypeOK /\ CreatedByOne /\ CreatedIsNew /\ TokensAreNamed /\ ObjectFirst
  /\ MissingOnlyByDeletion /\ UnreferencedIsStray /\ DeletedIsGone
-----------------------------------------------------------------------------
(* How a step changes the tasks *)

\* Task t becomes q, the others stay.
Becomes(t, q) ==
  /\ task' \in [Tasks -> TaskState]
  /\ task'[t] = q
  /\ \A u \in Tasks : u # t => task'[u] = task[u]

LEMMA TaskChanges ==
  ASSUME TypeOK, NEW t \in Tasks, NEW STATE q, q \in TaskState, task' = [task EXCEPT ![t] = q]
  PROVE  Becomes(t, q)
BY DEF TypeOK, TaskState, Becomes

LEMMA TaskEnds ==
  ASSUME TypeOK, NEW t \in Tasks, Ends(t)
  PROVE  Becomes(t, Idle)
<1>1. Idle \in TaskState
  BY ArtifactAssumption DEF Idle, TaskState, Steps, Deleted
<1> QED
  BY <1>1, TaskChanges DEF Ends

\* A task that goes to another step keeps the rest.
Moves(t, step) ==
  /\ task' \in [Tasks -> TaskState]
  /\ task'[t].op = task[t].op /\ task'[t].step = step /\ task'[t].of = task[t].of
  /\ \A u \in Tasks : u # t => task'[u] = task[u]

LEMMA TaskMoves ==
  ASSUME TypeOK, NEW t \in Tasks, NEW s \in Steps, GoesTo(t, s)
  PROVE  Moves(t, s)
BY DEF TypeOK, TaskState, GoesTo, Moves

LEMMA TaskLoads ==
  ASSUME TypeOK, NEW t \in Tasks, NEW op \in {"create", "read", "delete", "retain"}, NEW s \in Steps,
         NEW STATE of, of \in SUBSET Artifacts, Loads(t, op, s, of)
  PROVE  Becomes(t, [op |-> op, step |-> s, of |-> of, version |-> version]) /\ version # Deleted
<1>1. [op |-> op, step |-> s, of |-> of, version |-> version] \in TaskState
  BY DEF TypeOK, TaskState
<1> QED
  BY <1>1, TaskChanges DEF Loads

\* The other tasks may stay beside a task that is not a creation and works on
\* artifacts that nobody creates, or on what it worked on before.
Compatible(t, op, of) ==
  /\ \A u \in Tasks \ {t} : task[u].op = "create" => task[u].of \cap of = {}
  /\ op = "create" =>
       /\ \A u \in Tasks \ {t} : of \cap task[u].of = {}
       /\ \A a \in of : refs[a] = "none" /\ a \notin tokens

\* The demands of ObjectFirst on one task.
Ordered(q, objs) ==
  /\ q.op = "create" /\ q.step = "putting" => q.of \cap objs = {}
  /\ q.op = "create" /\ q.step = "saving" => q.of \subseteq objs
  /\ q.op \in {"delete", "retain"} /\ q.step = "saving" => q.of \cap objs = {}

\* A step that changes neither the session nor an object.
LEMMA TaskOnly ==
  ASSUME ArtifactsInv, NEW t \in Tasks,
         UNCHANGED <<stored, objects, tokens, stray, tried, late>>,
         task' \in [Tasks -> TaskState], \A u \in Tasks : u # t => task'[u] = task[u],
         Compatible(t, task'[t].op, task'[t].of),
         Ordered(task'[t], objects),
         \A a \in objects \ (stray \cup late) :
           task[t].op = "create" /\ a \in task[t].of => task'[t].op = "create" /\ a \in task'[t].of
  PROVE  ArtifactsInv'
<1>1. TypeOK' BY DEF ArtifactsInv, TypeOK, TaskState, stored
<1>2. CreatedByOne' BY DEF ArtifactsInv, CreatedByOne, Compatible
<1>3. CreatedIsNew' BY DEF ArtifactsInv, CreatedIsNew, Compatible, stored
<1>4. TokensAreNamed' BY DEF ArtifactsInv, TokensAreNamed, stored
<1>5. ObjectFirst'
  <2> SUFFICES ASSUME NEW u \in Tasks PROVE Ordered(task'[u], objects)
    BY DEF ObjectFirst, Ordered, At
  <2> QED BY DEF ArtifactsInv, ObjectFirst, Ordered, At
<1>6. MissingOnlyByDeletion' /\ DeletedIsGone'
  BY DEF ArtifactsInv, MissingOnlyByDeletion, DeletedIsGone, Live, stored
<1>7. UnreferencedIsStray'
  <2> SUFFICES ASSUME NEW a \in objects, refs[a] = "none", a \notin stray \cup late
               PROVE  \E u \in Tasks : task'[u].op = "create" /\ a \in task'[u].of
    BY DEF UnreferencedIsStray, stored
  <2>1. PICK u \in Tasks : task[u].op = "create" /\ a \in task[u].of
    BY DEF ArtifactsInv, UnreferencedIsStray
  <2> QED BY <2>1
<1> QED BY <1>1, <1>2, <1>3, <1>4, <1>5, <1>6, <1>7 DEF ArtifactsInv

\* A task that ends had nothing to itself, or nothing that is left in the store.
LEMMA QuietEnd ==
  ASSUME ArtifactsInv, NEW t \in Tasks, Ends(t),
         UNCHANGED <<stored, objects, tokens, stray, tried, late>>,
         task[t].op = "create" => task[t].of \cap objects \subseteq stray
  PROVE  ArtifactsInv'
<1>1. Becomes(t, Idle) BY TaskEnds DEF ArtifactsInv
<1>2. Idle.op = "none" /\ Idle.of = {} BY DEF Idle
<1>3. Compatible(t, Idle.op, Idle.of) /\ Ordered(Idle, objects)
  BY <1>2 DEF Compatible, Ordered
<1> QED BY <1>1, <1>3, TaskOnly DEF Becomes

\* A task that goes on works on what it worked on before.
LEMMA Stays ==
  ASSUME ArtifactsInv, NEW t \in Tasks
  PROVE  Compatible(t, task[t].op, task[t].of)
BY DEF ArtifactsInv, CreatedByOne, CreatedIsNew, Compatible

LEMMA QuietMove ==
  ASSUME ArtifactsInv, NEW t \in Tasks, NEW s \in Steps, GoesTo(t, s),
         UNCHANGED <<stored, objects, tokens, stray, tried, late>>,
         task[t].op = "create" => (s = "saving" /\ task[t].of \subseteq objects) \/ s = "cleaning",
         task[t].op \in {"delete", "retain"} /\ s = "saving" => task[t].of \cap objects = {}
  PROVE  ArtifactsInv'
<1>1. Moves(t, s) BY TaskMoves DEF ArtifactsInv
<1>2. Compatible(t, task'[t].op, task'[t].of) BY <1>1, Stays DEF Moves
<1>3. Ordered(task'[t], objects) BY <1>1 DEF Moves, Ordered
<1> QED BY <1>1, <1>2, <1>3, TaskOnly DEF Moves

\* A task that loads the session and turns to artifacts that nobody creates.
LEMMA QuietLoad ==
  ASSUME ArtifactsInv, NEW t \in Tasks, NEW op \in {"read", "delete", "retain"}, NEW s \in Steps,
         NEW STATE of, of \in SUBSET Artifacts, Loads(t, op, s, of),
         UNCHANGED <<stored, objects, tokens, stray, tried, late>>,
         task[t].op # "create", s # "saving",
         \A a \in of : refs[a] # "none"
  PROVE  ArtifactsInv'
<1>1. Becomes(t, [op |-> op, step |-> s, of |-> of, version |-> version])
  BY TaskLoads DEF ArtifactsInv
<1>2. task'[t].op = op /\ task'[t].step = s /\ task'[t].of = of BY <1>1 DEF Becomes
<1>3. Compatible(t, op, of) BY DEF ArtifactsInv, CreatedIsNew, Compatible
<1>4. Ordered(task'[t], objects) BY <1>2 DEF Ordered
<1> QED BY <1>1, <1>2, <1>3, <1>4, TaskOnly DEF Becomes
-----------------------------------------------------------------------------
(* create *)

LEMMA BeginCreateKeeps == ASSUME ArtifactsInv, NEW t \in Tasks, BeginCreate(t) PROVE ArtifactsInv'
<1>1. PICK a \in Unused : Loads(t, "create", "putting", {a}) BY DEF BeginCreate
<1>2. a \in Artifacts /\ refs[a] = "none" /\ a \notin objects /\ \A u \in Tasks : a \notin task[u].of
  BY DEF Unused
<1>3. Becomes(t, [op |-> "create", step |-> "putting", of |-> {a}, version |-> version])
      /\ version # Deleted
  <2>1. TypeOK /\ "putting" \in Steps /\ {a} \in SUBSET Artifacts BY <1>2 DEF ArtifactsInv, Steps
  <2> QED BY <1>1, <2>1, TaskLoads
<1>4. task'[t].op = "create" /\ task'[t].step = "putting" /\ task'[t].of = {a} BY <1>3 DEF Becomes
<1>5. Compatible(t, "create", {a})
  BY <1>2, <1>3 DEF ArtifactsInv, TokensAreNamed, Compatible
<1>6. Ordered(task'[t], objects) BY <1>2, <1>4 DEF Ordered
<1>7. task[t].op # "create" BY DEF BeginCreate, Idle
<1> QED BY <1>3, <1>4, <1>5, <1>6, <1>7, TaskOnly DEF Becomes, BeginCreate, history

\* The object is there, and the metadata not yet: its creation is under way.
LEMMA PutObjectKeeps == ASSUME ArtifactsInv, NEW t \in Tasks, PutObject(t) PROVE ArtifactsInv'
<1>1. task[t].op = "create" /\ task[t].step = "putting" /\ task[t].of \cap objects = {}
  BY DEF PutObject, At, ArtifactsInv, ObjectFirst
<1>2. CASE Ends(t) /\ UNCHANGED objects
  BY <1>1, <1>2, QuietEnd DEF PutObject, history
<1>3. CASE objects' = objects \cup task[t].of /\ GoesTo(t, "saving")
  <2>1. Moves(t, "saving") BY <1>3, TaskMoves DEF ArtifactsInv, Steps
  <2>2. UNCHANGED <<version, refs, accessed, completed, tokens, stray, tried, late>>
    BY DEF PutObject, stored, history
  <2>3. TypeOK'
    BY <1>3, <2>1, <2>2 DEF ArtifactsInv, TypeOK, TaskState, Moves
  <2>4. \A u \in Tasks : task'[u].op = task[u].op /\ task'[u].of = task[u].of BY <2>1 DEF Moves
  <2>5. CreatedByOne' /\ CreatedIsNew' /\ TokensAreNamed'
    BY <2>2, <2>4 DEF ArtifactsInv, CreatedByOne, CreatedIsNew, TokensAreNamed
  <2>6. ObjectFirst'
    <3> SUFFICES ASSUME NEW u \in Tasks PROVE Ordered(task'[u], objects')
      BY DEF ObjectFirst, Ordered, At
    <3>1. CASE u = t BY <1>1, <1>3, <2>1, <3>1 DEF Moves, Ordered
    <3>2. CASE u # t
      <4>1. task'[u] = task[u] /\ task[u].of \cap task[t].of = {}
        BY <1>1, <2>1, <3>2 DEF Moves, ArtifactsInv, CreatedByOne
      <4>2. Ordered(task[u], objects) BY DEF ArtifactsInv, ObjectFirst, Ordered, At
      <4> QED BY <1>3, <4>1, <4>2 DEF Ordered
    <3> QED BY <3>1, <3>2
  <2>7. MissingOnlyByDeletion' /\ DeletedIsGone'
    BY <1>1, <1>3, <2>2 DEF ArtifactsInv, MissingOnlyByDeletion, DeletedIsGone, Live, CreatedIsNew
  <2>8. UnreferencedIsStray'
    BY <1>1, <1>3, <2>2, <2>4 DEF ArtifactsInv, UnreferencedIsStray
  <2> QED BY <2>3, <2>5, <2>6, <2>7, <2>8 DEF ArtifactsInv
<1> QED BY <1>2, <1>3 DEF PutObject

\* A task is over, and what it did to the rest keeps the tasks in order.
LEMMA EndKeepsTasks ==
  ASSUME ArtifactsInv, NEW t \in Tasks, Becomes(t, Idle), UNCHANGED objects
  PROVE  CreatedByOne' /\ ObjectFirst'
<1>1. Idle.op = "none" /\ Idle.of = {} /\ Idle.step = "idle" BY DEF Idle
<1>2. CreatedByOne' BY <1>1 DEF ArtifactsInv, CreatedByOne, Becomes
<1>3. ObjectFirst'
  <2> SUFFICES ASSUME NEW u \in Tasks PROVE Ordered(task'[u], objects)
    BY DEF ObjectFirst, Ordered, At
  <2> QED BY <1>1 DEF ArtifactsInv, ObjectFirst, Ordered, At, Becomes
<1> QED BY <1>2, <1>3

LEMMA CreateSavesKeeps == ASSUME ArtifactsInv, NEW t \in Tasks, CreateSaves(t) PROVE ArtifactsInv'
<1>1. task[t].op = "create" /\ task[t].step = "saving" /\ task[t].of \subseteq objects
  BY DEF CreateSaves, At, ArtifactsInv, ObjectFirst
<1>2. CASE GoesTo(t, "cleaning") /\ UNCHANGED stored
  BY <1>1, <1>2, QuietMove DEF CreateSaves, history, Steps
<1>3. CASE Fresh(t) /\ Saves(WithMetadata(task[t].of, "live"), accessed) /\ Ends(t)
  <2>1. Becomes(t, Idle) BY <1>3, TaskEnds DEF ArtifactsInv
  <2>2. UNCHANGED <<accessed, completed, objects, tokens, stray, tried, late>>
        /\ version' = version + 1 /\ version < MaxVersion /\ version # Deleted
        /\ refs' = WithMetadata(task[t].of, "live")
    BY <1>3 DEF CreateSaves, history, Saves, Fresh
  <2>3. TypeOK'
    BY <2>1, <2>2, ArtifactAssumption
       DEF ArtifactsInv, TypeOK, TaskState, Becomes, WithMetadata, Metadata, Deleted
  <2>4. \A a \in Artifacts : refs'[a] = IF a \in task[t].of THEN "live" ELSE refs[a]
    BY <2>2 DEF WithMetadata
  <2>5. CreatedByOne' /\ ObjectFirst' BY <2>1, <2>2, EndKeepsTasks
  <2>6. objects \subseteq Artifacts /\ tokens \subseteq Artifacts
        /\ \A u \in Tasks : task[u].of \subseteq Artifacts
    BY DEF ArtifactsInv, TypeOK
  <2>7. CreatedIsNew'
    <3> SUFFICES ASSUME NEW u \in Tasks, task'[u].op = "create", NEW a \in task'[u].of
                 PROVE  refs'[a] = "none" /\ a \notin tokens
      BY <2>2 DEF CreatedIsNew
    <3>1. u # t /\ task'[u] = task[u] BY <2>1 DEF Becomes, Idle
    <3>2. a \notin task[t].of BY <1>1, <3>1 DEF ArtifactsInv, CreatedByOne
    <3> QED BY <2>4, <2>6, <3>1, <3>2 DEF ArtifactsInv, CreatedIsNew
  <2>8. TokensAreNamed'
    BY <2>2, <2>4, <2>6 DEF ArtifactsInv, TokensAreNamed
  <2>9. MissingOnlyByDeletion' /\ DeletedIsGone'
    BY <1>1, <2>2, <2>4, <2>6 DEF ArtifactsInv, MissingOnlyByDeletion, DeletedIsGone, Live
  <2>10. UnreferencedIsStray'
    <3> SUFFICES ASSUME NEW a \in objects, refs'[a] = "none", a \notin stray \cup late
                 PROVE  \E u \in Tasks : task'[u].op = "create" /\ a \in task'[u].of
      BY <2>2 DEF UnreferencedIsStray
    <3>1. refs[a] = "none" /\ a \notin task[t].of BY <2>4, <2>6
    <3>2. PICK u \in Tasks : task[u].op = "create" /\ a \in task[u].of
      BY <3>1 DEF ArtifactsInv, UnreferencedIsStray
    <3> QED BY <2>1, <3>1, <3>2 DEF Becomes
  <2> QED BY <2>3, <2>5, <2>7, <2>8, <2>9, <2>10 DEF ArtifactsInv
<1> QED BY <1>2, <1>3 DEF CreateSaves

\* Cleaning up removes the task's own object only.
LEMMA CleanUpKeeps == ASSUME ArtifactsInv, NEW t \in Tasks, CleanUp(t) PROVE ArtifactsInv'
<1>1. task[t].op = "create" /\ Becomes(t, Idle)
  BY TaskEnds DEF CleanUp, At, ArtifactsInv
<1>2. UNCHANGED <<version, refs, accessed, completed, tokens, tried, late>>
  BY DEF CleanUp, stored
<1>3. \/ objects' = objects \ task[t].of /\ stray' = stray
      \/ objects' = objects /\ stray' = stray \cup task[t].of
  BY DEF CleanUp
<1>4. TypeOK' BY <1>1, <1>2, <1>3 DEF ArtifactsInv, TypeOK, TaskState, Becomes
<1>5. Idle.op = "none" /\ Idle.of = {} /\ Idle.step = "idle" BY DEF Idle
<1>6. CreatedByOne' BY <1>1, <1>5 DEF ArtifactsInv, CreatedByOne, Becomes
<1>7. CreatedIsNew' /\ TokensAreNamed'
  BY <1>1, <1>2, <1>5 DEF ArtifactsInv, CreatedIsNew, TokensAreNamed, Becomes
<1>8. ObjectFirst'
  <2> SUFFICES ASSUME NEW u \in Tasks PROVE Ordered(task'[u], objects')
    BY DEF ObjectFirst, Ordered, At
  <2>1. CASE u = t BY <1>1, <1>5, <2>1 DEF Becomes, Ordered
  <2>2. CASE u # t
    <3>1. task'[u] = task[u] /\ task[t].of \cap task[u].of = {}
      BY <1>1, <2>2 DEF Becomes, ArtifactsInv, CreatedByOne
    <3>2. Ordered(task[u], objects) BY DEF ArtifactsInv, ObjectFirst, Ordered, At
    <3> QED BY <1>3, <3>1, <3>2 DEF Ordered
  <2> QED BY <2>1, <2>2
<1>9. MissingOnlyByDeletion' /\ DeletedIsGone'
  BY <1>1, <1>2, <1>3
     DEF ArtifactsInv, MissingOnlyByDeletion, DeletedIsGone, Live, CreatedIsNew
<1>10. UnreferencedIsStray'
  <2> SUFFICES ASSUME NEW a \in objects', refs[a] = "none", a \notin stray' \cup late
               PROVE  \E u \in Tasks : task'[u].op = "create" /\ a \in task'[u].of
    BY <1>2 DEF UnreferencedIsStray
  <2>1. a \in objects /\ a \notin stray \cup late /\ a \notin task[t].of BY <1>3
  <2>2. PICK u \in Tasks : task[u].op = "create" /\ a \in task[u].of
    BY <2>1 DEF ArtifactsInv, UnreferencedIsStray
  <2> QED BY <1>1, <2>1, <2>2 DEF Becomes
<1> QED BY <1>4, <1>6, <1>7, <1>8, <1>9, <1>10 DEF ArtifactsInv

\* A cancelled creation leaves its object to nobody.
LEMMA CrashKeeps == ASSUME ArtifactsInv, NEW t \in Tasks, Crash(t) PROVE ArtifactsInv'
<1>1. Becomes(t, Idle) BY TaskEnds DEF Crash, ArtifactsInv
<1>2. UNCHANGED <<version, refs, accessed, completed, tokens, tried, late>>
  BY DEF Crash, stored
<1>3. CASE task[t].op # "create"
  BY <1>3, QuietEnd DEF Crash, At
<1>4. CASE task[t].op = "create"
  <2>1. stray' = stray \cup task[t].of /\ objects \subseteq objects'
        /\ objects' \subseteq objects \cup task[t].of
    BY <1>4 DEF Crash
  <2>2. TypeOK' BY <1>1, <1>2, <2>1 DEF ArtifactsInv, TypeOK, TaskState, Becomes
  <2>3. Idle.op = "none" /\ Idle.of = {} /\ Idle.step = "idle" BY DEF Idle
  <2>4. CreatedByOne' BY <1>1, <2>3 DEF ArtifactsInv, CreatedByOne, Becomes
  <2>5. CreatedIsNew' /\ TokensAreNamed'
    BY <1>1, <1>2, <2>3 DEF ArtifactsInv, CreatedIsNew, TokensAreNamed, Becomes
  <2>6. ObjectFirst'
    <3> SUFFICES ASSUME NEW u \in Tasks PROVE Ordered(task'[u], objects')
      BY DEF ObjectFirst, Ordered, At
    <3>1. CASE u = t BY <1>1, <2>3, <3>1 DEF Becomes, Ordered
    <3>2. CASE u # t
      <4>1. task'[u] = task[u] /\ task[t].of \cap task[u].of = {}
        BY <1>1, <1>4, <3>2 DEF Becomes, ArtifactsInv, CreatedByOne
      <4>2. Ordered(task[u], objects) BY DEF ArtifactsInv, ObjectFirst, Ordered, At
      <4> QED BY <2>1, <4>1, <4>2 DEF Ordered
    <3> QED BY <3>1, <3>2
  <2>7. MissingOnlyByDeletion' /\ DeletedIsGone'
    BY <1>2, <1>4, <2>1 DEF ArtifactsInv, MissingOnlyByDeletion, DeletedIsGone, Live, CreatedIsNew
  <2>8. UnreferencedIsStray'
    <3> SUFFICES ASSUME NEW a \in objects', refs[a] = "none", a \notin stray' \cup late
                 PROVE  \E u \in Tasks : task'[u].op = "create" /\ a \in task'[u].of
      BY <1>2 DEF UnreferencedIsStray
    <3>1. a \in objects /\ a \notin stray \cup late /\ a \notin task[t].of BY <2>1
    <3>2. PICK u \in Tasks : task[u].op = "create" /\ a \in task[u].of
      BY <3>1 DEF ArtifactsInv, UnreferencedIsStray
    <3> QED BY <1>1, <3>1, <3>2 DEF Becomes
  <2> QED BY <2>2, <2>4, <2>5, <2>6, <2>7, <2>8 DEF ArtifactsInv
<1> QED BY <1>3, <1>4
-----------------------------------------------------------------------------
(* Saves *)

\* A save that leaves the metadata of every artifact as it is.
LEMMA MetadataStays ==
  ASSUME ArtifactsInv, NEW t \in Tasks,
         version # Deleted, version < MaxVersion, version' = version + 1,
         accessed' \subseteq Artifacts \X (1..MaxVersion), completed' \in BOOLEAN,
         UNCHANGED <<refs, objects, tokens, stray, tried, late>>,
         Becomes(t, Idle) \/ UNCHANGED task,
         task[t].op # "create"
  PROVE  ArtifactsInv'
<1>1. TypeOK'
  BY ArtifactAssumption DEF ArtifactsInv, TypeOK, TaskState, Becomes, Deleted
<1>2. Idle.op = "none" /\ Idle.of = {} /\ Idle.step = "idle" BY DEF Idle
<1>3. CreatedByOne' /\ ObjectFirst'
  BY EndKeepsTasks DEF ArtifactsInv, CreatedByOne, ObjectFirst, At
<1>4. CreatedIsNew' /\ TokensAreNamed'
  BY <1>2 DEF ArtifactsInv, CreatedIsNew, TokensAreNamed, Becomes
<1>5. MissingOnlyByDeletion' /\ DeletedIsGone'
  BY DEF ArtifactsInv, MissingOnlyByDeletion, DeletedIsGone, Live
<1>6. UnreferencedIsStray'
  <2> SUFFICES ASSUME NEW a \in objects, refs[a] = "none", a \notin stray \cup late
               PROVE  \E u \in Tasks : task'[u].op = "create" /\ a \in task'[u].of
    BY DEF UnreferencedIsStray
  <2>1. PICK u \in Tasks : task[u].op = "create" /\ a \in task[u].of
    BY DEF ArtifactsInv, UnreferencedIsStray
  <2> QED BY <2>1 DEF Becomes
<1> QED BY <1>1, <1>3, <1>4, <1>5, <1>6 DEF ArtifactsInv

LEMMA ReadSavesKeeps == ASSUME ArtifactsInv, NEW t \in Tasks, ReadSaves(t) PROVE ArtifactsInv'
<1>1. task[t].op = "read" /\ Becomes(t, Idle)
  BY TaskEnds DEF ReadSaves, At, ArtifactsInv
<1>2. CASE UNCHANGED stored
  BY <1>1, <1>2, QuietEnd DEF ReadSaves
<1>3. CASE Fresh(t) /\ Saves(refs, accessed \cup {<<a, version>> : a \in task[t].of})
  <2>1. version \in Nat /\ version # 0 /\ version < MaxVersion /\ version' = version + 1
        /\ UNCHANGED <<refs, completed>>
        /\ accessed' = accessed \cup {<<a, version>> : a \in task[t].of}
    BY <1>3 DEF Fresh, Saves, Deleted, ArtifactsInv, TypeOK
  <2>2. version \in 1..MaxVersion /\ task[t].of \subseteq Artifacts
        /\ accessed \subseteq Artifacts \X (1..MaxVersion) /\ completed \in BOOLEAN
    BY <2>1, ArtifactAssumption DEF ArtifactsInv, TypeOK
  <2>3. accessed' \subseteq Artifacts \X (1..MaxVersion) BY <2>1, <2>2
  <2> QED BY <1>1, <2>1, <2>2, <2>3, MetadataStays DEF ReadSaves, Deleted
<1> QED BY <1>2, <1>3 DEF ReadSaves, stored

LEMMA CompleteKeeps == ASSUME ArtifactsInv, Complete PROVE ArtifactsInv'
<1>1. version # Deleted /\ version < MaxVersion /\ version' = version + 1 /\ version \in 0..MaxVersion
      /\ completed' \in BOOLEAN
  BY ArtifactAssumption DEF Complete, ArtifactsInv, TypeOK
<1>2. UNCHANGED <<refs, accessed, objects, tokens, task, stray, tried, late>>
  BY DEF Complete, history
<1>3. TypeOK'
  BY <1>1, <1>2, ArtifactAssumption DEF ArtifactsInv, TypeOK
<1> QED
  BY <1>1, <1>2, <1>3
     DEF ArtifactsInv, CreatedByOne, CreatedIsNew, TokensAreNamed, ObjectFirst, At,
         MissingOnlyByDeletion, UnreferencedIsStray, DeletedIsGone, Live

LEMMA TokensKeep == ASSUME ArtifactsInv, IssueAccess \/ TokenExpires PROVE ArtifactsInv'
<1>1. UNCHANGED <<version, refs, accessed, completed, objects, task, stray, tried, late>>
  BY DEF IssueAccess, TokenExpires, stored, history
<1>2. tokens' \subseteq tokens \cup Live BY DEF IssueAccess, TokenExpires
<1>3. TypeOK' BY <1>1, <1>2 DEF ArtifactsInv, TypeOK, Live
<1>4. CreatedIsNew' /\ TokensAreNamed'
  BY <1>1, <1>2 DEF ArtifactsInv, CreatedIsNew, TokensAreNamed, Live
<1> QED
  BY <1>1, <1>3, <1>4
     DEF ArtifactsInv, CreatedByOne, ObjectFirst, At, MissingOnlyByDeletion, UnreferencedIsStray,
         DeletedIsGone, Live
-----------------------------------------------------------------------------
(* delete, purge and retention *)

\* An object is removed by tasks that did not create it, and remembered as tried.
LEMMA RemoveKeeps == ASSUME ArtifactsInv, NEW t \in Tasks, Remove(t) PROVE ArtifactsInv'
<1>1. task[t].op \in {"delete", "retain"} /\ "saving" \in Steps BY DEF Remove, Steps
<1>2. CASE task[t].of \cap objects = {} /\ GoesTo(t, "saving") /\ UNCHANGED <<objects, tried>>
  BY <1>1, <1>2, QuietMove DEF Remove
<1>3. CASE Ends(t) /\ UNCHANGED <<objects, tried>>
  BY <1>1, <1>3, QuietEnd DEF Remove
<1>4. ASSUME NEW a \in task[t].of \cap objects,
             objects' = objects \ {a}, tried' = tried \cup {a}, UNCHANGED task
      PROVE  ArtifactsInv'
  <2>1. UNCHANGED <<version, refs, accessed, completed, tokens, stray, late>>
    BY DEF Remove, stored
  <2>2. TypeOK' BY <1>4, <2>1 DEF ArtifactsInv, TypeOK
  <2>3. CreatedByOne' /\ CreatedIsNew' /\ TokensAreNamed'
    BY <1>4, <2>1 DEF ArtifactsInv, CreatedByOne, CreatedIsNew, TokensAreNamed
  <2>4. ObjectFirst'
    <3> SUFFICES ASSUME NEW u \in Tasks PROVE Ordered(task[u], objects')
      BY <1>4 DEF ObjectFirst, Ordered, At
    <3>1. Ordered(task[u], objects) BY DEF ArtifactsInv, ObjectFirst, Ordered, At
    <3>2. task[u].op = "create" => a \notin task[u].of
      BY <1>1, <1>4 DEF ArtifactsInv, CreatedByOne
    <3> QED BY <1>4, <3>1, <3>2 DEF Ordered
  <2>5. MissingOnlyByDeletion' /\ DeletedIsGone' /\ UnreferencedIsStray'
    BY <1>4, <2>1
       DEF ArtifactsInv, MissingOnlyByDeletion, DeletedIsGone, UnreferencedIsStray, Live
  <2> QED BY <2>2, <2>3, <2>4, <2>5 DEF ArtifactsInv
<1> QED BY <1>2, <1>3, <1>4 DEF Remove

LEMMA DeleteSavesKeeps == ASSUME ArtifactsInv, NEW t \in Tasks, DeleteSaves(t) PROVE ArtifactsInv'
<1>1. task[t].op \in {"delete", "retain"} /\ task[t].of \cap objects = {}
  BY DEF DeleteSaves, ArtifactsInv, ObjectFirst
<1>2. CASE Ends(t) /\ UNCHANGED stored
  BY <1>1, <1>2, QuietEnd DEF DeleteSaves, history
<1>3. CASE /\ Fresh(t) /\ Saves(WithMetadata(task[t].of, "deleted"), accessed)
           /\ GoesTo(t, "deleting") \/ Ends(t)
  <2>1. Moves(t, "deleting") \/ Becomes(t, Idle)
    BY <1>3, TaskMoves, TaskEnds DEF ArtifactsInv, Steps
  <2>2. UNCHANGED <<accessed, completed, objects, tokens, stray, tried, late>>
        /\ version' = version + 1 /\ version < MaxVersion /\ version # Deleted
        /\ refs' = WithMetadata(task[t].of, "deleted")
    BY <1>3 DEF DeleteSaves, history, Saves, Fresh
  <2>3. task' \in [Tasks -> TaskState] BY <2>1 DEF Becomes, Moves
  <2>4. TypeOK'
    BY <2>2, <2>3, ArtifactAssumption
       DEF ArtifactsInv, TypeOK, TaskState, WithMetadata, Metadata, Deleted
  <2>5. \A a \in Artifacts : refs'[a] = IF a \in task[t].of THEN "deleted" ELSE refs[a]
    BY <2>2 DEF WithMetadata
  <2>6. objects \subseteq Artifacts /\ tokens \subseteq Artifacts
        /\ \A u \in Tasks : task[u].of \subseteq Artifacts
    BY DEF ArtifactsInv, TypeOK
  <2>7. /\ task'[t].op # "create" /\ task'[t].of \subseteq task[t].of /\ task'[t].step # "saving"
        /\ \A u \in Tasks : u # t => task'[u] = task[u]
    BY <1>1, <2>1 DEF Becomes, Moves, Idle
  <2>8. CreatedByOne' BY <1>1, <2>7 DEF ArtifactsInv, CreatedByOne
  <2>9. CreatedIsNew'
    <3> SUFFICES ASSUME NEW u \in Tasks, task'[u].op = "create", NEW a \in task'[u].of
                 PROVE  refs'[a] = "none" /\ a \notin tokens
      BY <2>2 DEF CreatedIsNew
    <3>1. u # t /\ task'[u] = task[u] BY <2>7
    <3>2. a \notin task[t].of BY <3>1 DEF ArtifactsInv, CreatedByOne
    <3> QED BY <2>5, <2>6, <3>1, <3>2 DEF ArtifactsInv, CreatedIsNew
  <2>10. TokensAreNamed' BY <2>2, <2>5, <2>6 DEF ArtifactsInv, TokensAreNamed
  <2>11. ObjectFirst'
    <3> SUFFICES ASSUME NEW u \in Tasks PROVE Ordered(task'[u], objects)
      BY <2>2 DEF ObjectFirst, Ordered, At
    <3>1. Ordered(task[u], objects) BY DEF ArtifactsInv, ObjectFirst, Ordered, At
    <3> QED BY <2>7, <3>1 DEF Ordered
  <2>12. MissingOnlyByDeletion' /\ DeletedIsGone'
    BY <1>1, <2>2, <2>5, <2>6 DEF ArtifactsInv, MissingOnlyByDeletion, DeletedIsGone, Live
  <2>13. UnreferencedIsStray'
    <3> SUFFICES ASSUME NEW a \in objects, refs'[a] = "none", a \notin stray \cup late
                 PROVE  \E u \in Tasks : task'[u].op = "create" /\ a \in task'[u].of
      BY <2>2 DEF UnreferencedIsStray
    <3>1. refs[a] = "none" BY <2>5, <2>6
    <3>2. PICK u \in Tasks : task[u].op = "create" /\ a \in task[u].of
      BY <3>1 DEF ArtifactsInv, UnreferencedIsStray
    <3> QED BY <1>1, <2>7, <3>2
  <2> QED BY <2>4, <2>8, <2>9, <2>10, <2>11, <2>12, <2>13 DEF ArtifactsInv
<1> QED BY <1>2, <1>3 DEF DeleteSaves

\* The row goes with all of its metadata: what it still listed is late.
LEMMA DeleteSessionKeeps == ASSUME ArtifactsInv, NEW t \in Tasks, DeleteSession(t) PROVE ArtifactsInv'
<1>1. task[t].op = "retain" /\ Becomes(t, Idle)
  BY TaskEnds DEF DeleteSession, At, ArtifactsInv
<1>2. version' = Deleted /\ refs' = [a \in Artifacts |-> "none"] /\ accessed' = {}
      /\ completed' = FALSE /\ late' = late \cup Live
      /\ UNCHANGED <<objects, tokens, stray, tried>>
  BY DEF DeleteSession
<1>3. TypeOK'
  <2>1. version' \in 0..MaxVersion BY <1>2, ArtifactAssumption DEF Deleted
  <2>2. refs' \in [Artifacts -> Metadata] /\ completed' \in BOOLEAN BY <1>2 DEF Metadata
  <2>3. objects' \subseteq Artifacts /\ tokens' \subseteq Artifacts
        /\ accessed' \subseteq Artifacts \X (1..MaxVersion)
    BY <1>2 DEF ArtifactsInv, TypeOK
  <2> QED BY <1>1, <2>1, <2>2, <2>3 DEF TypeOK, TaskState, Becomes
<1>4. \A a \in Artifacts : refs'[a] = "none" BY <1>2
<1>5. objects \subseteq Artifacts /\ \A u \in Tasks : task'[u].of \subseteq Artifacts
  BY <1>3, <1>2 DEF TypeOK
<1>6. CreatedByOne' /\ ObjectFirst' BY <1>1, <1>2, EndKeepsTasks
<1>7. CreatedIsNew'
  BY <1>1, <1>2, <1>4, <1>5 DEF ArtifactsInv, CreatedIsNew, Becomes, Idle
<1>8. TokensAreNamed' BY <1>2 DEF TokensAreNamed
<1>9. MissingOnlyByDeletion' /\ DeletedIsGone'
  BY <1>2, <1>4, <1>5 DEF MissingOnlyByDeletion, DeletedIsGone, Live
<1>10. UnreferencedIsStray'
  <2> SUFFICES ASSUME NEW a \in objects, a \notin stray \cup late'
               PROVE  \E u \in Tasks : task'[u].op = "create" /\ a \in task'[u].of
    BY <1>2 DEF UnreferencedIsStray
  <2>1. a \in Artifacts /\ a \notin Live /\ a \notin late /\ refs[a] # "deleted"
    BY <1>2, <1>5 DEF ArtifactsInv, DeletedIsGone
  <2>2. refs[a] = "none"
    <3>1. refs[a] \in {"none", "live", "deleted"} BY <2>1 DEF ArtifactsInv, TypeOK, Metadata
    <3> QED BY <2>1, <3>1 DEF Live
  <2>3. PICK u \in Tasks : task[u].op = "create" /\ a \in task[u].of
    BY <2>1, <2>2 DEF ArtifactsInv, UnreferencedIsStray
  <2> QED BY <1>1, <2>3 DEF Becomes
<1> QED BY <1>3, <1>6, <1>7, <1>8, <1>9, <1>10 DEF ArtifactsInv
-----------------------------------------------------------------------------
(* What only reads *)

LEMMA ReadsKeep ==
  ASSUME ArtifactsInv, NEW t \in Tasks,
         VerifyToken(t) \/ ReadSession(t) \/ GetObject(t) \/ BeginDelete(t) \/ List(t) \/ Purge(t)
  PROVE  ArtifactsInv'
<1>0. {"verified", "getting", "saving", "removing", "listed", "deleting"} \subseteq Steps
      /\ Live \subseteq Artifacts
      /\ task[t].of \subseteq Artifacts
  BY DEF Steps, Live, ArtifactsInv, TypeOK
<1>1. UNCHANGED <<stored, objects, tokens, stray, tried, late>>
  BY DEF VerifyToken, ReadSession, GetObject, BeginDelete, List, Purge, history
<1>2. task[t].op # "create" /\ task[t].op # "delete"
  BY DEF VerifyToken, ReadSession, GetObject, BeginDelete, List, Purge, At, Idle
<1>3. CASE VerifyToken(t)
  <2>1. PICK a \in tokens :
          task' = [task EXCEPT ![t] = [op |-> "read", step |-> "verified", of |-> {a},
                                       version |-> Deleted]]
    BY <1>3 DEF VerifyToken
  <2> DEFINE q == [op |-> "read", step |-> "verified", of |-> {a}, version |-> Deleted]
  <2>2. a \in Artifacts BY DEF ArtifactsInv, TypeOK
  <2>3. q \in TaskState BY <1>0, <2>2, ArtifactAssumption DEF TaskState, Deleted
  <2>4. task' = [task EXCEPT ![t] = q] BY <2>1
  <2>5. q.op = "read" /\ q.step = "verified" /\ q.of = {a} OBVIOUS
  <2> HIDE DEF q
  <2>6. Becomes(t, q) BY <2>4, <2>3, TaskChanges DEF ArtifactsInv
  <2>7. Compatible(t, q.op, q.of) BY <2>5 DEF ArtifactsInv, CreatedIsNew, Compatible
  <2>8. Ordered(q, objects) BY <2>5 DEF Ordered
  <2> QED BY <1>1, <1>2, <2>6, <2>7, <2>8, TaskOnly DEF Becomes
<1>4. CASE Ends(t)
  BY <1>1, <1>2, <1>4, QuietEnd
<1>5. CASE ReadSession(t)
  BY <1>0, <1>1, <1>2, <1>4, <1>5, QuietLoad DEF ReadSession, Live
<1>6. CASE GetObject(t)
  BY <1>0, <1>1, <1>2, <1>4, <1>6, QuietMove DEF GetObject, At
<1>7. CASE BeginDelete(t)
  <2>1. PICK a \in Live : Loads(t, "delete", "removing", {a}) BY <1>7 DEF BeginDelete
  <2>2. {a} \in SUBSET Artifacts /\ refs[a] # "none" BY DEF Live
  <2> QED BY <1>0, <1>1, <1>2, <2>1, <2>2, QuietLoad
<1>8. CASE List(t)
  <2>1. {} \in SUBSET Artifacts /\ Loads(t, "retain", "listed", {}) BY <1>8 DEF List
  <2> QED BY <1>0, <1>1, <1>2, <2>1, QuietLoad
<1>9. CASE Purge(t)
  <2>1. CASE GoesTo(t, "deleting")
    BY <1>0, <1>1, <1>2, <2>1, QuietMove
  <2>2. CASE Loads(t, "retain", "removing", Live)
    <3>1. \A a \in Live : refs[a] # "none" BY DEF Live
    <3> QED BY <1>0, <1>1, <1>2, <2>2, <3>1, QuietLoad
  <2> QED BY <1>4, <1>9, <2>1, <2>2 DEF Purge
<1> QED BY <1>3, <1>5, <1>6, <1>7, <1>8, <1>9
-----------------------------------------------------------------------------
LEMMA InitArtifacts == ASSUME Init PROVE ArtifactsInv
<1>1. Idle \in TaskState /\ Idle.op = "none"
  BY ArtifactAssumption DEF Idle, TaskState, Steps, Deleted
<1>2. TypeOK
  <2>1. version \in 0..MaxVersion BY ArtifactAssumption DEF Init
  <2>2. refs \in [Artifacts -> Metadata] /\ completed \in BOOLEAN BY DEF Init, Metadata
  <2>3. objects \subseteq Artifacts /\ tokens \subseteq Artifacts
        /\ accessed \subseteq Artifacts \X (1..MaxVersion)
    BY DEF Init
  <2>4. task \in [Tasks -> TaskState] BY <1>1 DEF Init
  <2> QED BY <2>1, <2>2, <2>3, <2>4 DEF TypeOK, TaskState
<1> QED
  BY <1>1, <1>2
     DEF Init, ArtifactsInv, CreatedByOne, CreatedIsNew, TokensAreNamed, ObjectFirst, At,
         MissingOnlyByDeletion, UnreferencedIsStray, DeletedIsGone, Live

LEMMA StepArtifacts == ASSUME ArtifactsInv, [Next]_vars PROVE ArtifactsInv'
<1>1. ASSUME NEW t \in Tasks, BeginCreate(t) \/ VerifyToken(t) \/ BeginDelete(t) \/ List(t)
                               \/ Step(t) \/ Crash(t)
      PROVE  ArtifactsInv'
  BY <1>1, BeginCreateKeeps, PutObjectKeeps, CreateSavesKeeps, CleanUpKeeps, ReadsKeep,
     ReadSavesKeeps, RemoveKeeps, DeleteSavesKeeps, DeleteSessionKeeps, CrashKeeps DEF Step
<1>2. CASE UNCHANGED vars
  BY <1>2 DEF vars, stored, history, ArtifactsInv, TypeOK, CreatedByOne, CreatedIsNew,
              TokensAreNamed, ObjectFirst, At, MissingOnlyByDeletion, UnreferencedIsStray,
              DeletedIsGone, Live
<1> QED BY <1>1, <1>2, TokensKeep, CompleteKeeps DEF Next

LEMMA ArtifactsInvHolds == Spec => []ArtifactsInv
<1>1. Init => ArtifactsInv BY InitArtifacts
<1>2. ArtifactsInv /\ [Next]_vars => ArtifactsInv' BY StepArtifacts
<1> QED BY <1>1, <1>2, PTL DEF Spec
-----------------------------------------------------------------------------
(* Reads: the check of the metadata and the save of the audit event are     *)
(* two steps, and the version is what joins them                            *)

Reading(q) == q.op = "read" /\ q.step \in {"getting", "saving"}

\* No task is ahead of the session, and a read whose copy is current has artifacts
\* that are live now.  A deleted session never comes back.
Seen(q) == q.version <= version /\ (Reading(q) /\ q.version = version => q.of \subseteq Live)
ReadsAreSeen == version # Deleted => \A t \in Tasks : Seen(task[t])

ReadInv == ArtifactsInv /\ ReadsAreSeen

\* A step that saves leaves every copy behind.
LEMMA SaveOutdates ==
  ASSUME TypeOK, ReadsAreSeen, version # Deleted, version' = version + 1,
         \A u \in Tasks : task'[u].version = task[u].version \/ task'[u].version = Deleted
  PROVE  ReadsAreSeen'
<1>1. SUFFICES ASSUME NEW u \in Tasks PROVE Seen(task[u])'
  BY DEF ReadsAreSeen
<1>2. version \in Nat /\ task[u].version \in Nat /\ task[u].version <= version
  BY DEF TypeOK, ReadsAreSeen, Seen
<1>3. task'[u].version <= version /\ task'[u].version \in Nat BY <1>2 DEF Deleted
<1> QED BY <1>2, <1>3 DEF Seen

\* A step that leaves the session alone only has to answer for its task.
LEMMA OneIsSeen ==
  ASSUME ReadsAreSeen, NEW t \in Tasks, UNCHANGED <<version, refs>>,
         \A u \in Tasks : u # t => task'[u] = task[u],
         version # Deleted => Seen(task'[t])
  PROVE  ReadsAreSeen'
BY DEF ReadsAreSeen, Seen, Live

LEMMA EndIsSeen ==
  ASSUME ReadInv, NEW t \in Tasks, Ends(t), UNCHANGED <<version, refs>>
  PROVE  ReadsAreSeen'
<1>1. Becomes(t, Idle) BY TaskEnds DEF ReadInv, ArtifactsInv
<1>2. Seen(Idle)
  BY DEF Seen, Reading, Idle, Deleted, ReadInv, ArtifactsInv, TypeOK
<1> QED BY <1>1, <1>2, OneIsSeen DEF Becomes, ReadInv

LEMMA MoveIsSeen ==
  ASSUME ReadInv, NEW t \in Tasks, NEW s \in Steps, GoesTo(t, s), UNCHANGED <<version, refs>>,
         task[t].op = "read" => task[t].step = "getting"
  PROVE  ReadsAreSeen'
<1>1. Moves(t, s) BY TaskMoves DEF ReadInv, ArtifactsInv
<1>2. task'[t].version = task[t].version
  BY DEF GoesTo, ReadInv, ArtifactsInv, TypeOK
<1>3. version # Deleted => Seen(task'[t])
  BY <1>1, <1>2 DEF ReadInv, ReadsAreSeen, Seen, Reading, Moves
<1> QED BY <1>1, <1>3, OneIsSeen DEF Moves, ReadInv

LEMMA LoadIsSeen ==
  ASSUME ReadInv, NEW t \in Tasks, NEW op \in {"create", "read", "delete", "retain"}, NEW s \in Steps,
         NEW STATE of, of \in SUBSET Artifacts, Loads(t, op, s, of), UNCHANGED <<version, refs>>,
         op = "read" => of \subseteq Live
  PROVE  ReadsAreSeen'
<1>1. Becomes(t, [op |-> op, step |-> s, of |-> of, version |-> version])
  BY TaskLoads DEF ReadInv, ArtifactsInv
<1>2. task'[t].op = op /\ task'[t].of = of /\ task'[t].version = version BY <1>1 DEF Becomes
<1>3. version <= version BY DEF ReadInv, ArtifactsInv, TypeOK
<1>4. Seen(task'[t]) BY <1>2, <1>3 DEF Seen, Reading
<1> QED BY <1>1, <1>4, OneIsSeen DEF Becomes, ReadInv

\* The saves, of a creation, a read, a deletion and the interview itself.
LEMMA SavesAreSeen ==
  ASSUME ReadInv, NEW t \in Tasks, CreateSaves(t) \/ ReadSaves(t) \/ DeleteSaves(t)
  PROVE  ReadsAreSeen'
<1>0. {"cleaning", "deleting"} \subseteq Steps BY DEF Steps
<1>1. CASE UNCHANGED stored
  <2>1. UNCHANGED <<version, refs>> BY <1>1 DEF stored
  <2>2. CASE Ends(t) BY <2>1, <2>2, EndIsSeen
  <2>3. CASE CreateSaves(t) /\ GoesTo(t, "cleaning")
    BY <1>0, <2>1, <2>3, MoveIsSeen DEF CreateSaves, At
  <2>4. CASE DeleteSaves(t) /\ GoesTo(t, "deleting")
    BY <1>0, <2>1, <2>4, MoveIsSeen DEF DeleteSaves
  <2> QED BY <2>2, <2>3, <2>4 DEF CreateSaves, ReadSaves, DeleteSaves
<1>2. CASE version' = version + 1 /\ version # Deleted /\ (Ends(t) \/ GoesTo(t, "deleting"))
  <2>1. TypeOK /\ ReadsAreSeen BY DEF ReadInv, ArtifactsInv
  <2>2. \A u \in Tasks : task'[u].version = task[u].version \/ task'[u].version = Deleted
    BY <1>2, <2>1 DEF Ends, GoesTo, Idle, TypeOK
  <2> QED BY <1>2, <2>1, <2>2, SaveOutdates
<1> QED BY <1>1, <1>2 DEF CreateSaves, ReadSaves, DeleteSaves, Saves, Fresh

LEMMA TasksAreSeen ==
  ASSUME ReadInv, NEW t \in Tasks,
         \/ BeginCreate(t) \/ VerifyToken(t) \/ BeginDelete(t) \/ List(t) \/ PutObject(t)
         \/ CleanUp(t) \/ ReadSession(t) \/ GetObject(t) \/ Remove(t) \/ Purge(t) \/ Crash(t)
  PROVE  ReadsAreSeen'
<1>0. /\ {"putting", "saving", "verified", "getting", "removing", "listed", "deleting"} \subseteq Steps
      /\ Live \subseteq Artifacts /\ task[t].of \subseteq Artifacts
  BY DEF Steps, Live, ReadInv, ArtifactsInv, TypeOK
<1>1. UNCHANGED <<version, refs>>
  BY DEF BeginCreate, VerifyToken, BeginDelete, List, PutObject, CleanUp, ReadSession, GetObject,
         Remove, Purge, Crash, stored
<1>2. CASE Ends(t) BY <1>1, <1>2, EndIsSeen
<1>3. CASE BeginCreate(t)
  <2>1. PICK a \in Unused : Loads(t, "create", "putting", {a}) BY <1>3 DEF BeginCreate
  <2>2. {a} \in SUBSET Artifacts BY DEF Unused
  <2> QED BY <1>0, <1>1, <2>1, <2>2, LoadIsSeen
<1>4. CASE VerifyToken(t)
  <2>1. PICK a \in tokens :
          task' = [task EXCEPT ![t] = [op |-> "read", step |-> "verified", of |-> {a},
                                       version |-> Deleted]]
    BY <1>4 DEF VerifyToken
  <2>2. /\ task'[t].step = "verified" /\ task'[t].version = Deleted
        /\ \A u \in Tasks : u # t => task'[u] = task[u]
    BY <2>1 DEF ReadInv, ArtifactsInv, TypeOK
  <2>3. Deleted <= version BY DEF Deleted, ReadInv, ArtifactsInv, TypeOK
  <2>4. Seen(task'[t]) BY <2>2, <2>3 DEF Seen, Reading
  <2> QED BY <1>1, <2>2, <2>4, OneIsSeen DEF ReadInv
<1>5. CASE BeginDelete(t)
  <2>1. PICK a \in Live : Loads(t, "delete", "removing", {a}) BY <1>5 DEF BeginDelete
  <2>2. {a} \in SUBSET Artifacts BY DEF Live
  <2> QED BY <1>0, <1>1, <2>1, <2>2, LoadIsSeen
<1>6. CASE List(t)
  <2>1. {} \in SUBSET Artifacts /\ Loads(t, "retain", "listed", {}) BY <1>6 DEF List
  <2> QED BY <1>0, <1>1, <2>1, LoadIsSeen
<1>7. CASE PutObject(t)
  BY <1>0, <1>1, <1>2, <1>7, MoveIsSeen DEF PutObject, At
<1>8. CASE ReadSession(t)
  BY <1>0, <1>1, <1>2, <1>8, LoadIsSeen DEF ReadSession
<1>9. CASE GetObject(t)
  BY <1>0, <1>1, <1>2, <1>9, MoveIsSeen DEF GetObject, At
<1>10. CASE Remove(t)
  <2>1. CASE UNCHANGED task BY <1>1, <2>1 DEF ReadInv, ReadsAreSeen, Seen, Live
  <2>2. CASE GoesTo(t, "saving") BY <1>0, <1>1, <1>10, <2>2, MoveIsSeen DEF Remove
  <2> QED BY <1>2, <1>10, <2>1, <2>2 DEF Remove
<1>11. CASE Purge(t)
  <2>1. CASE GoesTo(t, "deleting") BY <1>0, <1>1, <1>11, <2>1, MoveIsSeen DEF Purge, At
  <2>2. CASE Loads(t, "retain", "removing", Live) BY <1>0, <1>1, <2>2, LoadIsSeen
  <2> QED BY <1>2, <1>11, <2>1, <2>2 DEF Purge
<1>12. CleanUp(t) \/ Crash(t) => Ends(t) BY DEF CleanUp, Crash
<1> QED BY <1>2, <1>3, <1>4, <1>5, <1>6, <1>7, <1>8, <1>9, <1>10, <1>11, <1>12

LEMMA StepReads == ASSUME ReadInv, [Next]_vars PROVE ReadsAreSeen'
<1>1. TypeOK /\ ReadsAreSeen BY DEF ReadInv, ArtifactsInv
<1>2. ASSUME NEW t \in Tasks, DeleteSession(t) PROVE ReadsAreSeen'
  BY <1>2 DEF DeleteSession, ReadsAreSeen
<1>3. ASSUME NEW t \in Tasks, BeginCreate(t) \/ VerifyToken(t) \/ BeginDelete(t) \/ List(t)
                               \/ Step(t) \/ Crash(t)
      PROVE  ReadsAreSeen'
  BY <1>2, <1>3, TasksAreSeen, SavesAreSeen DEF Step
<1>4. CASE Complete
  BY <1>1, <1>4, SaveOutdates DEF Complete
<1>5. CASE IssueAccess \/ TokenExpires \/ UNCHANGED vars
  <2>1. UNCHANGED <<version, refs, task>> BY <1>5 DEF IssueAccess, TokenExpires, vars, stored
  <2> QED BY <1>1, <2>1 DEF ReadsAreSeen, Seen, Live
<1> QED BY <1>3, <1>4, <1>5 DEF Next

LEMMA ReadInvHolds == Spec => []ReadInv
<1>1. Init => ReadInv
  <2> SUFFICES ASSUME Init PROVE ReadsAreSeen BY InitArtifacts DEF ReadInv
  <2>1. Seen(Idle) BY DEF Init, Seen, Reading, Idle, Deleted
  <2> QED BY <2>1 DEF Init, ReadsAreSeen
<1>2. ReadInv /\ [Next]_vars => ReadInv' BY StepArtifacts, StepReads DEF ReadInv
<1> QED BY <1>1, <1>2, PTL DEF Spec

\* Only the save of the audit event returns bytes.
LEMMA OnlyReadsReturn ==
  ASSUME [Next]_vars, NEW r \in returned' \ returned
  PROVE  \E t \in Tasks : ReadSaves(t)
<1>1. UNCHANGED vars \/ IssueAccess \/ TokenExpires \/ Complete => returned' = returned
  BY DEF vars, IssueAccess, TokenExpires, Complete, history
<1>2. ASSUME NEW t \in Tasks, BeginCreate(t) \/ VerifyToken(t) \/ BeginDelete(t) \/ List(t)
                               \/ Step(t) \/ Crash(t), ~ReadSaves(t)
      PROVE  returned' = returned
  BY <1>2 DEF BeginCreate, VerifyToken, BeginDelete, List, Step, Crash, PutObject, CreateSaves,
              CleanUp, ReadSession, GetObject, Remove, DeleteSaves, Purge, DeleteSession, history
<1> QED BY <1>1, <1>2 DEF Next

LEMMA ReadSavesAudits ==
  ASSUME ReadInv, NEW t \in Tasks, ReadSaves(t), NEW r \in returned' \ returned
  PROVE  refs[r[1]] = "live" /\ r \in accessed'
<1>1. /\ Fresh(t) /\ Returns(t)
      /\ accessed' = accessed \cup {<<a, version>> : a \in task[t].of}
  BY DEF ReadSaves, Saves
<1>2. PICK a \in task[t].of : r = <<a, task[t].version>> BY <1>1 DEF Returns
<1>3. task[t].version = version /\ version # Deleted BY <1>1 DEF Fresh
<1>4. a \in Live
  BY <1>3 DEF ReadSaves, At, ReadInv, ReadsAreSeen, Seen, Reading
<1> QED BY <1>1, <1>2, <1>3, <1>4 DEF Live
-----------------------------------------------------------------------------
\* For any tasks, artifacts and number of saves, with and without faults: live metadata
\* without bytes was being deleted (delete, purge_session of artifact_service.py).
THEOREM BytesAreMissingOnlyByDeletion == Spec => []MissingOnlyByDeletion
<1>1. ArtifactsInv => MissingOnlyByDeletion BY DEF ArtifactsInv
<1> QED BY <1>1, ArtifactsInvHolds, PTL

\* Bytes without metadata belong to a creation that did not end well (create), or that
\* retention overtook (run of retention.py).
THEOREM UnreferencedBytesAreStray == Spec => []UnreferencedIsStray
<1>1. ArtifactsInv => UnreferencedIsStray BY DEF ArtifactsInv
<1> QED BY <1>1, ArtifactsInvHolds, PTL

\* What the metadata call deleted has no bytes any more, and never gets any again.
THEOREM DeletedBytesAreGone == Spec => []DeletedIsGone
<1>1. ArtifactsInv => DeletedIsGone BY DEF ArtifactsInv
<1> QED BY <1>1, ArtifactsInvHolds, PTL
\* Bytes are returned in the step that logs the access, of an artifact that the stored
\* session lists as live at that moment (read_token of artifact_service.py).
THEOREM ReadsAreAudited == Spec => ReadIsAudited
<1>1. ReadInv /\ [Next]_vars =>
        [\A r \in returned' \ returned : refs[r[1]] = "live" /\ r \in accessed']_vars
  BY OnlyReadsReturn, ReadSavesAudits
<1> QED BY <1>1, ReadInvHolds, PTL DEF Spec, ReadIsAudited
=============================================================================
