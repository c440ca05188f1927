------------------------ MODULE SessionStoreProofs ------------------------
(***************************************************************************)
(* Optimistic versioning makes session operations atomic, for any number   *)
(* of sessions, requests and saves and for each of the three backends.     *)
(***************************************************************************)
EXTENDS SessionStore, TLAPS

(* What makes version comparison sufficient, part by part.                 *)

(* Stored rows have been issued and carry a version of at least 1. *)
RowsIssued ==
  \A s \in Sessions : Stored(s) => s \in issued /\ sessions[s].version >= 1

(* A held copy belongs to an issued id, and only a draft is empty. *)
CopiesIssued ==
  \A w \in Writers : Holds(w) =>
    /\ req[w].sid \in issued
    /\ req[w].version = 0 => req[w].payload = <<>>

(* A draft (version 0) is held by one request only, and its id has never   *)
(* been stored: this is what uuid4 ids give, and what forbids a deleted    *)
(* session from coming back at an old version.                             *)
DraftsExclusive ==
  \A w \in Writers : Holds(w) /\ req[w].version = 0 =>
    /\ ~Stored(req[w].sid)
    /\ \A v \in Writers : v # w /\ Holds(v) => req[v].sid # req[w].sid

(* No copy is ahead of the stored row. *)
CopiesBehind ==
  \A w \in Writers : Holds(w) /\ Stored(req[w].sid)
    => req[w].version <= sessions[req[w].sid].version

(* A row that a worker thread found missing does not come back, unless the *)
(* thread is about to insert it.                                           *)
MissingStaysMissing ==
  \A w \in Writers :
    req[w].phase \in {"selected", "detached"} /\ ~req[w].found /\ req[w].version # 0
      => ~Stored(req[w].sid)

StoreInv ==
  /\ TypeOK
  /\ RowsIssued
  /\ CopiesIssued
  /\ DraftsExclusive
  /\ CopiesBehind
  /\ MissingStaysMissing
  /\ VersionIdentifiesContent
  /\ ConflictIsReal

(* The initial state of the store satisfies the invariant.                 *)
LEMMA StoreInit == Init => StoreInv
  BY DEF Init, StoreInv, TypeOK, RowsIssued, CopiesIssued, DraftsExclusive,
         CopiesBehind, MissingStaysMissing, VersionIdentifiesContent,
         ConflictIsReal, Stored, Holds, Idle, Request, Phases

(* What every backend's acceptance test amounts to.                        *)
Accepts(w) ==
  \/ ~Stored(req[w].sid) /\ req[w].version = 0
  \/ Stored(req[w].sid) /\ sessions[req[w].sid].version = req[w].version

(* A held copy names a session.                                            *)
HeldCopiesNameSessions == \A w \in Writers : Holds(w) => req[w].sid \in Sessions

LEMMA HeldSid == StoreInv => HeldCopiesNameSessions
  BY DEF StoreInv, TypeOK, CopiesIssued, HeldCopiesNameSessions

(* A save that the store accepted keeps the invariant, whether its caller  *)
(* learns of it (its object moves on to the new version) or was cancelled. *)
LEMMA SaveKeepsInv ==
  ASSUME StoreInv, backend' = backend, NEW w \in Writers, Holds(w), Accepts(w),
         sessions' = [sessions EXCEPT ![req[w].sid] = NextRow(w)],
         \/ req' = [req EXCEPT ![w] = Idle]
         \/ req' = [req EXCEPT ![w] = Copy("loaded", req[w].sid, NextRow(w).version,
                                           NextRow(w).payload, FALSE)],
         issued' = issued,
         lock' \in Writers \cup {Free}
  PROVE  StoreInv'
<1> DEFINE s == req[w].sid
<1>1. s \in Sessions /\ s \in issued
  BY HeldSid DEF HeldCopiesNameSessions, StoreInv, CopiesIssued
<1>2. /\ req[w].version \in Nat /\ req[w].payload \in Seq(Writers)
      /\ NextRow(w) \in Row
      /\ NextRow(w).version = req[w].version + 1
      /\ NextRow(w).payload = Append(req[w].payload, w)
      /\ Absent \notin Row
  BY AbsentAssumption DEF StoreInv, TypeOK, Request, NextRow, Row
<1>3. /\ sessions'[s] = NextRow(w) /\ sessions'[s] # Absent
      /\ \A t \in Sessions : t # s => sessions'[t] = sessions[t]
  BY <1>1, <1>2 DEF StoreInv, TypeOK, Stored
<1>4. /\ \A v \in Writers : v # w => req'[v] = req[v]
      /\ Holds(w)' => /\ req'[w].sid = s /\ req'[w].version = req[w].version + 1
                      /\ req'[w].payload = NextRow(w).payload
                      /\ req'[w].phase = "loaded"
  BY <1>2 DEF StoreInv, TypeOK, Request, Holds, Idle, Copy
<1>5. TypeOK'
  <2>1. sessions' \in [Sessions -> Row \cup {Absent}]
    BY <1>1, <1>2 DEF StoreInv, TypeOK
  <2>2. req' \in [Writers -> Request]
    <3>1. Idle \in Request
      BY DEF Idle, Request, Phases
    <3>2. NextRow(w).version \in Nat /\ NextRow(w).payload \in Seq(Writers)
      BY <1>2 DEF Row
    <3>3. Copy("loaded", s, NextRow(w).version, NextRow(w).payload, FALSE) \in Request
      BY <1>1, <3>2 DEF Copy, Request, Phases
    <3>4. QED
      BY <3>1, <3>3 DEF StoreInv, TypeOK
  <2>3. QED
    BY <2>1, <2>2 DEF StoreInv, TypeOK
<1>6. RowsIssued'
  BY <1>1, <1>2, <1>3 DEF StoreInv, RowsIssued, Stored
<1>7. CopiesIssued'
  <2> SUFFICES ASSUME NEW v \in Writers, Holds(v)'
               PROVE  req'[v].sid \in issued /\ (req'[v].version = 0 => req'[v].payload = <<>>)
    BY DEF CopiesIssued
  <2>1. CASE v = w
    <3>1. req'[v].sid = s /\ req'[v].version = req[w].version + 1 BY <1>4, <2>1
    <3>2. req'[v].version # 0 BY <1>2, <3>1
    <3> QED BY <1>1, <3>1, <3>2
  <2>2. CASE v # w
    <3>1. req'[v] = req[v] /\ Holds(v) BY <1>4, <2>2 DEF Holds
    <3> QED BY <3>1 DEF StoreInv, CopiesIssued
  <2> QED BY <2>1, <2>2
<1>8. DraftsExclusive'
  <2> SUFFICES ASSUME NEW u \in Writers, Holds(u)', req'[u].version = 0
               PROVE  /\ sessions'[req'[u].sid] = Absent
                      /\ \A v \in Writers : v # u /\ Holds(v)' => req'[v].sid # req'[u].sid
    BY DEF DraftsExclusive, Stored
  <2>1. u # w
    BY <1>2, <1>4
  <2>2. /\ Holds(u) /\ req'[u] = req[u] /\ req[u].version = 0
        /\ req[u].sid \in Sessions /\ ~Stored(req[u].sid)
        /\ \A v \in Writers : v # u /\ Holds(v) => req[v].sid # req[u].sid
    BY <2>1, <1>4, HeldSid DEF StoreInv, DraftsExclusive, Holds, HeldCopiesNameSessions
  <2>3. req[u].sid # s
    BY <2>1, <2>2
  <2>4. sessions'[req'[u].sid] = Absent
    BY <2>2, <2>3, <1>3 DEF Stored
  <2>5. ASSUME NEW v \in Writers, v # u, Holds(v)'
        PROVE  req'[v].sid # req'[u].sid
    BY <2>5, <2>2, <2>3, <1>4 DEF Holds
  <2>6. QED
    BY <2>4, <2>5
<1>9. ASSUME NEW u \in Writers, Holds(u)', u # w, req[u].sid = s
      PROVE  /\ Holds(u) /\ req'[u] = req[u]
             /\ req[u].version <= req[w].version
  <2>1. Holds(u) /\ req'[u] = req[u] /\ req[u].version \in Nat
    BY <1>9, <1>4 DEF Holds, StoreInv, TypeOK, Request
  <2>2. CASE Stored(s)
    BY <2>1, <2>2, <1>9 DEF StoreInv, CopiesBehind, Accepts
  <2>3. CASE ~Stored(s)
    BY <2>1, <2>3, <1>9 DEF StoreInv, DraftsExclusive, Accepts
  <2>4. QED
    BY <2>2, <2>3
<1>10. CopiesBehind' /\ VersionIdentifiesContent'
  <2> SUFFICES ASSUME NEW u \in Writers, Holds(u)', sessions'[req'[u].sid] # Absent
               PROVE  /\ req'[u].version <= sessions'[req'[u].sid].version
                      /\ sessions'[req'[u].sid].version = req'[u].version
                           => sessions'[req'[u].sid].payload = req'[u].payload
    BY DEF CopiesBehind, VersionIdentifiesContent, Stored
  <2>1. CASE u = w
    <3>1. req'[u].sid = s /\ req'[u].version = NextRow(w).version
          /\ req'[u].payload = NextRow(w).payload
      BY <2>1, <1>2, <1>4
    <3>2. req'[u].version \in Nat
      BY <3>1, <1>2
    <3>3. QED
      BY <3>1, <3>2, <1>3
  <2>2. CASE u # w /\ req[u].sid = s
    <3>1. req'[u] = req[u] /\ req[u].version <= req[w].version
      BY <2>2, <1>9
    <3>2. req[u].version \in Nat
      BY DEF StoreInv, TypeOK, Request
    <3>3. sessions'[req'[u].sid].version = req[w].version + 1
      BY <3>1, <2>2, <1>2, <1>3
    <3>4. QED
      BY <3>1, <3>2, <3>3, <1>2
  <2>3. CASE u # w /\ req[u].sid # s
    <3>1. Holds(u) /\ req'[u] = req[u] /\ req[u].sid \in Sessions
      BY <2>3, <1>4, HeldSid DEF Holds, HeldCopiesNameSessions
    <3>2. sessions'[req[u].sid] = sessions[req[u].sid] /\ Stored(req[u].sid)
      BY <3>1, <2>3, <1>3 DEF Stored
    <3>3. QED
      BY <3>1, <3>2 DEF StoreInv, CopiesBehind, VersionIdentifiesContent
  <2>4. QED
    BY <2>1, <2>2, <2>3
<1>11. ConflictIsReal'
  <2> SUFFICES ASSUME NEW u \in Writers, req'[u].phase = "conflict"
               PROVE  \/ sessions'[req'[u].sid] = Absent
                      \/ sessions'[req'[u].sid].version > req'[u].version
    BY DEF ConflictIsReal, Stored
  <2>1. u # w /\ req'[u] = req[u] /\ Holds(u) /\ Holds(u)' /\ req[u].sid \in Sessions
    <3>1. u # w
      BY <1>4 DEF StoreInv, TypeOK, Holds
    <3>2. QED
      BY <3>1, <1>4, HeldSid DEF Holds, HeldCopiesNameSessions
  <2>2. CASE req[u].sid = s
    BY <2>1, <2>2, <1>2, <1>3, <1>9 DEF StoreInv, TypeOK, Request
  <2>3. CASE req[u].sid # s
    <3>1. sessions'[req[u].sid] = sessions[req[u].sid]
      BY <2>1, <2>3, <1>3
    <3>2. ~Stored(req[u].sid) \/ sessions[req[u].sid].version > req[u].version
      BY <2>1 DEF StoreInv, ConflictIsReal
    <3>3. QED
      BY <3>1, <3>2, <2>1 DEF Stored
  <2>4. QED
    BY <2>2, <2>3
<1>12. MissingStaysMissing'
  <2> SUFFICES ASSUME NEW u \in Writers, req'[u].phase \in {"selected", "detached"},
                      ~req'[u].found, req'[u].version # 0
               PROVE  sessions'[req'[u].sid] = Absent
    BY DEF MissingStaysMissing, Stored
  <2>1. u # w
    BY <1>4 DEF Holds
  <2>2. /\ req'[u] = req[u] /\ Holds(u) /\ req[u].sid \in Sessions
        /\ sessions[req[u].sid] = Absent
    BY <2>1, <1>4, HeldSid
       DEF StoreInv, MissingStaysMissing, Stored, Holds, HeldCopiesNameSessions
  <2>3. req[u].sid # s
    BY <2>1, <2>2 DEF StoreInv, DraftsExclusive, Accepts, Stored
  <2>4. QED
    BY <2>2, <2>3, <1>3
<1>13. QED
  BY <1>5, <1>6, <1>7, <1>8, <1>10, <1>11, <1>12 DEF StoreInv

(* The acceptance tests of the three backends are the same test.           *)
LEMMA BackendsAgree ==
  ASSUME StoreInv, NEW w \in Writers, Holds(w)
  PROVE  /\ MemoryAccepts(w) <=> Accepts(w)
         /\ PostgresAccepts(w) <=> Accepts(w)
         /\ SqliteAccepts(w) => Accepts(w)
<1>1. req[w].version = 0 => ~Stored(req[w].sid)
  BY DEF StoreInv, DraftsExclusive
<1>2. QED
  BY <1>1 DEF MemoryAccepts, PostgresAccepts, SqliteAccepts, Accepts

(* A save that is refused is behind the stored row, or the row is gone.    *)
LEMMA RefusedIsBehind ==
  ASSUME StoreInv, NEW w \in Writers, Holds(w), ~Accepts(w)
  PROVE  ~Stored(req[w].sid) \/ sessions[req[w].sid].version > req[w].version
<1>1. SUFFICES ASSUME Stored(req[w].sid)
               PROVE  sessions[req[w].sid].version > req[w].version
  OBVIOUS
<1>2. /\ req[w].version <= sessions[req[w].sid].version
      /\ sessions[req[w].sid].version # req[w].version
  BY <1>1 DEF StoreInv, CopiesBehind, Accepts
<1>3. req[w].version \in Nat /\ sessions[req[w].sid].version \in Nat
  BY <1>1, HeldSid DEF StoreInv, TypeOK, Request, Row, Stored, HeldCopiesNameSessions
<1>4. QED
  BY <1>2, <1>3

(* A step that only moves one request to another phase, with the same copy,*)
(* keeps the invariant; it may end in "conflict" only when the save was    *)
(* rightly refused.                                                        *)
LEMMA PhaseKeepsInv ==
  ASSUME StoreInv, backend' = backend, NEW w \in Writers, Holds(w),
         NEW p \in Phases \ {"idle"}, NEW f \in BOOLEAN,
         p = "conflict" => ~Stored(req[w].sid)
                             \/ sessions[req[w].sid].version > req[w].version,
         p \in {"selected", "detached"} /\ ~f /\ req[w].version # 0 => ~Stored(req[w].sid),
         sessions' = sessions, issued' = issued, lock' \in Writers \cup {Free},
         req' = [req EXCEPT ![w] = Copy(p, req[w].sid, req[w].version,
                                        req[w].payload, f)]
  PROVE  StoreInv'
<1>1. /\ \A v \in Writers : /\ req'[v].sid = req[v].sid
                             /\ req'[v].version = req[v].version
                             /\ req'[v].payload = req[v].payload
                             /\ Holds(v)' <=> Holds(v)
                             /\ v # w => req'[v] = req[v]
      /\ req'[w].phase = p /\ req'[w].found = f
  BY DEF StoreInv, TypeOK, Copy, Holds
<1>3. TypeOK'
  BY DEF StoreInv, TypeOK, Request, Copy
<1>4. RowsIssued' /\ CopiesIssued'
  BY <1>1 DEF StoreInv, RowsIssued, CopiesIssued, Stored, Holds
<1>5. DraftsExclusive'
  <2> SUFFICES ASSUME NEW u \in Writers, Holds(u)', req'[u].version = 0
               PROVE  /\ sessions'[req'[u].sid] = Absent
                      /\ \A v \in Writers : v # u /\ Holds(v)' => req'[v].sid # req'[u].sid
    BY DEF DraftsExclusive, Stored
  <2>1. Holds(u) /\ req[u].version = 0
    BY <1>1 DEF Holds
  <2>2. /\ sessions[req[u].sid] = Absent
        /\ \A v \in Writers : v # u /\ Holds(v) => req[v].sid # req[u].sid
    BY <2>1 DEF StoreInv, DraftsExclusive, Stored
  <2>3. QED
    BY <1>1, <2>2 DEF Holds
<1>6. CopiesBehind' /\ VersionIdentifiesContent'
  <2> SUFFICES ASSUME NEW u \in Writers, Holds(u)', sessions'[req'[u].sid] # Absent
               PROVE  /\ req'[u].version <= sessions'[req'[u].sid].version
                      /\ sessions'[req'[u].sid].version = req'[u].version
                           => sessions'[req'[u].sid].payload = req'[u].payload
    BY DEF CopiesBehind, VersionIdentifiesContent, Stored
  <2>1. Holds(u) /\ sessions[req[u].sid] # Absent
    BY <1>1 DEF Holds
  <2>2. /\ req[u].version <= sessions[req[u].sid].version
        /\ sessions[req[u].sid].version = req[u].version
             => sessions[req[u].sid].payload = req[u].payload
    BY <2>1 DEF StoreInv, CopiesBehind, VersionIdentifiesContent, Stored
  <2>3. QED
    BY <1>1, <2>2 DEF Holds
<1>7. ConflictIsReal'
  <2> SUFFICES ASSUME NEW u \in Writers, req'[u].phase = "conflict"
               PROVE  \/ sessions'[req'[u].sid] = Absent
                      \/ sessions'[req'[u].sid].version > req'[u].version
    BY DEF ConflictIsReal, Stored
  <2>1. \/ sessions[req[u].sid] = Absent
        \/ sessions[req[u].sid].version > req[u].version
    BY <1>1 DEF StoreInv, ConflictIsReal, Stored
  <2>2. QED
    BY <1>1, <2>1
<1>8. MissingStaysMissing'
  <2> SUFFICES ASSUME NEW u \in Writers, req'[u].phase \in {"selected", "detached"},
                      ~req'[u].found, req'[u].version # 0
               PROVE  sessions'[req'[u].sid] = Absent
    BY DEF MissingStaysMissing, Stored
  <2>1. CASE u = w
    BY <2>1, <1>1 DEF Stored
  <2>2. CASE u # w
    BY <2>2, <1>1 DEF StoreInv, MissingStaysMissing, Stored
  <2>3. QED
    BY <2>1, <2>2
<1>9. QED
  BY <1>3, <1>4, <1>5, <1>6, <1>7, <1>8 DEF StoreInv

(* A step in which requests only drop their copies keeps the invariant,    *)
(* whatever rows are deleted with it.                                      *)
LEMMA DropKeepsInv ==
  ASSUME StoreInv, backend' = backend, issued' = issued, lock' \in Writers \cup {Free},
         sessions' \in [Sessions -> Row \cup {Absent}],
         \A s \in Sessions : sessions'[s] \in {sessions[s], Absent},
         req' \in [Writers -> Request],
         \A v \in Writers : req'[v] = req[v] \/ req'[v] = Idle
  PROVE  StoreInv'
<1>1. \A v \in Writers : Holds(v)' => /\ Holds(v) /\ req'[v] = req[v]
                                      /\ req[v].sid \in Sessions
  BY HeldSid DEF Holds, Idle, HeldCopiesNameSessions
<1>2. \A s \in Sessions : Stored(s)' => Stored(s) /\ sessions'[s] = sessions[s]
  BY DEF Stored
<1>3. TypeOK'
  BY DEF StoreInv, TypeOK
<1>4. RowsIssued' /\ CopiesIssued'
  BY <1>1, <1>2 DEF StoreInv, RowsIssued, CopiesIssued
<1>5. DraftsExclusive'
  BY <1>1, <1>2 DEF StoreInv, DraftsExclusive
<1>6. CopiesBehind' /\ VersionIdentifiesContent'
  BY <1>1, <1>2 DEF StoreInv, CopiesBehind, VersionIdentifiesContent
<1>7. ConflictIsReal'
  <2>1. \A v \in Writers : req'[v].phase = "conflict" => Holds(v)'
    BY DEF Holds
  <2>2. QED
    BY <1>1, <1>2, <2>1 DEF StoreInv, ConflictIsReal
<1>8. MissingStaysMissing'
  <2> SUFFICES ASSUME NEW u \in Writers, req'[u].phase \in {"selected", "detached"},
                      ~req'[u].found, req'[u].version # 0
               PROVE  sessions'[req'[u].sid] = Absent
    BY DEF MissingStaysMissing, Stored
  <2>1. Holds(u)'
    BY DEF Holds
  <2>2. sessions[req[u].sid] = Absent /\ req'[u] = req[u] /\ req[u].sid \in Sessions
    BY <2>1, <1>1 DEF StoreInv, MissingStaysMissing, Stored
  <2>3. QED
    BY <2>2
<1>9. QED
  BY <1>3, <1>4, <1>5, <1>6, <1>7, <1>8 DEF StoreInv


(* A fresh draft shares its id with no row and no other copy.              *)
LEMMA NewSessionKeepsInv ==
  ASSUME StoreInv, backend' = backend, NEW w \in Writers, NEW s \in Sessions, NewSession(w, s)
  PROVE  StoreInv'
<1>1. /\ \A v \in Writers : v # w => req'[v] = req[v]
      /\ req'[w] = Copy("loaded", s, 0, <<>>, FALSE)
      /\ sessions' = sessions /\ issued' = issued \cup {s} /\ s \notin issued
      /\ lock' = lock
  BY DEF StoreInv, TypeOK, NewSession
<1>2. /\ req'[w].sid = s /\ req'[w].version = 0 /\ req'[w].payload = <<>>
      /\ req'[w].phase = "loaded"
  BY <1>1 DEF Copy
<1>3. /\ sessions[s] = Absent
      /\ \A v \in Writers : Holds(v) => req[v].sid # s
  BY <1>1 DEF StoreInv, RowsIssued, CopiesIssued, Stored
<1>4. TypeOK'
  <2>1. Copy("loaded", s, 0, <<>>, FALSE) \in Request
    BY DEF Copy, Request, Phases
  <2>2. QED
    BY <1>1, <2>1 DEF StoreInv, TypeOK, NewSession
<1>5. RowsIssued' /\ CopiesIssued'
  BY <1>1, <1>2 DEF StoreInv, RowsIssued, CopiesIssued, Stored, Holds
<1>6. DraftsExclusive'
  <2> SUFFICES ASSUME NEW u \in Writers, req'[u].phase # "idle", req'[u].version = 0
               PROVE  /\ sessions'[req'[u].sid] = Absent
                      /\ \A v \in Writers : v # u /\ req'[v].phase # "idle"
                                                => req'[v].sid # req'[u].sid
    BY DEF DraftsExclusive, Stored, Holds
  <2>1. CASE u = w
    BY <2>1, <1>1, <1>2, <1>3 DEF Holds
  <2>2. CASE u # w
    <3>1. /\ req'[u] = req[u] /\ sessions[req[u].sid] = Absent
          /\ \A v \in Writers : v # u /\ req[v].phase # "idle" => req[v].sid # req[u].sid
      BY <2>2, <1>1 DEF Holds, StoreInv, DraftsExclusive, Stored
    <3>2. req[u].sid # s
      BY <3>1, <1>3 DEF Holds
    <3>3. QED
      BY <3>1, <3>2, <1>1, <1>2
  <2>3. QED
    BY <2>1, <2>2
<1>7. CopiesBehind' /\ VersionIdentifiesContent'
  BY <1>1, <1>2, <1>3 DEF StoreInv, CopiesBehind, VersionIdentifiesContent, Stored, Holds
<1>8. ConflictIsReal'
  BY <1>1, <1>2 DEF StoreInv, ConflictIsReal, Stored
<1>9. MissingStaysMissing'
  <2> SUFFICES ASSUME NEW u \in Writers, req'[u].phase \in {"selected", "detached"},
                      ~req'[u].found, req'[u].version # 0
               PROVE  sessions'[req'[u].sid] = Absent
    BY DEF MissingStaysMissing, Stored
  <2>1. u # w
    BY <1>2
  <2>2. QED
    BY <2>1, <1>1 DEF StoreInv, MissingStaysMissing, Stored
<1>10. QED
  BY <1>4, <1>5, <1>6, <1>7, <1>8, <1>9 DEF StoreInv

(* A loaded copy equals the row it was loaded from.                        *)
LEMMA GetSessionKeepsInv ==
  ASSUME StoreInv, backend' = backend, NEW w \in Writers, NEW s \in Sessions, GetSession(w, s)
  PROVE  StoreInv'
<1>1. /\ \A v \in Writers : v # w => req'[v] = req[v]
      /\ req'[w] = Copy("loaded", s, sessions[s].version, sessions[s].payload, FALSE)
      /\ sessions' = sessions /\ issued' = issued /\ lock' = lock
      /\ sessions[s] # Absent
  BY DEF StoreInv, TypeOK, GetSession, Stored
<1>2. /\ req'[w].sid = s /\ req'[w].version = sessions[s].version
      /\ req'[w].payload = sessions[s].payload
      /\ req'[w].phase = "loaded"
  BY <1>1 DEF Copy
<1>3. /\ sessions[s].version \in Nat /\ sessions[s].payload \in Seq(Writers)
      /\ sessions[s].version >= 1 /\ s \in issued
  BY <1>1 DEF StoreInv, TypeOK, Row, RowsIssued, Stored
<1>4. TypeOK'
  <2>1. Copy("loaded", s, sessions[s].version, sessions[s].payload, FALSE) \in Request
    BY <1>3 DEF Copy, Request, Phases
  <2>2. QED
    BY <1>1, <2>1 DEF StoreInv, TypeOK, GetSession
<1>5. RowsIssued' /\ CopiesIssued'
  <2>1. RowsIssued'
    BY <1>1 DEF StoreInv, RowsIssued, Stored
  <2>2. ASSUME NEW u \in Writers, req'[u].phase # "idle"
        PROVE  req'[u].sid \in issued' /\ (req'[u].version = 0 => req'[u].payload = <<>>)
    <3>1. CASE u = w
      <4>1. req'[u].version # 0
        BY <3>1, <1>2, <1>3
      <4>2. req'[u].sid \in issued'
        BY <3>1, <1>1, <1>2, <1>3
      <4>3. QED
        BY <4>1, <4>2
    <3>2. CASE u # w
      BY <2>2, <3>2, <1>1 DEF StoreInv, CopiesIssued, Holds
    <3>3. QED
      BY <3>1, <3>2
  <2>3. QED
    BY <2>1, <2>2 DEF CopiesIssued, Holds
<1>6. DraftsExclusive'
  <2> SUFFICES ASSUME NEW u \in Writers, req'[u].phase # "idle", req'[u].version = 0
               PROVE  /\ sessions'[req'[u].sid] = Absent
                      /\ \A v \in Writers : v # u /\ req'[v].phase # "idle"
                                                => req'[v].sid # req'[u].sid
    BY DEF DraftsExclusive, Stored, Holds
  <2>1. u # w /\ req'[u] = req[u]
    <3>1. req'[w].version # 0
      BY <1>2, <1>3
    <3>2. QED
      BY <3>1, <1>1
  <2>2. /\ sessions[req[u].sid] = Absent
        /\ \A v \in Writers : v # u /\ req[v].phase # "idle" => req[v].sid # req[u].sid
    BY <2>1 DEF Holds, StoreInv, DraftsExclusive, Stored
  <2>3. req[u].sid # s
    BY <2>2, <1>1
  <2>4. QED
    BY <2>1, <2>2, <2>3, <1>1, <1>2
<1>7. CopiesBehind' /\ VersionIdentifiesContent'
  <2> SUFFICES ASSUME NEW u \in Writers, req'[u].phase # "idle",
                      sessions'[req'[u].sid] # Absent
               PROVE  /\ req'[u].version <= sessions'[req'[u].sid].version
                      /\ sessions'[req'[u].sid].version = req'[u].version
                           => sessions'[req'[u].sid].payload = req'[u].payload
    BY DEF CopiesBehind, VersionIdentifiesContent, Stored, Holds
  <2>1. CASE u = w
    <3>1. sessions'[req'[u].sid] = sessions[s]
      BY <2>1, <1>1, <1>2
    <3>2. /\ req'[u].version = sessions[s].version
          /\ req'[u].payload = sessions[s].payload
      BY <2>1, <1>2
    <3>3. QED
      BY <3>1, <3>2, <1>3
  <2>2. CASE u # w
    BY <2>2, <1>1 DEF StoreInv, CopiesBehind, VersionIdentifiesContent, Stored, Holds
  <2>3. QED
    BY <2>1, <2>2
<1>8. ConflictIsReal'
  BY <1>1, <1>2 DEF StoreInv, ConflictIsReal, Stored
<1>9. MissingStaysMissing'
  <2> SUFFICES ASSUME NEW u \in Writers, req'[u].phase \in {"selected", "detached"},
                      ~req'[u].found, req'[u].version # 0
               PROVE  sessions'[req'[u].sid] = Absent
    BY DEF MissingStaysMissing, Stored
  <2>1. u # w
    BY <1>2
  <2>2. QED
    BY <2>1, <1>1 DEF StoreInv, MissingStaysMissing, Stored
<1>10. QED
  BY <1>4, <1>5, <1>6, <1>7, <1>8, <1>9 DEF StoreInv

(* Every step of the store and of its clients keeps the invariant.         *)
LEMMA StoreStep == StoreInv /\ [Next]_vars => StoreInv'
<1> SUFFICES ASSUME StoreInv, [Next]_vars
             PROVE  StoreInv'
  OBVIOUS
<1>0. backend' = backend
  BY DEF Next, vars
<1>1. ASSUME NEW w \in Writers, NEW s \in Sessions, NewSession(w, s)
      PROVE  StoreInv'
  BY <1>1, <1>0, NewSessionKeepsInv
<1>2. ASSUME NEW w \in Writers, NEW s \in Sessions, GetSession(w, s)
      PROVE  StoreInv'
  BY <1>2, <1>0, GetSessionKeepsInv
<1>3. ASSUME NEW w \in Writers, MemoryPut(w)
      PROVE  StoreInv'
  <2>1. Holds(w) /\ issued' = issued /\ lock' \in Writers \cup {Free}
    BY <1>3 DEF MemoryPut, Holds, StoreInv, TypeOK
  <2>2. CASE MemoryAccepts(w) /\ Saved(w)
    BY <2>1, <2>2, BackendsAgree, <1>0, SaveKeepsInv DEF Saved
  <2>3. CASE ~MemoryAccepts(w) /\ Conflict(w)
    BY <2>1, <2>3, BackendsAgree, RefusedIsBehind, <1>0, PhaseKeepsInv
       DEF Conflict, InPhase, Phases, StoreInv, TypeOK, Request
  <2>4. QED
    BY <1>3, <2>2, <2>3 DEF MemoryPut
<1>4. ASSUME NEW w \in Writers, PostgresPut(w)
      PROVE  StoreInv'
  <2>1. Holds(w) /\ issued' = issued /\ lock' \in Writers \cup {Free}
    BY <1>4 DEF PostgresPut, Holds, StoreInv, TypeOK
  <2>2. CASE PostgresAccepts(w) /\ Saved(w)
    BY <2>1, <2>2, BackendsAgree, <1>0, SaveKeepsInv DEF Saved
  <2>3. CASE ~PostgresAccepts(w) /\ Conflict(w)
    BY <2>1, <2>3, BackendsAgree, RefusedIsBehind, <1>0, PhaseKeepsInv
       DEF Conflict, InPhase, Phases, StoreInv, TypeOK, Request
  <2>4. QED
    BY <1>4, <2>2, <2>3 DEF PostgresPut
<1>5. ASSUME NEW w \in Writers, SqliteSelect(w)
      PROVE  StoreInv'
  <2>1. /\ Holds(w) /\ issued' = issued /\ sessions' = sessions
        /\ lock' \in Writers \cup {Free}
    BY <1>5 DEF SqliteSelect, Holds
  <2>2. Stored(req[w].sid) \in BOOLEAN
    BY DEF Stored
  <2>3. QED
    BY <1>5, <2>1, <2>2, <1>0, PhaseKeepsInv DEF SqliteSelect, Phases
<1>6. ASSUME NEW w \in Writers, CancelSave(w)
      PROVE  StoreInv'
  <2>1. /\ Holds(w) /\ issued' = issued /\ sessions' = sessions
        /\ lock' \in Writers \cup {Free} /\ req[w].found \in BOOLEAN
    BY <1>6 DEF CancelSave, Holds, StoreInv, TypeOK, Request
  <2>2. ~req[w].found /\ req[w].version # 0 => ~Stored(req[w].sid)
    BY <1>6 DEF CancelSave, StoreInv, MissingStaysMissing
  <2>3. QED
    BY <1>6, <2>1, <2>2, <1>0, PhaseKeepsInv DEF CancelSave, Phases, InPhase
<1>7. ASSUME NEW w \in Writers, SqliteWrite(w)
      PROVE  StoreInv'
  <2>1. Holds(w) /\ issued' = issued /\ lock' \in Writers \cup {Free}
    BY <1>7 DEF SqliteWrite, Holds
  <2>2. CASE SqliteAccepts(w) /\ Saved(w)
    BY <2>1, <2>2, BackendsAgree, <1>0, SaveKeepsInv DEF Saved
  <2>3. CASE ~SqliteAccepts(w) /\ Conflict(w)
    <3>1. Accepts(w) => ~Stored(req[w].sid)
      <4>1. ~req[w].found /\ req[w].version # 0 => ~Stored(req[w].sid)
        BY <1>7 DEF SqliteWrite, StoreInv, MissingStaysMissing
      <4>2. req[w].version = 0 => ~Stored(req[w].sid)
        BY <2>1 DEF StoreInv, DraftsExclusive
      <4>3. QED
        BY <2>3, <4>1, <4>2 DEF SqliteAccepts, Accepts
    <3>2. ~Stored(req[w].sid) \/ sessions[req[w].sid].version > req[w].version
      BY <3>1, <2>1, RefusedIsBehind
    <3>3. req[w].found \in BOOLEAN /\ sessions' = sessions
      BY <2>3 DEF StoreInv, TypeOK, Request, Conflict
    <3>4. QED
      BY <2>1, <2>3, <3>2, <3>3, <1>0, PhaseKeepsInv DEF Conflict, InPhase, Phases
  <2>4. QED
    BY <1>7, <2>2, <2>3 DEF SqliteWrite
<1>8. ASSUME NEW w \in Writers, DetachedWrite(w)
      PROVE  StoreInv'
  <2>1. Holds(w) /\ issued' = issued /\ lock' \in Writers \cup {Free}
    BY <1>8 DEF DetachedWrite, Holds, StoreInv, TypeOK
  <2>2. CASE SqliteAccepts(w)
    BY <1>8, <2>1, <2>2, BackendsAgree, <1>0, SaveKeepsInv DEF DetachedWrite
  <2>3. CASE ~SqliteAccepts(w)
    <3>1. sessions' = sessions /\ req' = [req EXCEPT ![w] = Idle]
      BY <1>8, <2>3 DEF DetachedWrite
    <3>2. QED
      BY <2>1, <3>1, <1>0, DropKeepsInv DEF StoreInv, TypeOK, Request, Idle, Phases
  <2>4. QED
    BY <2>2, <2>3
<1>9. ASSUME NEW w \in Writers, Finish(w)
      PROVE  StoreInv'
  BY <1>9, <1>0, DropKeepsInv DEF Finish, StoreInv, TypeOK, Request, Idle, Phases
<1>10. ASSUME NEW s \in Sessions, DeleteSession(s)
       PROVE  StoreInv'
  BY <1>10, <1>0, DropKeepsInv DEF DeleteSession, StoreInv, TypeOK
<1>11. CASE Crash
  <2>1. Idle \in Request
    BY DEF Idle, Request, Phases
  <2>2. sessions' \in [Sessions -> Row \cup {Absent}]
    BY <1>11 DEF Crash, StoreInv, TypeOK
  <2>3. \A s \in Sessions : sessions'[s] \in {sessions[s], Absent}
    BY <1>11 DEF Crash, StoreInv, TypeOK
  <2>4. QED
    BY <1>11, <2>1, <2>2, <2>3, <1>0, DropKeepsInv DEF Crash
<1>12. CASE UNCHANGED vars
  BY <1>12, <1>0, DropKeepsInv DEF vars, StoreInv, TypeOK
<1>13. QED
  BY <1>1, <1>2, <1>3, <1>4, <1>5, <1>6, <1>7, <1>8, <1>9, <1>10, <1>11, <1>12
     DEF Next, Request1

LEMMA StoreInvHolds == Spec => []StoreInv
  BY StoreInit, StoreStep, PTL DEF Spec

(* Rows, copies and locks keep their types, on each of the three backends. *)
THEOREM StoreTypesAreKept == Spec => []TypeOK
<1>1. StoreInv => TypeOK
  BY DEF StoreInv
<1>2. QED
  BY <1>1, StoreInvHolds, PTL

(* For any number of sessions and requests, and for each backend: a copy   *)
(* with the version of the stored row has its content, so that comparing   *)
(* versions in put_session compares contents.                              *)
THEOREM VersionsIdentifyContent == Spec => []VersionIdentifiesContent
<1>1. StoreInv => VersionIdentifiesContent
  BY DEF StoreInv
<1>2. QED
  BY <1>1, StoreInvHolds, PTL

(* put_session raises its conflict (409) only when the row is not what the *)
(* request loaded.                                                         *)
THEOREM ConflictsAreReal == Spec => []ConflictIsReal
<1>1. StoreInv => ConflictIsReal
  BY DEF StoreInv
<1>2. QED
  BY <1>1, StoreInvHolds, PTL

-----------------------------------------------------------------------------
(* An accepted save is one atomic operation on the session: it appends to  *)
(* what the row holds at that moment, or creates the session.              *)
LEMMA SaveIsAtomic ==
  ASSUME StoreInv, NEW w \in Writers, Holds(w), Accepts(w),
         sessions' = [sessions EXCEPT ![req[w].sid] = NextRow(w)]
  PROVE  Atomic!Next
<1> DEFINE s == req[w].sid
<1>1. s \in Sessions
  BY HeldSid DEF HeldCopiesNameSessions
<1>2. NextRow(w) \in Row /\ NextRow(w).payload = Append(req[w].payload, w)
  BY DEF StoreInv, TypeOK, Request, NextRow, Row
<1>3. NextRow(w) # Absent
  BY <1>2, AbsentAssumption
<1>4. /\ sessions'[s] = NextRow(w) /\ sessions'[s] # Absent
      /\ \A t \in Sessions : t # s => sessions'[t] = sessions[t]
  BY <1>1, <1>3 DEF StoreInv, TypeOK
<1>5. History' = [History EXCEPT ![s] = NextRow(w).payload]
  <2> DEFINE Shown(row) == IF row # Absent THEN row.payload ELSE Absent
  <2>1. History' = [t \in Sessions |-> Shown(sessions'[t])]
    BY DEF History, Stored
  <2>2. History = [t \in Sessions |-> Shown(sessions[t])]
    BY DEF History, Stored
  <2>3. Shown(sessions'[s]) = NextRow(w).payload
    BY <1>4
  <2>4. \A t \in Sessions : t # s => Shown(sessions'[t]) = Shown(sessions[t])
    BY <1>4
  <2> HIDE DEF Shown
  <2>5. QED
    BY <1>1, <2>1, <2>2, <2>3, <2>4
<1>6. CASE ~Stored(s)
  <2>1. req[w].payload = <<>>
    BY <1>6 DEF Accepts, StoreInv, CopiesIssued
  <2>2. NextRow(w).payload = <<w>>
    BY <1>2, <2>1
  <2>3. History[s] = Absent
    BY <1>1, <1>6 DEF History
  <2>4. Atomic!Create(w, s)
    BY <2>2, <2>3, <1>5 DEF Atomic!Create
  <2>5. QED
    BY <2>4, <1>1 DEF Atomic!Next
<1>7. CASE Stored(s)
  <2>1. sessions[s].payload = req[w].payload
    BY <1>7 DEF Accepts, StoreInv, VersionIdentifiesContent
  <2>2. History[s] = req[w].payload
    BY <1>1, <1>7, <2>1 DEF History
  <2>3. History[s] # Absent
    BY <2>2, AbsentAssumption DEF StoreInv, TypeOK, Request
  <2>4. Atomic!Commit(w, s)
    BY <2>2, <2>3, <1>2, <1>5 DEF Atomic!Commit
  <2>5. QED
    BY <2>4, <1>1 DEF Atomic!Next
<1>8. QED
  BY <1>6, <1>7

(* Every step of the store is an atomic operation or changes nothing that  *)
(* a reader of the sessions could see.                                     *)
LEMMA StepIsAtomic == StoreInv /\ [Next]_vars => [Atomic!Next]_History
<1> SUFFICES ASSUME StoreInv, [Next]_vars
             PROVE  Atomic!Next \/ History' = History
  OBVIOUS
<1>1. sessions' = sessions => History' = History
  BY DEF History, Stored
<1>2. ASSUME NEW w \in Writers, Holds(w),
             SqliteAccepts(w) \/ MemoryAccepts(w) \/ PostgresAccepts(w),
             sessions' = [sessions EXCEPT ![req[w].sid] = NextRow(w)]
      PROVE  Atomic!Next
  <2>1. Accepts(w)
    BY <1>2, BackendsAgree
  <2>2. QED
    BY <1>2, <2>1, SaveIsAtomic
<1>3. ASSUME NEW w \in Writers, MemoryPut(w) \/ PostgresPut(w) \/ SqliteWrite(w)
      PROVE  Atomic!Next \/ History' = History
  <2>1. Holds(w)
    BY <1>3 DEF MemoryPut, PostgresPut, SqliteWrite, Holds
  <2>2. CASE /\ SqliteAccepts(w) \/ MemoryAccepts(w) \/ PostgresAccepts(w)
             /\ Saved(w)
    BY <2>1, <2>2, <1>2 DEF Saved
  <2>3. CASE Conflict(w)
    BY <2>3, <1>1 DEF Conflict
  <2>4. QED
    BY <1>3, <2>2, <2>3 DEF MemoryPut, PostgresPut, SqliteWrite
<1>4. ASSUME NEW w \in Writers, DetachedWrite(w)
      PROVE  Atomic!Next \/ History' = History
  BY <1>1, <1>2, <1>4 DEF DetachedWrite, Holds
<1>5. ASSUME NEW w \in Writers,
             \/ \E s \in Sessions : NewSession(w, s) \/ GetSession(w, s)
             \/ SqliteSelect(w) \/ CancelSave(w) \/ Finish(w)
      PROVE  History' = History
  BY <1>1, <1>5 DEF NewSession, GetSession, SqliteSelect, CancelSave, Finish
<1>6. ASSUME NEW s \in Sessions, DeleteSession(s)
      PROVE  Atomic!Next
  <2>1. History' = [t \in Sessions |-> IF t \in {s} THEN Absent ELSE History[t]]
    BY <1>6 DEF DeleteSession, History, Stored, StoreInv, TypeOK
  <2>2. Atomic!Remove({s}) /\ {s} \in SUBSET Sessions
    BY <2>1 DEF Atomic!Remove
  <2>3. QED
    BY <2>2 DEF Atomic!Next
<1>7. CASE Crash
  <2>1. CASE backend = "memory"
    <3>1. History' = [t \in Sessions |-> IF t \in Sessions THEN Absent ELSE History[t]]
      BY <1>7, <2>1 DEF Crash, History, Stored
    <3>2. Atomic!Remove(Sessions) /\ Sessions \in SUBSET Sessions
      BY <3>1 DEF Atomic!Remove
    <3>3. QED
      BY <3>2 DEF Atomic!Next
  <2>2. CASE backend # "memory"
    BY <1>1, <1>7, <2>2 DEF Crash
  <2>3. QED
    BY <2>1, <2>2
<1>8. CASE UNCHANGED vars
  BY <1>1, <1>8 DEF vars
<1>9. QED
  BY <1>3, <1>4, <1>5, <1>6, <1>7, <1>8 DEF Next, Request1

(* Load, await and save, as separate steps of concurrent requests, behave  *)
(* like atomic operations on the session: a stale writer fails rather than *)
(* overwriting newer interview state.                                      *)
THEOREM StoreImplementsAtomic == Spec => ImplementsAtomicSession
<1>1. Init => Atomic!Init
  BY DEF Init, Atomic!Init, History, Stored
<1>2. QED
  BY <1>1, StoreInit, StoreStep, StepIsAtomic, PTL
     DEF Spec, ImplementsAtomicSession, Atomic!Spec

=============================================================================
