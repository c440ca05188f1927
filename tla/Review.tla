------------------------------- MODULE Review -------------------------------
(***************************************************************************)
(* Human review of one session whose job comes from the rubric studio: the *)
(* review assignments of ReviewService (review_service.py), the appeals    *)
(* and integrity signals of InterviewService (service.py), and the way the *)
(* HTTP API calls them (api.py): a mutation first loads the session to     *)
(* check the caller's permission and its If-Match precondition, and the    *)
(* service loads it again, applies the operation and saves.                *)
(***************************************************************************)
EXTENDS Rubric, SequencesExt

CONSTANTS
  MaxAssignments,  \* bound: review assignments of the session
  Items,           \* appeals and integrity signals
  MaxVersion       \* bound: saves of the session

ASSUME ReviewAssumption == MaxAssignments \in Nat /\ MaxVersion \in Nat \ {0}

VARIABLES
  version,      \* of the stored session, 0 before it is created
  assignments,  \* review_assignments, with the events of each
  items,        \* appeals and integrity signals, with the events of each
  request       \* what the API does for each recruiter

session == <<version, assignments, items>>
reviewVars == <<session, request>>
allVars == <<rubricVars, reviewVars>>

Active == {"open", "in_review"}
Statuses == Active \cup {"completed", "cancelled"}
Operations == {"assign", "start", "complete", "cancel", "submit", "review"}

(* "arrived"   the principal is known, the session not yet loaded          *)
(* "permitted" permission and precondition hold of what was loaded         *)
(* "applied"   the service has loaded the session and applied its operation*)
NoRequest == [step |-> "idle", op |-> "assign", on |-> 0, etag |-> 0, version |-> 0]
Request == [step : {"idle", "arrived", "permitted", "applied"}, op : Operations,
            on : Nat \cup Items, etag : 0..MaxVersion, version : 0..MaxVersion]
Events == [op : Operations, by : Recruiters]

ReviewInit ==
  /\ RubricInit
  /\ version = 0 /\ assignments = <<>>
  /\ items = [i \in Items |-> [status |-> "none", by |-> Nothing, log |-> <<>>]]
  /\ request = [r \in Recruiters |-> NoRequest]

Replies(r) == request' = [request EXCEPT ![r] = NoRequest]
-----------------------------------------------------------------------------
\* create_session looks the job up and refuses an unknown one.  (Bound: the studio's
\* work on the jobs, below, is over by then.)
CreateSession ==
  /\ version = 0
  /\ \E j \in Jobs : Exists(j)
  /\ approval = [r \in Recruiters |-> Idle]
  /\ version' = 1
  /\ UNCHANGED <<rubricVars, assignments, items, request>>

\* What an operation may name.
Targets(op) ==
  {n \in DOMAIN assignments : op \in {"start", "complete", "cancel"}}
    \cup {i \in Items : op = "review" /\ items[i].status # "none"}
    \cup {none \in {0} : op \in {"assign", "submit"}}

\* A recruiter has fetched the session, and with it the ids and the ETag, and sends a
\* mutation, with If-Match or without.
Send(r) ==
  /\ version # 0 /\ request[r] = NoRequest
  /\ \E op \in Operations, etag \in {0, version} : \E on \in Targets(op) :
         request' = [request EXCEPT ![r] = [step |-> "arrived", op |-> op, on |-> on,
                                            etag |-> etag, version |-> 0]]
  /\ UNCHANGED <<rubricVars, session>>

\* require_session_permission, and enforce_session_precondition (412).
Permit(r) ==
  /\ request[r].step = "arrived"
  /\ IF request[r].etag \in {0, version}
     THEN request' = [request EXCEPT ![r].step = "permitted"]
     ELSE Replies(r)
  /\ UNCHANGED <<rubricVars, session>>
-----------------------------------------------------------------------------
(* Operations *)

NoActiveAssignment == \A n \in DOMAIN assignments : assignments[n].status \notin Active

\* Defect: an assignment is completed started or not.
CompletesAnyActive == [start |-> {"open"}, complete |-> Active, cancel |-> Active]

\* Defect: whether somebody else has reviewed it is not looked at.
ReviewsAgain == {"pending", "reviewed"}

\* The statuses that each operation accepts.
AssignmentIn == [start |-> {"open"}, complete |-> {"in_review"}, cancel |-> Active]
ReviewIn == {"pending"}

\* What the service refuses (403, 404, 409) otherwise.
Allows(r) ==
  LET op == request[r].op
      on == request[r].on
  IN  CASE op = "assign" -> NoActiveAssignment /\ Len(assignments) < MaxAssignments
        [] op \in DOMAIN AssignmentIn ->
             /\ op # "cancel" => assignments[on].reviewer = r
             /\ assignments[on].status \in AssignmentIn[op]
        [] op = "submit" -> \E i \in Items : items[i].status = "none"  \* bound
        [] op = "review" -> items[on].status \in ReviewIn

\* The service loads the session again; of what it finds there, it applies the
\* operation or refuses.  (A copy of one version is as good as the version itself.)
Apply(r) ==
  /\ request[r].step = "permitted"
  /\ IF Allows(r)
     THEN request' = [request EXCEPT ![r].step = "applied", ![r].version = version]
     ELSE Replies(r)
  /\ UNCHANGED <<rubricVars, session>>

\* Defect: the row is written whatever its version is by now.
AnyVersion(r) == TRUE

Fresh(r) == request[r].version = version

StatusAfter == [start |-> "in_review", complete |-> "completed", cancel |-> "cancelled"]

Moved(a, op, event) == [a EXCEPT !.status = StatusAfter[op], !.log = Append(@, event)]

\* The operation, with its event.
Changed(r) ==
  LET op == request[r].op
      on == request[r].on
      event == [op |-> op, by |-> r]
  IN  CASE op = "assign" ->
             /\ \E to \in Recruiters :
                  assignments' = Append(assignments, [reviewer |-> to, status |-> "open",
                                                      log |-> <<event>>])
             /\ UNCHANGED items
        [] op \in DOMAIN AssignmentIn ->
             /\ assignments' = [assignments EXCEPT ![on] = Moved(assignments[on], op, event)]
             /\ UNCHANGED items
        [] op = "submit" ->
             /\ \E i \in Items :
                  /\ items[i].status = "none"
                  /\ items' = [items EXCEPT ![i] = [status |-> "pending", by |-> Nothing,
                                                    log |-> <<event>>]]
             /\ UNCHANGED assignments
        [] op = "review" ->
             /\ items' = [items EXCEPT ![on] = [status |-> "reviewed", by |-> r,
                                                log |-> Append(@.log, event)]]
             /\ UNCHANGED assignments

Save(r) ==
  /\ request[r].step = "applied"
  /\ IF Fresh(r)
     THEN version < MaxVersion /\ version' = version + 1 /\ Changed(r)
     ELSE UNCHANGED session
  /\ Replies(r)
  /\ UNCHANGED rubricVars
-----------------------------------------------------------------------------
ReviewNext ==
  \/ CreateSession
  \/ \E r \in Recruiters : Send(r) \/ Permit(r) \/ Apply(r) \/ Save(r)
  \/ version = 0 /\ RubricNext /\ UNCHANGED reviewVars

ReviewSpec == ReviewInit /\ [][ReviewNext]_allVars
-----------------------------------------------------------------------------
(* Properties *)

ReviewTypeOK ==
  /\ RubricTypeOK
  /\ version \in 0..MaxVersion
  /\ assignments \in Seq([reviewer : Recruiters, status : Statuses, log : Seq(Events)])
  /\ Len(assignments) <= MaxAssignments
  /\ items \in [Items -> [status : {"none", "pending", "reviewed"},
                          by : Recruiters \cup {Nothing}, log : Seq(Events)]]
  /\ request \in [Recruiters -> Request]

\* Two recruiters may find the session without a reviewer at the same time; it never
\* has two active assignments.
OneActiveAssignment ==
  Cardinality({n \in DOMAIN assignments : assignments[n].status \in Active}) <= 1

\* A completed assignment was assigned, started and completed, the last two by its
\* reviewer, and nothing happened to a cancelled one afterwards: whatever requests
\* crossed, the events tell one story and the status is its end.
CompletedWasWorked ==
  \A n \in DOMAIN assignments :
    LET log == assignments[n].log
    IN  /\ assignments[n].status = "completed" =>
          /\ [e \in DOMAIN log |-> log[e].op] = <<"assign", "start", "complete">>
          /\ log[2].by = assignments[n].reviewer /\ log[3].by = assignments[n].reviewer
        /\ assignments[n].status = "cancelled" => Last(log).op = "cancel"

\* An appeal or a signal is decided once, by the one that the session names.
DecidedOnce ==
  \A i \in Items :
    LET log == items[i].log
        reviews == {e \in DOMAIN log : log[e].op = "review"}
    IN  IF items[i].status = "reviewed"
        THEN \E e \in DOMAIN log : reviews = {e} /\ log[e].by = items[i].by
        ELSE reviews = {}

\* CONCURRENCY.md says of a precondition that "was current when checked" while
\* "another server operation committed before this operation persisted its result"
\* that "The storage compare-and-swap still catches that race": a request with an
\* ETag changes the version it names, or nothing.
PreconditionHoldsAtSave ==
  [][\A r \in Recruiters :
       request[r].step = "applied" /\ request[r].etag # 0 /\ version' # version
         /\ request'[r].step = "idle" => request[r].etag = version]_allVars
=============================================================================
