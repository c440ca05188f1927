---------------------------- MODULE ReviewProofs ----------------------------
(***************************************************************************)
(* Proofs about Review, and about the Rubric it extends.                   *)
(*                                                                         *)
(* The studio: whoever approves which draft at the same time, the two      *)
(* tables tell one story of the approvals, and a posted job none.  Neither *)
(* conjunct of RubricInv is inductive alone: a job that a commit inserts   *)
(* is no approved draft's because every such job exists, and it is its     *)
(* draft's only one because every approved job is the one its draft names. *)
(*                                                                         *)
(* The session: what the service found when it applied an operation still  *)
(* holds when the save finds the version it loaded (StillAllowed), so a    *)
(* check made on a copy is as good as one made on the row.  With it, a     *)
(* session has one active reviewer, and the events of an assignment, an    *)
(* appeal or a signal tell how it got its status (Told, Decided).          *)
(***************************************************************************)
EXTENDS Review, FiniteSetTheorems, TLAPS
-----------------------------------------------------------------------------
(* The rubric studio *)

\* A recruiter whose approval is under way holds a draft and a job's id.
Holding ==
  \A r \in Recruiters :
    approval[r].step # "idle" => approval[r].draft \in Drafts /\ approval[r].job \in Jobs

\* A job that an approval wrote names a draft.
NamesDraft == \A j \in Jobs : jobs[j].origin = "approval" => jobs[j].draft \in Drafts

RubricInv == RubricTypeOK /\ Holding /\ NamesDraft /\ ApprovalYieldsOneJob /\ ApprovedHasJob

LEMMA InitRubric == ASSUME RubricInit PROVE RubricInv
  BY RubricAssumption
     DEF RubricInit, RubricInv, RubricTypeOK, Holding, NamesDraft, ApprovalYieldsOneJob,
         ApprovedHasJob, Idle, Approval, NoJobRow, JobRow, Exists

\* What a recruiter reads changes no table.
LEMMA ApprovalOnly ==
  ASSUME RubricInv, UNCHANGED <<drafted, approved, jobs>>, approval' \in [Recruiters -> Approval],
         Holding'
  PROVE  RubricInv'
  BY DEF RubricInv, RubricTypeOK, NamesDraft, ApprovalYieldsOneJob, ApprovedHasJob, Exists

LEMMA CommitKeeps ==
  ASSUME RubricInv, NEW r \in Recruiters, CommitApproval(r)
  PROVE  RubricInv'
<1> DEFINE d == approval[r].draft
           j == approval[r].job
<1>1. approval' = [approval EXCEPT ![r] = Idle] BY DEF CommitApproval, Quits
<1>2. d \in Drafts /\ j \in Jobs BY DEF RubricInv, Holding, CommitApproval
<1>3. Idle \in Approval /\ Idle.step = "idle" BY DEF Idle, Approval
<1>4. approval' \in [Recruiters -> Approval] /\ Holding'
  BY <1>1, <1>3 DEF RubricInv, RubricTypeOK, Holding
<1>5. CASE UNCHANGED <<jobs, approved>>
  BY <1>4, <1>5, ApprovalOnly DEF CommitApproval
<1>6. CASE /\ Commits(r)
           /\ jobs' = [jobs EXCEPT ![j] = ApprovedFrom(d)]
           /\ approved' = [approved EXCEPT ![d] = j]
  <2>1. jobs[j].origin = "none" /\ approved[d] = Nothing BY <1>6 DEF Commits, Exists
  <2>2. /\ ApprovedFrom(d) \in JobRow
        /\ ApprovedFrom(d).origin = "approval" /\ ApprovedFrom(d).draft = d
    BY <1>2 DEF ApprovedFrom, JobRow
  <2>3. RubricTypeOK'
    BY <1>2, <1>4, <1>6, <2>2 DEF RubricInv, RubricTypeOK, CommitApproval
  <2>4. ApprovalYieldsOneJob' /\ NamesDraft'
    <3> SUFFICES ASSUME NEW k \in Jobs, jobs'[k].origin = "approval"
                 PROVE  jobs'[k].draft \in Drafts /\ approved'[jobs'[k].draft] = k
      BY DEF ApprovalYieldsOneJob, NamesDraft
    <3>1. CASE k = j
      BY <3>1, <1>2, <1>6, <2>2 DEF RubricInv, RubricTypeOK
    <3>2. CASE k # j
      <4>1. jobs'[k] = jobs[k] /\ jobs[k].draft \in Drafts
        BY <3>2, <1>2, <1>6 DEF RubricInv, RubricTypeOK, NamesDraft
      <4>2. approved[jobs[k].draft] = k BY <4>1 DEF RubricInv, ApprovalYieldsOneJob
      <4>3. jobs[k].draft # d BY <4>2, <2>1, RubricAssumption
      <4> QED BY <4>1, <4>2, <4>3, <1>6 DEF RubricInv, RubricTypeOK
    <3> QED BY <3>1, <3>2
  <2>5. ApprovedHasJob'
    <3> SUFFICES ASSUME NEW e \in Drafts, approved'[e] # Nothing
                 PROVE  /\ jobs'[approved'[e]].origin # "none"
                        /\ jobs'[approved'[e]].origin = "approval" => jobs'[approved'[e]].draft = e
      BY DEF ApprovedHasJob, Exists
    <3>1. CASE e = d
      BY <3>1, <1>2, <1>6, <2>2 DEF RubricInv, RubricTypeOK
    <3>2. CASE e # d
      <4>1. approved'[e] = approved[e] /\ approved[e] \in Jobs
        BY <3>2, <1>6 DEF RubricInv, RubricTypeOK
      <4>2. /\ jobs[approved[e]].origin # "none"
            /\ jobs[approved[e]].origin = "approval" => jobs[approved[e]].draft = e
        BY <4>1, <3>2 DEF RubricInv, ApprovedHasJob, Exists
      <4>3. approved[e] # j BY <4>2, <2>1
      <4> QED BY <4>1, <4>2, <4>3, <1>6 DEF RubricInv, RubricTypeOK
    <3> QED BY <3>1, <3>2
  <2> QED BY <1>4, <2>3, <2>4, <2>5 DEF RubricInv
<1> QED BY <1>5, <1>6 DEF CommitApproval

LEMMA StepRubric ==
  ASSUME RubricInv, [RubricNext]_rubricVars
  PROVE  RubricInv'
<1>1. ASSUME NEW d \in Drafts, Draft(d) PROVE RubricInv'
  BY <1>1
     DEF Draft, RubricInv, RubricTypeOK, Holding, NamesDraft, ApprovalYieldsOneJob, ApprovedHasJob,
         Exists
<1>2. ASSUME NEW j \in Jobs, CreateJob(j) PROVE RubricInv'
  <2>1. PICK d \in Drafts \cup {Nothing} : jobs' = [jobs EXCEPT ![j] = Posted(d)]
    BY <1>2 DEF CreateJob
  <2>2. Posted(d) \in JobRow /\ Posted(d).origin = "post" BY DEF Posted, JobRow
  <2>3. UNCHANGED <<drafted, approved, approval>> BY <1>2 DEF CreateJob
  <2> QED
    BY <2>1, <2>2, <2>3
       DEF RubricInv, RubricTypeOK, Holding, NamesDraft, ApprovalYieldsOneJob, ApprovedHasJob,
           Exists
<1>3. ASSUME NEW r \in Recruiters, Approve(r) PROVE RubricInv'
  <2>1. PICK d \in drafted, j \in Jobs :
          approval' = [approval EXCEPT ![r] = [step |-> "reviewed", draft |-> d, job |-> j]]
    BY <1>3 DEF Approve
  <2>2. d \in Drafts BY DEF RubricInv, RubricTypeOK
  <2>3. approval' \in [Recruiters -> Approval]
    BY <2>1, <2>2 DEF RubricInv, RubricTypeOK, Approval
  <2>4. Holding' BY <2>1, <2>2 DEF RubricInv, RubricTypeOK, Holding
  <2> QED BY <1>3, <2>3, <2>4, ApprovalOnly DEF Approve
<1>4. ASSUME NEW r \in Recruiters, Select(r) PROVE RubricInv'
  <2>1. CASE approval' = [approval EXCEPT ![r].step = "selected"]
    <3>1. approval[r].step = "reviewed" /\ approval[r] \in Approval
      BY <1>4 DEF Select, RubricInv, RubricTypeOK
    <3>2. approval' \in [Recruiters -> Approval]
      BY <2>1, <3>1 DEF RubricInv, RubricTypeOK, Approval
    <3>3. Holding' BY <2>1, <3>1 DEF RubricInv, RubricTypeOK, Holding, Approval
    <3> QED BY <1>4, <3>2, <3>3, ApprovalOnly DEF Select
  <2>2. CASE approval' = [approval EXCEPT ![r] = Idle]
    <3>1. Idle \in Approval /\ Idle.step = "idle" BY DEF Idle, Approval
    <3>2. approval' \in [Recruiters -> Approval] /\ Holding'
      BY <2>2, <3>1 DEF RubricInv, RubricTypeOK, Holding
    <3> QED BY <1>4, <3>2, ApprovalOnly DEF Select
  <2> QED BY <1>4, <2>1, <2>2 DEF Select, Quits
<1>5. CASE UNCHANGED rubricVars
  BY <1>5
     DEF rubricVars, RubricInv, RubricTypeOK, Holding, NamesDraft, ApprovalYieldsOneJob,
         ApprovedHasJob, Exists
<1> QED BY <1>1, <1>2, <1>3, <1>4, <1>5, CommitKeeps DEF RubricNext

LEMMA RubricInvHolds == RubricSpec => []RubricInv
<1>1. RubricInit => RubricInv BY InitRubric
<1>2. RubricInv /\ [RubricNext]_rubricVars => RubricInv' BY StepRubric
<1> QED BY <1>1, <1>2, PTL DEF RubricSpec

\* A step of the review is a step of the studio, or leaves its tables alone: what is
\* proved of the studio holds beside the review.
LEMMA ReviewIncludesRubric == ReviewSpec => RubricSpec
<1>1. ReviewInit => RubricInit BY DEF ReviewInit
<1>2. [ReviewNext]_allVars => [RubricNext]_rubricVars
  BY DEF ReviewNext, CreateSession, Send, Permit, Apply, Save, allVars
<1> QED BY <1>1, <1>2, PTL DEF ReviewSpec, RubricSpec

\* Two tables, one story of the approvals (approve_rubric_draft): a job that an approval
\* wrote is the one that its draft names, so no draft makes two jobs, however many
\* recruiters approve it and whatever provenance POST /v1/jobs is given meanwhile.
THEOREM ApprovalIsUnique == RubricSpec => []ApprovalYieldsOneJob
<1>1. RubricInv => ApprovalYieldsOneJob BY DEF RubricInv
<1> QED BY <1>1, RubricInvHolds, PTL

\* The job of every approved draft exists (INSERT INTO jobs and the draft's UPDATE are
\* one transaction), beside the review too, and stands for that draft unless a POST has
\* replaced it since.
THEOREM ApprovedDraftsHaveJobs == ReviewSpec => []ApprovedHasJob
<1>1. RubricInv => ApprovedHasJob BY DEF RubricInv
<1> QED BY <1>1, RubricInvHolds, ReviewIncludesRubric, PTL
-----------------------------------------------------------------------------
(* One active reviewer *)

Assignment == [reviewer : Recruiters, status : Statuses, log : Seq(Events)]
OnAssignment == {"start", "complete", "cancel"}

ReviewTypes ==
  /\ version \in 0..MaxVersion
  /\ assignments \in Seq(Assignment)
  /\ Len(assignments) <= MaxAssignments
  /\ request \in [Recruiters -> Request]

\* A request on an assignment names one that is there: none is ever removed.
NamesAssignment(q) == q.op \in OnAssignment => q.on \in DOMAIN assignments

\* An applied operation whose version is still current is still allowed.
StillAllowed(r) ==
  request[r].step = "applied" =>
    /\ request[r].version <= version
    /\ request[r].version = version => Allows(r)

IsActive(n) == n \in DOMAIN assignments /\ assignments[n].status \in Active
OneActive == \A m, n \in Nat : IsActive(m) /\ IsActive(n) => m = n

ReviewInv ==
  /\ ReviewTypes
  /\ \A r \in Recruiters : NamesAssignment(request[r])
  /\ \A r \in Recruiters : StillAllowed(r)
  /\ OneActive

LEMMA InitReview == ASSUME ReviewInit PROVE ReviewInv
  BY ReviewAssumption DEF ReviewInit, ReviewInv, ReviewTypes, NamesAssignment, StillAllowed, OneActive, IsActive,
         NoRequest, Request, Operations, OnAssignment, Assignment

\* What an operation may do to a request: nothing but move it on.
LEMMA IdleRequest == NoRequest \in Request
                     /\ NoRequest.step = "idle" /\ NoRequest.op = "assign"
  BY ReviewAssumption DEF NoRequest, Request, Operations

\* A step that leaves the session alone and one request not applied.
LEMMA SessionKept ==
  ASSUME ReviewInv, UNCHANGED session, NEW r \in Recruiters,
         NEW STATE q, q \in Request,
         request' = [request EXCEPT ![r] = q],
         NamesAssignment(q),
         q.step = "applied" => q.version = version /\ Allows(r)'
  PROVE  ReviewInv'
<1>1. version' = version /\ assignments' = assignments /\ items' = items BY DEF session
<1>2. ReviewTypes' BY <1>1 DEF ReviewInv, ReviewTypes
<1>3. \A s \in Recruiters : request'[s] = IF s = r THEN q ELSE request[s]
  BY DEF ReviewInv, ReviewTypes
<1>4. \A s \in Recruiters : NamesAssignment(request[s])'
  BY <1>1, <1>3 DEF ReviewInv, NamesAssignment
<1>5. ASSUME NEW s \in Recruiters PROVE StillAllowed(s)'
  <2>1. CASE s = r
    <3>1. version \in Nat BY DEF ReviewInv, ReviewTypes
    <3> QED BY <2>1, <3>1, <1>1, <1>3 DEF StillAllowed
  <2>2. CASE s # r
    <3>1. request'[s] = request[s] BY <2>2, <1>3
    <3>2. Allows(s)' = Allows(s) BY <3>1, <1>1 DEF Allows, NoActiveAssignment
    <3>3. StillAllowed(s) BY DEF ReviewInv
    <3> QED BY <3>1, <3>2, <3>3, <1>1 DEF StillAllowed
  <2> QED BY <2>1, <2>2
<1>6. OneActive' BY <1>1 DEF ReviewInv, OneActive, IsActive
<1> QED BY <1>2, <1>4, <1>5, <1>6 DEF ReviewInv

\* The operations on an assignment accept active ones only.
LEMMA Accepted ==
  /\ DOMAIN AssignmentIn = OnAssignment
  /\ \A op \in OnAssignment : AssignmentIn[op] \subseteq Active
  BY DEF AssignmentIn, OnAssignment, Active

\* A save changes one assignment in place at most, or adds one when none is active.
LEMMA ChangeKeepsOneActive ==
  ASSUME ReviewInv, NEW r \in Recruiters, NamesAssignment(request[r]), Allows(r), Changed(r)
  PROVE  /\ assignments' \in Seq(Assignment) /\ Len(assignments') <= MaxAssignments
         /\ DOMAIN assignments \subseteq DOMAIN assignments'
         /\ OneActive'
<1> DEFINE op == request[r].op
           on == request[r].on
           event == [op |-> op, by |-> r]
<1>0. assignments \in Seq(Assignment) /\ Len(assignments) <= MaxAssignments /\ op \in Operations
  BY DEF ReviewInv, ReviewTypes, Request
<1>1. event \in Events BY <1>0 DEF Events
<1>2. OneActive BY DEF ReviewInv
<1>3. CASE op = "assign"
  <2>0. op \notin DOMAIN AssignmentIn BY <1>3, Accepted DEF OnAssignment
  <2>1. PICK to \in Recruiters :
          assignments' = Append(assignments, [reviewer |-> to, status |-> "open", log |-> <<event>>])
    BY <1>3, <2>0 DEF Changed
  <2> DEFINE new == [reviewer |-> to, status |-> "open", log |-> <<event>>]
  <2>2. new \in Assignment BY <1>1 DEF Assignment, Statuses, Active
  <2>3. NoActiveAssignment /\ Len(assignments) < MaxAssignments BY <1>3, <2>0 DEF Allows
  <2>4. Len(assignments) \in Nat /\ DOMAIN assignments = 1..Len(assignments) BY <1>0
  <2> HIDE DEF new, event, op, on
  <2>5. assignments' \in Seq(Assignment) /\ Len(assignments') = Len(assignments) + 1
        /\ \A n \in 1..Len(assignments) : assignments'[n] = assignments[n]
    BY <1>0, <2>1, <2>2 DEF new
  <2>6. DOMAIN assignments' = 1..(Len(assignments) + 1) BY <2>5
  <2>7. \A n \in Nat : IsActive(n)' => n = Len(assignments) + 1
    BY <2>3, <2>4, <2>5, <2>6 DEF IsActive, NoActiveAssignment
  <2>8. OneActive' BY <2>7 DEF OneActive
  <2>9. Len(assignments') <= MaxAssignments BY <2>3, <2>4, <2>5, ReviewAssumption
  <2> QED BY <2>4, <2>5, <2>6, <2>8, <2>9
<1>4. CASE op \in OnAssignment
  <2>1. on \in DOMAIN assignments BY <1>4 DEF NamesAssignment
  <2>2. assignments[on].status \in Active
    <3>1. op \notin {"assign", "submit", "review"} /\ op \in DOMAIN AssignmentIn
      BY <1>4, Accepted DEF OnAssignment
    <3>2. assignments[on].status \in AssignmentIn[op] BY <3>1 DEF Allows
    <3> QED BY <1>4, <3>2, Accepted
  <2> DEFINE moved == Moved(assignments[on], op, event)
  <2>3. assignments' = [assignments EXCEPT ![on] = moved]
    <3>1. op \notin {"assign", "submit", "review"} /\ op \in DOMAIN AssignmentIn
      BY <1>4, Accepted DEF OnAssignment
    <3> QED BY <3>1 DEF Changed
  <2>4. StatusAfter[op] \in Statuses
    BY <1>4 DEF StatusAfter, OnAssignment, Statuses, Active
  <2>5. assignments[on] \in Assignment BY <1>0, <2>1
  <2>6. Append(assignments[on].log, event) \in Seq(Events)
    BY <1>1, <2>5 DEF Assignment
  <2> HIDE DEF event, op, on
  <2>7. assignments' \in Seq(Assignment)
    <3>1. moved \in Assignment BY <2>4, <2>5, <2>6 DEF Assignment, Moved
    <3> HIDE DEF moved
    <3> QED BY <1>0, <2>1, <2>3, <3>1
  <2>8. DOMAIN assignments' = DOMAIN assignments /\ Len(assignments') = Len(assignments)
        /\ \A n \in DOMAIN assignments : n # on => assignments'[n] = assignments[n]
    BY <1>0, <2>3
  <2>9. \A n \in Nat : IsActive(n)' => IsActive(n)
    BY <2>1, <2>2, <2>8 DEF IsActive
  <2>10. OneActive' BY <1>2, <2>9 DEF OneActive
  <2> QED BY <1>0, <2>7, <2>8, <2>10
<1>5. CASE op \notin OnAssignment /\ op # "assign"
  <2>1. op \in {"submit", "review"} BY <1>0, <1>5 DEF Operations, OnAssignment
  <2>2. op # "assign" /\ op \notin DOMAIN AssignmentIn BY <1>5, Accepted
  <2>3. assignments' = assignments BY <2>1, <2>2 DEF Changed
  <2>4. OneActive' BY <1>2, <2>3 DEF OneActive, IsActive
  <2> QED BY <1>0, <2>3, <2>4
<1> QED BY <1>3, <1>4, <1>5

LEMMA SaveKeeps == ASSUME ReviewInv, NEW r \in Recruiters, Save(r) PROVE ReviewInv'
<1>1. request[r].step = "applied" /\ request' = [request EXCEPT ![r] = NoRequest]
  BY DEF Save, Replies
<1>2. CASE UNCHANGED session
  <2>1. NamesAssignment(NoRequest) /\ NoRequest.step # "applied"
    BY IdleRequest DEF NamesAssignment, OnAssignment
  <2> QED BY <1>1, <1>2, <2>1, IdleRequest, SessionKept
<1>3. CASE Fresh(r) /\ version < MaxVersion /\ version' = version + 1 /\ Changed(r)
  <2>1. Allows(r) /\ NamesAssignment(request[r])
    BY <1>1, <1>3 DEF ReviewInv, StillAllowed, Fresh
  <2>2. /\ assignments' \in Seq(Assignment) /\ Len(assignments') <= MaxAssignments
        /\ DOMAIN assignments \subseteq DOMAIN assignments'
        /\ OneActive'
    BY <1>3, <2>1, ChangeKeepsOneActive
  <2>3. ReviewTypes' BY <1>1, <1>3, <2>2, IdleRequest, ReviewAssumption DEF ReviewInv, ReviewTypes
  <2>4. \A s \in Recruiters : request'[s] = IF s = r THEN NoRequest ELSE request[s]
    BY <1>1 DEF ReviewInv, ReviewTypes
  <2>5. \A s \in Recruiters : NamesAssignment(request[s])'
    BY <2>2, <2>4, IdleRequest DEF ReviewInv, NamesAssignment, OnAssignment
  <2>6. ASSUME NEW s \in Recruiters PROVE StillAllowed(s)'
    <3>1. CASE s = r BY <3>1, <2>4, IdleRequest DEF StillAllowed
    <3>2. CASE s # r
      <4>1. request'[s] = request[s] /\ StillAllowed(s) BY <3>2, <2>4 DEF ReviewInv
      <4>2. version \in Nat /\ request[s].version \in Nat
        BY ReviewAssumption DEF ReviewInv, ReviewTypes, Request
      <4> QED BY <1>3, <4>1, <4>2 DEF StillAllowed
    <3> QED BY <3>1, <3>2
  <2> QED BY <2>2, <2>3, <2>5, <2>6 DEF ReviewInv
<1> QED BY <1>2, <1>3 DEF Save

\* A request that names an assignment got its id from the session.
LEMMA SendKeeps == ASSUME ReviewInv, NEW r \in Recruiters, Send(r) PROVE ReviewInv'
<1>1. PICK op \in Operations, etag \in {0, version} : \E on \in Targets(op) :
        request' = [request EXCEPT ![r] = [step |-> "arrived", op |-> op, on |-> on,
                                           etag |-> etag, version |-> 0]]
  BY DEF Send
<1>2. PICK on \in Targets(op) :
        request' = [request EXCEPT ![r] = [step |-> "arrived", op |-> op, on |-> on,
                                           etag |-> etag, version |-> 0]]
  BY <1>1
<1> DEFINE q == [step |-> "arrived", op |-> op, on |-> on, etag |-> etag, version |-> 0]
<1>3. DOMAIN assignments \subseteq Nat /\ version \in 0..MaxVersion BY DEF ReviewInv, ReviewTypes
<1>4. on \in Nat \cup Items /\ (op \in OnAssignment => on \in DOMAIN assignments)
  BY <1>3 DEF Targets, OnAssignment
<1>5. q \in Request
      /\ q.step # "applied"
  BY <1>3, <1>4, ReviewAssumption DEF Request
<1>6. NamesAssignment(q) BY <1>4 DEF NamesAssignment
<1>7. request' = [request EXCEPT ![r] = q] BY <1>2
<1> HIDE DEF q
<1> QED BY <1>5, <1>6, <1>7, SessionKept DEF Send

LEMMA StepReview == ASSUME ReviewInv, [ReviewNext]_allVars PROVE ReviewInv'
<1>1. ASSUME CreateSession PROVE ReviewInv'
  <2>1. version' = 1 /\ version = 0 /\ UNCHANGED <<assignments, items, request>>
    BY <1>1 DEF CreateSession
  <2>2. ReviewTypes' /\ OneActive' /\ \A r \in Recruiters : NamesAssignment(request[r])'
    BY <2>1, ReviewAssumption DEF ReviewInv, ReviewTypes, NamesAssignment, OneActive, IsActive
  <2>3. ASSUME NEW r \in Recruiters PROVE StillAllowed(r)'
    <3>1. request[r].version \in Nat /\ StillAllowed(r) BY DEF ReviewInv, ReviewTypes, Request
    <3> QED BY <2>1, <3>1 DEF StillAllowed
  <2> QED BY <2>2, <2>3 DEF ReviewInv
<1>2. ASSUME NEW r \in Recruiters, Permit(r) PROVE ReviewInv'
  <2>1. CASE request' = [request EXCEPT ![r].step = "permitted"]
    <3> DEFINE q == [request[r] EXCEPT !.step = "permitted"]
    <3>1. request' = [request EXCEPT ![r] = q] BY <2>1 DEF ReviewInv, ReviewTypes, Request
    <3>2. q \in Request
          /\ q.step # "applied" /\ q.op = request[r].op /\ q.on = request[r].on
      BY DEF ReviewInv, ReviewTypes, Request
    <3>3. NamesAssignment(q) BY <3>2 DEF ReviewInv, NamesAssignment
    <3> HIDE DEF q
    <3> QED BY <1>2, <3>1, <3>2, <3>3, SessionKept DEF Permit
  <2>2. CASE Replies(r)
    <3>1. NamesAssignment(NoRequest) BY IdleRequest DEF NamesAssignment, OnAssignment
    <3> QED BY <1>2, <2>2, <3>1, IdleRequest, SessionKept DEF Permit, Replies
  <2> QED BY <1>2, <2>1, <2>2 DEF Permit
<1>3. ASSUME NEW r \in Recruiters, Apply(r) PROVE ReviewInv'
  <2>1. CASE /\ Allows(r)
             /\ request' = [request EXCEPT ![r].step = "applied", ![r].version = version]
    <3> DEFINE q == [request[r] EXCEPT !.step = "applied", !.version = version]
    <3>1. request' = [request EXCEPT ![r] = q] BY <2>1 DEF ReviewInv, ReviewTypes, Request
    <3>2. q \in Request
          /\ q.version = version /\ q.op = request[r].op /\ q.on = request[r].on
      BY DEF ReviewInv, ReviewTypes, Request
    <3>3. NamesAssignment(q) BY <3>2 DEF ReviewInv, NamesAssignment
    <3>4. request'[r] = q BY <3>1 DEF ReviewInv, ReviewTypes
    <3> HIDE DEF q
    <3>5. UNCHANGED session /\ assignments' = assignments /\ items' = items
      BY <1>3 DEF Apply, session
    <3>6. Allows(r)' = Allows(r) BY <3>2, <3>4, <3>5 DEF Allows, NoActiveAssignment
    <3> QED BY <2>1, <3>1, <3>2, <3>3, <3>5, <3>6, SessionKept
  <2>2. CASE Replies(r)
    <3>1. NamesAssignment(NoRequest) BY IdleRequest DEF NamesAssignment, OnAssignment
    <3> QED BY <1>3, <2>2, <3>1, IdleRequest, SessionKept DEF Apply, Replies
  <2> QED BY <1>3, <2>1, <2>2 DEF Apply
<1>4. CASE UNCHANGED reviewVars
  BY <1>4 DEF reviewVars, session, ReviewInv, ReviewTypes, NamesAssignment, StillAllowed, Allows,
              NoActiveAssignment, OneActive, IsActive
<1> QED BY <1>1, <1>2, <1>3, <1>4, SendKeeps, SaveKeeps DEF ReviewNext, allVars

\* Two recruiters may find the session without a reviewer at the same time
\* (ReviewService.assign): it never has two active assignments.
THEOREM ReviewHasOneReviewer == ReviewSpec => []OneActiveAssignment
<1>1. ReviewInv => OneActiveAssignment
  <2> SUFFICES ASSUME ReviewInv PROVE OneActiveAssignment OBVIOUS
  <2> DEFINE A == {n \in DOMAIN assignments : assignments[n].status \in Active}
  <2>1. \A m, n \in A : m = n
    <3>1. DOMAIN assignments \subseteq Nat BY DEF ReviewInv, ReviewTypes
    <3> QED BY <3>1 DEF ReviewInv, OneActive, IsActive
  <2>2. CASE A = {} BY <2>2, FS_EmptySet DEF OneActiveAssignment
  <2>3. CASE A # {}
    <3>1. PICK n \in A : A = {n} BY <2>1, <2>3
    <3>2. Cardinality({n}) = 1 BY FS_Singleton
    <3> QED BY <3>1, <3>2 DEF OneActiveAssignment
  <2> QED BY <2>2, <2>3
<1> QED BY <1>1, InitReview, StepReview, PTL DEF ReviewSpec
-----------------------------------------------------------------------------
(* The events tell how a status came about *)

Item == [status : {"none", "pending", "reviewed"}, by : Recruiters \cup {Nothing},
         log : Seq(Events)]

\* The log of an assignment in each status.
Told(a) ==
  LET log == a.log
      started == log[1].op = "assign" /\ log[2] = [op |-> "start", by |-> a.reviewer]
  IN  /\ a.status = "open" => Len(log) = 1 /\ log[1].op = "assign"
      /\ a.status = "in_review" => Len(log) = 2 /\ started
      /\ a.status = "completed" =>
           Len(log) = 3 /\ started /\ log[3] = [op |-> "complete", by |-> a.reviewer]
      /\ a.status = "cancelled" => Len(log) # 0 /\ log[Len(log)].op = "cancel"

\* The log of an appeal or a signal in each status.
Decided(i) ==
  /\ i.status = "none" => i.log = <<>>
  /\ i.status = "pending" => Len(i.log) = 1 /\ i.log[1].op = "submit"
  /\ i.status = "reviewed" =>
       Len(i.log) = 2 /\ i.log[1].op = "submit" /\ i.log[2] = [op |-> "review", by |-> i.by]

\* A review names an appeal or a signal.
NamesItem(q) == q.op = "review" => q.on \in Items

AssignmentsTold == \A n \in DOMAIN assignments : Told(assignments[n])
ItemsDecided == \A i \in Items : Decided(items[i])

LogInv ==
  /\ ReviewInv
  /\ items \in [Items -> Item]
  /\ \A r \in Recruiters : NamesItem(request[r])
  /\ AssignmentsTold /\ ItemsDecided

LEMMA InitLogs == ASSUME ReviewInit PROVE LogInv
<1>1. ReviewInv BY InitReview
<1> QED BY <1>1 DEF ReviewInit, LogInv, Item, NamesItem, NoRequest, AssignmentsTold, ItemsDecided,
                    Decided

LEMMA AppendedLog ==
  ASSUME NEW log \in Seq(Events), NEW e \in Events
  PROVE  /\ Append(log, e) \in Seq(Events) /\ Len(Append(log, e)) = Len(log) + 1
         /\ \A n \in 1..Len(log) : Append(log, e)[n] = log[n]
         /\ Append(log, e)[Len(log) + 1] = e
         /\ Len(log) \in Nat
  OBVIOUS

LEMMA AppendedToOne ==
  ASSUME NEW log \in Seq(Events), Len(log) = 1, NEW e \in Events
  PROVE  /\ Append(log, e) \in Seq(Events) /\ Len(Append(log, e)) = 2
         /\ Append(log, e)[1] = log[1] /\ Append(log, e)[2] = e
<1> DEFINE longer == Append(log, e)
<1>1. /\ longer \in Seq(Events) /\ Len(longer) = Len(log) + 1 /\ longer[Len(log) + 1] = e
      /\ \A n \in 1..Len(log) : longer[n] = log[n]
  BY AppendedLog
<1> HIDE DEF longer
<1>2. Len(longer) = 2 BY <1>1
<1>3. longer[1] = log[1] BY <1>1
<1>4. longer[2] = e BY <1>1
<1>5. longer \in Seq(Events) /\ Len(longer) = 2 /\ longer[1] = log[1] /\ longer[2] = e
  BY <1>1, <1>2, <1>3, <1>4
<1> QED BY <1>5 DEF longer

LEMMA ToldByStatus ==
  ASSUME NEW b,
         \/ /\ b.status = "in_review" /\ Len(b.log) = 2 /\ b.log[1].op = "assign"
            /\ b.log[2] = [op |-> "start", by |-> b.reviewer]
         \/ /\ b.status = "completed" /\ Len(b.log) = 3 /\ b.log[1].op = "assign"
            /\ b.log[2] = [op |-> "start", by |-> b.reviewer]
            /\ b.log[3] = [op |-> "complete", by |-> b.reviewer]
         \/ b.status = "cancelled" /\ Len(b.log) # 0 /\ b.log[Len(b.log)].op = "cancel"
  PROVE  Told(b)
  BY DEF Told

\* Each operation on an assignment writes the next chapter of its log.
LEMMA MovedIsTold ==
  ASSUME NEW a \in Assignment, Told(a), NEW op \in OnAssignment, NEW r \in Recruiters,
         a.status \in AssignmentIn[op], op # "cancel" => a.reviewer = r,
         NEW e, e = [op |-> op, by |-> r],
         NEW b, b = Moved(a, op, e)
  PROVE  Told(b)
<1>1. e \in Events /\ e.op = op BY DEF Events, Operations, OnAssignment
<1>2. a.log \in Seq(Events) BY DEF Assignment
<1>3. b.status = StatusAfter[op] /\ b.log = Append(a.log, e) /\ b.reviewer = a.reviewer
  BY DEF Moved, Assignment
<1>4. /\ Len(b.log) = Len(a.log) + 1 /\ b.log[Len(a.log) + 1] = e /\ Len(a.log) \in Nat
      /\ \A n \in 1..Len(a.log) : b.log[n] = a.log[n]
  BY <1>1, <1>2, <1>3, AppendedLog
<1>5. CASE op = "start"
  <2>1. a.status = "open" /\ b.status = "in_review" /\ e = [op |-> "start", by |-> a.reviewer]
    BY <1>3, <1>5 DEF AssignmentIn, StatusAfter
  <2>2. Len(a.log) = 1 /\ a.log[1].op = "assign" BY <2>1 DEF Told
  <2>3. /\ Len(b.log) = 2 /\ b.log[1].op = "assign"
        /\ b.log[2] = [op |-> "start", by |-> b.reviewer]
    BY <1>3, <1>4, <2>1, <2>2
  <2> QED BY <2>1, <2>3, ToldByStatus
<1>6. CASE op = "complete"
  <2>1. a.status = "in_review" /\ b.status = "completed"
        /\ e = [op |-> "complete", by |-> a.reviewer]
    BY <1>3, <1>6 DEF AssignmentIn, StatusAfter
  <2>2. Len(a.log) = 2 /\ a.log[1].op = "assign"
        /\ a.log[2] = [op |-> "start", by |-> a.reviewer]
    BY <2>1 DEF Told
  <2>3. /\ Len(b.log) = 3 /\ b.log[1].op = "assign"
        /\ b.log[2] = [op |-> "start", by |-> b.reviewer]
        /\ b.log[3] = [op |-> "complete", by |-> b.reviewer]
    BY <1>3, <1>4, <2>1, <2>2
  <2> QED BY <2>1, <2>3, ToldByStatus
<1>7. CASE op = "cancel"
  <2>1. b.status = "cancelled" BY <1>3, <1>7 DEF StatusAfter
  <2>2. Len(b.log) # 0 /\ b.log[Len(b.log)].op = "cancel" BY <1>1, <1>4, <1>7
  <2> QED BY <2>1, <2>2, ToldByStatus
<1>8. op = "start" \/ op = "complete" \/ op = "cancel" BY DEF OnAssignment
<1> QED BY <1>5, <1>6, <1>7, <1>8

\* A step that leaves the session alone names an item at most.
LEMMA LogsKept ==
  ASSUME LogInv, ReviewInv', UNCHANGED session,
         \A r \in Recruiters : NamesItem(request'[r])
  PROVE  LogInv'
  BY DEF LogInv, session, NamesItem, AssignmentsTold, ItemsDecided

LEMMA ChangeIsTold ==
  ASSUME LogInv, NEW r \in Recruiters, Allows(r), Changed(r)
  PROVE  AssignmentsTold' /\ ItemsDecided' /\ items' \in [Items -> Item]
<1> DEFINE op == request[r].op
           on == request[r].on
           event == [op |-> op, by |-> r]
<1>0. /\ assignments \in Seq(Assignment) /\ items \in [Items -> Item] /\ op \in Operations
      /\ NamesAssignment(request[r]) /\ NamesItem(request[r])
      /\ AssignmentsTold /\ ItemsDecided
  BY DEF LogInv, ReviewInv, ReviewTypes, Request
<1>1. event \in Events BY <1>0 DEF Events
<1>2. CASE op = "assign"
  <2>0. op \notin DOMAIN AssignmentIn BY <1>2, Accepted DEF OnAssignment
  <2>1. PICK to \in Recruiters :
          /\ assignments' = Append(assignments, [reviewer |-> to, status |-> "open",
                                                 log |-> <<event>>])
          /\ items' = items
    BY <1>2, <2>0 DEF Changed
  <2> DEFINE new == [reviewer |-> to, status |-> "open", log |-> <<event>>]
  <2>2. Told(new) BY <1>2 DEF Told
  <2>3. new \in Assignment BY <1>1 DEF Assignment, Statuses, Active
  <2> HIDE DEF new, event, op, on
  <2>4. assignments' = Append(assignments, new) BY <2>1 DEF new
  <2>5. \A n \in DOMAIN assignments' :
          assignments'[n] = new \/ (n \in DOMAIN assignments /\ assignments'[n] = assignments[n])
    BY <1>0, <2>3, <2>4
  <2> QED BY <1>0, <2>1, <2>2, <2>5 DEF AssignmentsTold, ItemsDecided
<1>3. CASE op \in OnAssignment
  <2>0. op \notin {"assign", "submit", "review"} /\ op \in DOMAIN AssignmentIn
    BY <1>3, Accepted DEF OnAssignment
  <2>1. on \in DOMAIN assignments /\ assignments[on] \in Assignment /\ Told(assignments[on])
    BY <1>0, <1>3 DEF NamesAssignment, AssignmentsTold
  <2>2. assignments[on].status \in AssignmentIn[op]
        /\ (op # "cancel" => assignments[on].reviewer = r)
    BY <2>0 DEF Allows
  <2>3. assignments' = [assignments EXCEPT ![on] = Moved(assignments[on], op, event)]
        /\ items' = items
    BY <2>0 DEF Changed
  <2>4. Told(Moved(assignments[on], op, event)) BY <1>3, <2>1, <2>2, MovedIsTold
  <2> DEFINE moved == Moved(assignments[on], op, event)
  <2> HIDE DEF op, on, event, moved
  <2>5. assignments' = [assignments EXCEPT ![on] = moved] /\ Told(moved) BY <2>3, <2>4 DEF moved
  <2>6. \A n \in DOMAIN assignments' :
          n \in DOMAIN assignments /\ assignments'[n] = IF n = on THEN moved ELSE assignments[n]
    BY <1>0, <2>1, <2>5
  <2> QED BY <1>0, <2>3, <2>5, <2>6 DEF AssignmentsTold, ItemsDecided
<1>4. CASE op = "submit"
  <2>0. op \notin DOMAIN AssignmentIn /\ op # "assign" BY <1>4, Accepted DEF OnAssignment
  <2>1. PICK i \in Items :
          /\ items[i].status = "none"
          /\ items' = [items EXCEPT ![i] = [status |-> "pending", by |-> Nothing,
                                            log |-> <<event>>]]
          /\ assignments' = assignments
    BY <1>4, <2>0 DEF Changed
  <2> DEFINE new == [status |-> "pending", by |-> Nothing, log |-> <<event>>]
  <2>2. new \in Item /\ items' = [items EXCEPT ![i] = new] BY <1>1, <2>1 DEF Item
  <2>3. Decided(new) BY <1>4 DEF Decided
  <2> HIDE DEF new, event, op, on
  <2>4. \A k \in Items : items'[k] = new \/ items'[k] = items[k] BY <1>0, <2>2
  <2>5. ItemsDecided' BY <1>0, <2>3, <2>4 DEF ItemsDecided
  <2>6. items' \in [Items -> Item] BY <1>0, <2>2
  <2> QED BY <1>0, <2>1, <2>5, <2>6 DEF AssignmentsTold
<1>5. CASE op = "review"
  <2>0. op \notin DOMAIN AssignmentIn /\ op \notin {"assign", "submit"}
    BY <1>5, Accepted DEF OnAssignment
  <2>1. on \in Items /\ items[on] \in Item /\ Decided(items[on])
    BY <1>0, <1>5 DEF NamesItem, ItemsDecided
  <2>2. items[on].status = "pending" BY <1>5, <2>0 DEF Allows, ReviewIn
  <2>3. /\ items' = [items EXCEPT ![on] = [status |-> "reviewed", by |-> r,
                                           log |-> Append(items[on].log, event)]]
        /\ assignments' = assignments
    BY <1>0, <1>5, <2>0, <2>1 DEF Changed
  <2> DEFINE log == Append(items[on].log, event)
             new == [status |-> "reviewed", by |-> r, log |-> log]
  <2>4. Len(items[on].log) = 1 /\ items[on].log[1].op = "submit" BY <2>1, <2>2 DEF Decided
  <2>5. items[on].log \in Seq(Events) BY <2>1 DEF Item
  <2>6. log \in Seq(Events) /\ Len(log) = 2 /\ log[1] = items[on].log[1] /\ log[2] = event
    <3> HIDE DEF event, op, on
    <3> QED BY <1>1, <2>4, <2>5, AppendedToOne
  <2> HIDE DEF log
  <2>7. new \in Item BY <2>6 DEF Item
  <2>8. Decided(new) BY <1>5, <2>4, <2>6 DEF Decided
  <2>9. items' = [items EXCEPT ![on] = new] BY <2>3 DEF log
  <2> HIDE DEF new, event, op, on
  <2>10. \A k \in Items : items'[k] = new \/ items'[k] = items[k] BY <1>0, <2>9
  <2>11. ItemsDecided' BY <1>0, <2>8, <2>10 DEF ItemsDecided
  <2>12. items' \in [Items -> Item] BY <1>0, <2>7, <2>9
  <2> QED BY <1>0, <2>3, <2>11, <2>12 DEF AssignmentsTold
<1> QED BY <1>0, <1>2, <1>3, <1>4, <1>5 DEF Operations, OnAssignment

LEMMA StepLogs == ASSUME LogInv, [ReviewNext]_allVars PROVE LogInv'
<1>0. ReviewInv' /\ ReviewInv BY StepReview DEF LogInv
<1>n. \A r \in Recruiters : NamesItem(request[r]) BY DEF LogInv
<1>t. request \in [Recruiters -> Request] BY <1>0 DEF ReviewInv, ReviewTypes
<1>i. NamesItem(NoRequest) BY DEF NamesItem, NoRequest
<1>1. ASSUME CreateSession PROVE LogInv'
  BY <1>0, <1>1 DEF CreateSession, LogInv, AssignmentsTold, ItemsDecided
<1>2. ASSUME NEW r \in Recruiters, Send(r) PROVE LogInv'
  <2>1. PICK op \in Operations, etag \in {0, version} : \E on \in Targets(op) :
          request' = [request EXCEPT ![r] = [step |-> "arrived", op |-> op, on |-> on,
                                             etag |-> etag, version |-> 0]]
    BY <1>2 DEF Send
  <2>2. PICK on \in Targets(op) :
          request' = [request EXCEPT ![r] = [step |-> "arrived", op |-> op, on |-> on,
                                             etag |-> etag, version |-> 0]]
    BY <2>1
  <2>3. op = "review" => on \in Items BY DEF Targets
  <2>4. \A s \in Recruiters : NamesItem(request'[s]) BY <1>n, <1>t, <2>2, <2>3 DEF NamesItem
  <2> QED BY <1>0, <1>2, <2>4, LogsKept DEF Send
<1>3. ASSUME NEW r \in Recruiters, Permit(r) PROVE LogInv'
  <2>1. \A s \in Recruiters : NamesItem(request'[s])
    BY <1>3, <1>n, <1>t, <1>i DEF Permit, Replies, NamesItem, Request
  <2> QED BY <1>0, <1>3, <2>1, LogsKept DEF Permit
<1>4. ASSUME NEW r \in Recruiters, Apply(r) PROVE LogInv'
  <2>1. \A s \in Recruiters : NamesItem(request'[s])
    BY <1>4, <1>n, <1>t, <1>i DEF Apply, Replies, NamesItem, Request
  <2> QED BY <1>0, <1>4, <2>1, LogsKept DEF Apply
<1>5. ASSUME NEW r \in Recruiters, Save(r) PROVE LogInv'
  <2>1. request[r].step = "applied" /\ request' = [request EXCEPT ![r] = NoRequest]
    BY <1>5 DEF Save, Replies
  <2>2. \A s \in Recruiters : NamesItem(request'[s]) BY <1>n, <1>t, <1>i, <2>1
  <2>3. CASE UNCHANGED session BY <1>0, <2>2, <2>3, LogsKept
  <2>4. CASE Fresh(r) /\ Changed(r)
    <3>1. Allows(r) BY <2>1, <2>4, <1>0 DEF ReviewInv, StillAllowed, Fresh
    <3> QED BY <1>0, <2>2, <2>4, <3>1, ChangeIsTold DEF LogInv
  <2> QED BY <1>5, <2>3, <2>4 DEF Save
<1>6. CASE UNCHANGED reviewVars
  BY <1>0, <1>n, <1>6, LogsKept DEF reviewVars, NamesItem
<1> QED BY <1>1, <1>2, <1>3, <1>4, <1>5, <1>6 DEF ReviewNext, allVars

LEMMA LogInvHolds == ReviewSpec => []LogInv
<1>1. ReviewInit => LogInv BY InitLogs
<1>2. LogInv /\ [ReviewNext]_allVars => LogInv' BY StepLogs
<1> QED BY <1>1, <1>2, PTL DEF ReviewSpec

\* Whatever requests crossed (start, complete and cancel of ReviewService), a completed
\* assignment was assigned, started and completed, the last two by its reviewer, and
\* nothing happened to a cancelled one afterwards.
THEOREM CompletedAssignmentsWereWorked == ReviewSpec => []CompletedWasWorked
<1>1. ASSUME LogInv, NEW n \in DOMAIN assignments,
             assignments[n].status = "completed"
      PROVE  /\ [e \in DOMAIN assignments[n].log |-> assignments[n].log[e].op]
                  = <<"assign", "start", "complete">>
             /\ assignments[n].log[2].by = assignments[n].reviewer
             /\ assignments[n].log[3].by = assignments[n].reviewer
  <2> DEFINE log == assignments[n].log
  <2>1. assignments[n] \in Assignment BY <1>1 DEF LogInv, ReviewInv, ReviewTypes
  <2>2. log \in Seq(Events) BY <2>1 DEF Assignment
  <2>3. /\ Len(log) = 3 /\ log[1].op = "assign"
        /\ log[2] = [op |-> "start", by |-> assignments[n].reviewer]
        /\ log[3] = [op |-> "complete", by |-> assignments[n].reviewer]
    BY <1>1 DEF LogInv, AssignmentsTold, Told
  <2> HIDE DEF log
  <2>4. DOMAIN log = 1..3 BY <2>2, <2>3
  <2>5. [e \in DOMAIN log |-> log[e].op] = <<"assign", "start", "complete">>
    BY <2>3, <2>4
  <2>6. log[2].by = assignments[n].reviewer /\ log[3].by = assignments[n].reviewer BY <2>3
  <2> QED BY <2>5, <2>6 DEF log
<1>2. ASSUME LogInv, NEW n \in DOMAIN assignments, assignments[n].status = "cancelled"
      PROVE  Last(assignments[n].log).op = "cancel"
  BY <1>2 DEF LogInv, AssignmentsTold, Told, Last
<1>3. LogInv => CompletedWasWorked BY <1>1, <1>2 DEF CompletedWasWorked
<1> QED BY <1>3, LogInvHolds, PTL

\* An appeal or a signal (review_appeal, review_integrity_signal of InterviewService) is
\* decided once, by the one that the session names, however many requests decide it.
THEOREM ItemsAreDecidedOnce == ReviewSpec => []DecidedOnce
<1>1. ASSUME LogInv, NEW i \in Items
      PROVE  LET log == items[i].log
                 reviews == {e \in DOMAIN log : log[e].op = "review"}
             IN  IF items[i].status = "reviewed"
                 THEN \E e \in DOMAIN log : reviews = {e} /\ log[e].by = items[i].by
                 ELSE reviews = {}
  <2> DEFINE log == items[i].log
             reviews == {e \in DOMAIN log : log[e].op = "review"}
  <2>1. items[i] \in Item /\ Decided(items[i]) BY <1>1 DEF LogInv, ItemsDecided
  <2>2. log \in Seq(Events) BY <2>1 DEF Item
  <2>3. DOMAIN log = 1..Len(log) BY <2>2
  <2>4. CASE items[i].status = "reviewed"
    <3>1. Len(log) = 2 /\ log[1].op = "submit" /\ log[2] = [op |-> "review", by |-> items[i].by]
      BY <2>1, <2>4 DEF Decided
    <3>2. DOMAIN log = {1, 2} BY <2>3, <3>1
    <3>3. log[2].op = "review" /\ log[2].by = items[i].by BY <3>1
    <3>4. reviews = {2} BY <3>1, <3>2, <3>3
    <3> QED BY <2>4, <3>2, <3>3, <3>4
  <2>5. CASE items[i].status = "pending"
    <3>1. Len(log) = 1 /\ log[1].op = "submit" BY <2>1, <2>5 DEF Decided
    <3>2. DOMAIN log = {1} BY <2>3, <3>1
    <3> QED BY <2>5, <3>1, <3>2
  <2>6. CASE items[i].status = "none"
    <3>1. log = <<>> BY <2>1, <2>6 DEF Decided
    <3> QED BY <2>6, <3>1
  <2> QED BY <2>1, <2>4, <2>5, <2>6 DEF Item
<1>2. LogInv => DecidedOnce BY <1>1 DEF DecidedOnce
<1> QED BY <1>2, LogInvHolds, PTL

\* The session keeps its types and its bounds, and so does the studio.
THEOREM ReviewTypesAreKept == ReviewSpec => []ReviewTypeOK
<1>1. LogInv /\ RubricInv => ReviewTypeOK
  BY DEF LogInv, ReviewInv, ReviewTypes, RubricInv, ReviewTypeOK, Assignment, Item
<1> QED BY <1>1, LogInvHolds, RubricInvHolds, ReviewIncludesRubric, PTL
=============================================================================
