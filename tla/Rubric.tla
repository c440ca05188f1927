------------------------------- MODULE Rubric -------------------------------
(***************************************************************************)
(* The rubric studio: RubricWorkflowService (rubric_service.py,            *)
(* rubric_drafting.py) over approve_rubric_draft of the three stores       *)
(* (storage.py, sqlite_store.py, postgres_store.py).  A drafted rubric     *)
(* becomes a job when a recruiter approves it; several recruiters, in      *)
(* several processes, may approve the same draft or name the same job.     *)
(***************************************************************************)
EXTENDS Naturals

CONSTANTS
  Recruiters,  \* requests of the recruiting API
  Drafts,      \* rubric draft ids
  Jobs,        \* job ids
  Nothing      \* no row under this id; a draft that is not approved yet

ASSUME RubricAssumption ==
  Nothing \notin Recruiters /\ Nothing \notin Drafts /\ Nothing \notin Jobs

VARIABLES
  drafted,   \* rows of rubric_drafts
  approved,  \* their approved_job_id
  jobs,      \* rows of jobs: the draft of their rubric_provenance, and what wrote the
             \* row (for the properties only: no column says so)
  approval   \* what each recruiter's approval has read

rubricVars == <<drafted, approved, jobs, approval>>

JobRow == [origin : {"none", "post", "approval"}, draft : Drafts \cup {Nothing}]
NoJobRow == [origin |-> "none", draft |-> Nothing]
Posted(d) == [origin |-> "post", draft |-> d]
ApprovedFrom(d) == [origin |-> "approval", draft |-> d]

Exists(j) == jobs[j].origin # "none"

(* "reviewed"  the draft that was read is still a draft                    *)
(* "selected"  the SELECT of the store has found it unapproved             *)
Idle == [step |-> "idle", draft |-> Nothing, job |-> Nothing]
Approval == [step : {"idle", "reviewed", "selected"}, draft : Drafts \cup {Nothing},
             job : Jobs \cup {Nothing}]

RubricInit ==
  /\ drafted = {} /\ approved = [d \in Drafts |-> Nothing]
  /\ jobs = [j \in Jobs |-> NoJobRow]
  /\ approval = [r \in Recruiters |-> Idle]

Quits(r) == approval' = [approval EXCEPT ![r] = Idle]
-----------------------------------------------------------------------------
\* draft: the drafter answers, and the draft is inserted under an id of its own.
Draft(d) ==
  /\ d \notin drafted
  /\ drafted' = drafted \cup {d}
  /\ UNCHANGED <<approved, jobs, approval>>

\* POST /v1/jobs: an upsert, under an id that the client may choose, of all of the job's
\* fields: a rubric_provenance is kept as the client writes it.
CreateJob(j) ==
  /\ \E d \in Drafts \cup {Nothing} : jobs' = [jobs EXCEPT ![j] = Posted(d)]
  /\ UNCHANGED <<drafted, approved, approval>>

\* approve: a draft that was approved already is refused here.  The request names
\* the job's id, or it is a fresh one.
Approve(r) ==
  /\ approval[r] = Idle
  /\ \E d \in drafted, j \in Jobs :
       /\ approved[d] = Nothing
       /\ approval' = [approval EXCEPT ![r] = [step |-> "reviewed", draft |-> d, job |-> j]]
  /\ UNCHANGED <<drafted, approved, jobs>>

\* SQLite reads outside of the transaction that follows.  (In memory and in PostgreSQL,
\* under a lock, this and the commit are one step: the two here, one after the other.)
Select(r) ==
  /\ approval[r].step = "reviewed"
  /\ IF approved[approval[r].draft] = Nothing
     THEN approval' = [approval EXCEPT ![r].step = "selected"]
     ELSE Quits(r)
  /\ UNCHANGED <<drafted, approved, jobs>>

\* Defect: the UPDATE does not ask that approved_job_id is still NULL.
InsertsOnly(r) == ~Exists(approval[r].job)

\* In one transaction, or under the lock: INSERT INTO jobs fails on an existing id,
\* and the draft must not be approved.
Commits(r) == ~Exists(approval[r].job) /\ approved[approval[r].draft] = Nothing

CommitApproval(r) ==
  /\ approval[r].step = "selected"
  /\ \/ /\ Commits(r)
        /\ jobs' = [jobs EXCEPT ![approval[r].job] = ApprovedFrom(approval[r].draft)]
        /\ approved' = [approved EXCEPT ![approval[r].draft] = approval[r].job]
     \/ ~Commits(r) /\ UNCHANGED <<jobs, approved>>
  /\ Quits(r)
  /\ UNCHANGED drafted

RubricNext ==
  \/ \E d \in Drafts : Draft(d)
  \/ \E j \in Jobs : CreateJob(j)
  \/ \E r \in Recruiters : Approve(r) \/ Select(r) \/ CommitApproval(r)

RubricSpec == RubricInit /\ [][RubricNext]_rubricVars
-----------------------------------------------------------------------------
RubricTypeOK ==
  /\ drafted \subseteq Drafts
  /\ approved \in [Drafts -> Jobs \cup {Nothing}]
  /\ jobs \in [Jobs -> JobRow]
  /\ approval \in [Recruiters -> Approval]

\* A job that an approval wrote is the one its draft was approved into: no draft yields
\* two jobs, and no approval loses its draft to another one, whoever approves it at the
\* same time and whatever is posted in between.
ApprovalYieldsOneJob ==
  \A j \in Jobs : jobs[j].origin = "approval" => approved[jobs[j].draft] = j

\* The approved draft's job exists, and stands for that draft unless a POST has replaced
\* it since.
ApprovedHasJob ==
  \A d \in Drafts : approved[d] # Nothing =>
    /\ Exists(approved[d])
    /\ jobs[approved[d]].origin = "approval" => jobs[approved[d]].draft = d
=============================================================================
