--------------------------- MODULE EvidenceGraph ---------------------------
(***************************************************************************)
(* The skill evidence graph of one session (evidence.py) and the service   *)
(* operations that change it (service.py): answers that leave claims and   *)
(* are judged, observations of evaluators and practical tools, transcript  *)
(* corrections, and re-evaluations by the semantic judge, which keep a     *)
(* loaded session across the judge's answer and save it by version.        *)
(*                                                                         *)
(* Evidence states are their _STATE_RANK.  Texts are abstracted to the     *)
(* number of corrections they had; a quote that passed the literal check   *)
(* is a quote of that revision.                                            *)
(***************************************************************************)
EXTENDS Naturals, Sequences

CONSTANTS
  Competencies,  \* competency ids of the job
  Turns,         \* candidate turns the session may come to have
  Tags,          \* Tags[t]: competencies of the question that turn t answers
  ToolTags,      \* ToolTags[t]: competencies of the tool whose artifact turn t is
  Confidences,   \* confidence values, as an ordered set of numbers up to Full
  Full,          \* the confidence 1.0 of claims and of tool evaluations
  None,          \* a node without confidence
  Judges,        \* concurrent re-evaluation requests
  Findings,      \* findings that judges return (and the gate accepts)
  Observations,  \* observations that evaluators send
  MaxRevision,   \* bound: corrections per turn
  MaxEvidence    \* MaxEvidence[c], bound: evidence items of competency c

Unknown == 0
Insufficient == 1
Claimed == 2
Demonstrated == 3
Verified == 4
Contradicted == 5
States == 0..5

ASSUME EvidenceAssumption ==
  /\ Tags \in [Turns -> SUBSET Competencies]
  /\ ToolTags \in [Turns -> SUBSET Competencies]
  /\ Full \in Nat /\ Confidences \subseteq 0..Full /\ Full \in Confidences
  /\ None \notin Nat
  /\ MaxRevision \in Nat /\ MaxEvidence \in [Competencies -> Nat]
  /\ Findings \subseteq [state : States \ {Verified}, confidence : Confidences]
  /\ Observations \subseteq [state : States, confidence : Confidences, semantic : BOOLEAN]

VARIABLES
  graph,     \* session.evidence_graph
  revision,  \* corrections of each turn's text; None while it is not spoken
  pending    \* per re-evaluation: the turn and the revision of it that the
             \* judge reads, and whether the stored session has moved on

vars == <<graph, revision, pending>>

Item == [turn : Turns, state : States, confidence : Confidences,
         semantic : BOOLEAN, revision : Nat, active : BOOLEAN]

Node == [state : States, confidence : Confidences \cup {None}, evidence : Seq(Item)]

CompetencyEvidence(st, conf, ev) == [state |-> st, confidence |-> conf, evidence |-> ev]

EvidenceItem(t, st, conf, sem, rev, act) ==
  [turn |-> t, state |-> st, confidence |-> conf, semantic |-> sem,
   revision |-> rev, active |-> act]

Spoken(t) == revision[t] # None
-----------------------------------------------------------------------------
(***************************************************************************)
(* The graph's operations, on one node.                                    *)
(***************************************************************************)

(* record_candidate_claim *)
WithClaim(n, t) ==
  LET ev == Append(n.evidence, EvidenceItem(t, Claimed, Full, FALSE, 0, TRUE))
  IN  IF n.state < Claimed
      THEN CompetencyEvidence(Claimed, None, ev)
      ELSE CompetencyEvidence(n.state, n.confidence, ev)

(* Mutant: the latest observation moves the node, however weak it is.      *)
LatestWins(n, i) ==
  CompetencyEvidence(i.state, i.confidence, Append(n.evidence, i))

(* apply_observation: a contradiction stays, and takes precedence; else an *)
(* observation at least as strong as the node moves it.                    *)
WithObservation(n, i) ==
  LET ev == Append(n.evidence, i)
      moves == /\ n.state # Contradicted
               /\ i.state = Contradicted \/ i.state >= n.state
  IN  IF moves THEN CompetencyEvidence(i.state, i.confidence, ev)
               ELSE CompetencyEvidence(n.state, n.confidence, ev)

Active(ev) == {k \in 1..Len(ev) : ev[k].active}

Highest(S) == CHOOSE m \in S : \A x \in S : x <= m

(* Mutant: the confidence is taken over all active evidence.               *)
RecomputedOverAll(ev) ==
  IF Active(ev) = {}
  THEN CompetencyEvidence(Unknown, None, ev)
  ELSE LET rank == Highest({ev[k].state : k \in Active(ev)})
       IN  CompetencyEvidence(rank,
             IF rank \in {Claimed, Unknown} THEN None
             ELSE Highest({ev[k].confidence : k \in Active(ev)}), ev)

(* recompute_node *)
Recomputed(ev) ==
  IF Active(ev) = {}
  THEN CompetencyEvidence(Unknown, None, ev)
  ELSE LET rank == Highest({ev[k].state : k \in Active(ev)})
           strongest == {k \in Active(ev) : ev[k].state = rank}
       IN  CompetencyEvidence(rank,
             IF rank \in {Claimed, Unknown} THEN None
             ELSE Highest({ev[k].confidence : k \in strongest}), ev)

(* Mutant: all evidence of the turn is superseded, whoever gave it.        *)
IsOfTurn(i, t) == i.active /\ i.turn = t

IsSuperseded(i, t) == i.active /\ i.turn = t /\ i.semantic

(* Mutant: superseded evidence is removed.                                 *)
DropSuperseded(n, t) ==
  Recomputed(SelectSeq(n.evidence, LAMBDA i : ~IsSuperseded(i, t)))

(* supersede_semantic_evidence_for_turn; other nodes are not recomputed.   *)
Superseded(n, t) ==
  LET off(i) == EvidenceItem(i.turn, i.state, i.confidence, i.semantic, i.revision, FALSE)
      ev == [k \in 1..Len(n.evidence) |->
               IF IsSuperseded(n.evidence[k], t) THEN off(n.evidence[k]) ELSE n.evidence[k]]
  IN  IF \E k \in 1..Len(n.evidence) : IsSuperseded(n.evidence[k], t)
      THEN Recomputed(ev)
      ELSE n

(***************************************************************************)
(* A judge's findings for one competency are a sequence; two are enough    *)
(* for the order to matter.  GroundedEvidenceGate lets no "verified" pass. *)
(***************************************************************************)
FindingLists == {<<>>} \cup {<<f>> : f \in Findings} \cup {<<f, g>> : f, g \in Findings}

(* A valid response for turn t; a competency that was not asked about      *)
(* raises.                                                                 *)
Responses(t) == [Tags[t] -> FindingLists]

Found(f, t, rev) == EvidenceItem(t, f.state, f.confidence, TRUE, rev, TRUE)

WithFindings(n, fs, t, rev) ==
  CASE fs = <<>> -> n
    [] Len(fs) = 1 -> WithObservation(n, Found(fs[1], t, rev))
    [] OTHER -> WithObservation(WithObservation(n, Found(fs[1], t, rev)), Found(fs[2], t, rev))

Run(t, rev, stale) == [turn |-> t, revision |-> rev, stale |-> stale]

(* Every save moves the version on: whoever loaded before is stale.        *)
Moved == [j \in Judges |-> IF pending[j] = None THEN None
                           ELSE Run(pending[j].turn, pending[j].revision, TRUE)]
-----------------------------------------------------------------------------
(***************************************************************************)
(* The service operations.                                                 *)
(***************************************************************************)
Init ==
  /\ graph = [c \in Competencies |-> CompetencyEvidence(Unknown, None, <<>>)]
  /\ revision = [t \in Turns |-> None]
  /\ pending = [j \in Judges |-> None]

Bounded(g) == \A c \in Competencies : Len(g[c].evidence) <= MaxEvidence[c]

(* answer: one claim per tag, then the judge's findings, or none when it   *)
(* is disabled or failed.                                                  *)
Answer(t) ==
  /\ ~Spoken(t)
  /\ revision' = [revision EXCEPT ![t] = 0]
  /\ \E fs \in Responses(t) :
       graph' = [c \in Competencies |->
                   IF c \in Tags[t] THEN WithFindings(WithClaim(graph[c], t), fs[c], t, 0)
                                    ELSE graph[c]]
  /\ Bounded(graph')
  /\ pending' = Moved

(* submit_tool: the artifact turn, and an observation for each tag of the  *)
(* tool unless the evaluator leaves the verdict to a human (Unknown).      *)
SubmitTool(t, verdict) ==
  /\ ~Spoken(t)
  /\ verdict \in {Demonstrated, Insufficient, Unknown}
  /\ revision' = [revision EXCEPT ![t] = 0]
  /\ graph' = [c \in Competencies |->
                 IF c \in ToolTags[t] /\ verdict # Unknown
                 THEN WithObservation(graph[c], EvidenceItem(t, verdict, Full, FALSE, 0, TRUE))
                 ELSE graph[c]]
  /\ Bounded(graph')
  /\ pending' = Moved

(* observe_evidence: any competency, on any turn; a quote is checked       *)
(* against the current text.                                               *)
Observe(c, t, o) ==
  /\ Spoken(t)
  /\ o.semantic => o.state # Verified
  /\ graph' = [graph EXCEPT ![c] =
                 WithObservation(graph[c], EvidenceItem(t, o.state, o.confidence, o.semantic,
                                                        revision[t], TRUE))]
  /\ Bounded(graph')
  /\ pending' = Moved
  /\ UNCHANGED revision

(* Mutant: the correction leaves the judge's evidence to a re-evaluation.  *)
CorrectOnly(t) ==
  /\ Spoken(t)
  /\ revision[t] < MaxRevision
  /\ revision' = [revision EXCEPT ![t] = revision[t] + 1]
  /\ pending' = Moved
  /\ UNCHANGED graph

(* correct_transcript, and the control correct_last_answer.                *)
Correct(t) ==
  /\ Spoken(t)
  /\ revision[t] < MaxRevision
  /\ revision' = [revision EXCEPT ![t] = revision[t] + 1]
  /\ graph' = [c \in Competencies |-> Superseded(graph[c], t)]
  /\ pending' = Moved

(* reevaluate_evidence loads the session and asks the judge.               *)
BeginReevaluation(j, t) ==
  /\ pending[j] = None
  /\ Spoken(t)
  /\ Tags[t] # {}
  /\ pending' = [pending EXCEPT ![j] = Run(t, revision[t], FALSE)]
  /\ UNCHANGED <<graph, revision>>

Done(j) == [k \in Judges |-> IF k = j THEN None ELSE Moved[k]]

(* Mutant: the save does not compare versions.                             *)
SavesAlways(j) == pending[j] # None

(* put_session finds the version the session was loaded at.                *)
MaySave(j) == pending[j] # None /\ ~pending[j].stale

(* The judge's answer passed the gate: the old evidence of the turn gives  *)
(* way to the new, on every competency that had any.                       *)
Reevaluated(j) ==
  /\ MaySave(j)
  /\ LET t == pending[j].turn
     IN  \E fs \in Responses(t) :
           graph' = [c \in Competencies |->
                       IF c \in Tags[t]
                       THEN WithFindings(Superseded(graph[c], t), fs[c], t, pending[j].revision)
                       ELSE Superseded(graph[c], t)]
  /\ Bounded(graph')
  /\ pending' = Done(j)
  /\ UNCHANGED revision

(* The judge failed or its answer was rejected: the run is recorded and    *)
(* saved, the evidence stays.                                              *)
ReevaluationFailed(j) ==
  /\ MaySave(j)
  /\ pending' = Done(j)
  /\ UNCHANGED <<graph, revision>>

(* The save finds another version: 409, nothing changes.                   *)
ReevaluationConflict(j) ==
  /\ pending[j] # None
  /\ pending[j].stale
  /\ pending' = [pending EXCEPT ![j] = None]
  /\ UNCHANGED <<graph, revision>>

Next ==
  \/ \E t \in Turns : Answer(t) \/ Correct(t)
  \/ \E t \in Turns, verdict \in {Demonstrated, Insufficient, Unknown} : SubmitTool(t, verdict)
  \/ \E c \in Competencies, t \in Turns, o \in Observations : Observe(c, t, o)
  \/ \E j \in Judges : \/ \E t \in Turns : BeginReevaluation(j, t)
                       \/ Reevaluated(j) \/ ReevaluationFailed(j) \/ ReevaluationConflict(j)

Spec == Init /\ [][Next]_vars
-----------------------------------------------------------------------------
(***************************************************************************)
(* Properties.                                                             *)
(***************************************************************************)
TypeOK ==
  /\ graph \in [Competencies -> Node]
  /\ revision \in [Turns -> Nat \cup {None}]
  /\ pending \in [Judges -> [turn : Turns, revision : Nat, stale : BOOLEAN] \cup {None}]

(* A competency's state is the strongest of its active evidence, whichever *)
(* way it got there: claim by claim and observation by observation, or     *)
(* recomputed after evidence was superseded.                               *)
StateIsStrongest ==
  \A c \in Competencies :
    /\ \A k \in Active(graph[c].evidence) : graph[c].evidence[k].state <= graph[c].state
    /\ \/ graph[c].state = Unknown
       \/ \E k \in Active(graph[c].evidence) : graph[c].evidence[k].state = graph[c].state

(* A confidence is that of active evidence for the very state it stands    *)
(* beside: superseded or weaker evidence never lends its confidence.       *)
ConfidenceIsBacked ==
  \A c \in Competencies :
    /\ graph[c].confidence # None =>
         \E k \in Active(graph[c].evidence) :
           /\ graph[c].evidence[k].state = graph[c].state
           /\ graph[c].evidence[k].confidence = graph[c].confidence
    /\ graph[c].confidence = None => graph[c].state \in {Unknown, Claimed}

(* Active evidence of the semantic judge quotes the current text of its    *)
(* turn, even when a correction is saved while a judge is reading the old  *)
(* text.                                                                   *)
SemanticEvidenceIsCurrent ==
  \A c \in Competencies : \A k \in Active(graph[c].evidence) :
    graph[c].evidence[k].semantic
      => graph[c].evidence[k].revision = revision[graph[c].evidence[k].turn]

(* INTERVIEW_PROTOCOL.md: "A contradiction is sticky: a later positive     *)
(* observation does not silently erase it."  It goes only with the judge's *)
(* evidence for it, by a correction or a re-evaluation of that turn.       *)
ContradictionIsSticky ==
  [][\A c \in Competencies :
       graph[c].state = Contradicted /\ graph'[c].state # Contradicted =>
         \A k \in Active(graph[c].evidence) : graph[c].evidence[k].state = Contradicted =>
           graph[c].evidence[k].semantic /\ ~graph'[c].evidence[k].active]_vars

(* Evidence is append-only: no operation drops or rewrites an item, and    *)
(* what was superseded never becomes active again.                         *)
EvidenceIsKept ==
  [][\A c \in Competencies :
       LET old == graph[c].evidence
           new == graph'[c].evidence
       IN  /\ Len(old) <= Len(new)
           /\ \A k \in 1..Len(old) :
                /\ new[k].turn = old[k].turn /\ new[k].state = old[k].state
                /\ new[k].revision = old[k].revision
                /\ new[k].active => old[k].active]_vars
=============================================================================
