----------------------------- MODULE Interview -----------------------------
(***************************************************************************)
(* The life of one interview session (service.py) with its two-lane        *)
(* planner (planner.py), its brains (providers/), the candidate controls   *)
(* (controls.py) and the replay of its event log (replay.py).              *)
(*                                                                         *)
(* An action is one service operation from load to save.  SessionStore     *)
(* shows that concurrent operations take effect one at a time; an          *)
(* operation that raises before it saves, or whose save is refused, leaves *)
(* the session as it was and is no step here.                              *)
(*                                                                         *)
(* Turns are abstracted to what later decisions read of them: the          *)
(* competency tags of the latest evaluative question.  Answer texts are    *)
(* abstracted to whether they have fewer than 18 words.                    *)
(***************************************************************************)
EXTENDS Integers, Sequences, FiniteSets

LOCAL INSTANCE Functions

CONSTANTS
  N,             \* competencies of the job are 1..N, in rubric order
  Anchored,      \* the competencies that have an anchor_question
  MaxQuestions,  \* JobSpec.max_questions
  RatioNum, RatioDen,  \* JobSpec.anchor_ratio = RatioNum / RatioDen
  MaxTools,      \* JobSpec.max_tools
  Policy,        \* Policy[t]: competency_ids of the job's t-th tool template
  TagLists,      \* competency tag lists that a model or an API client sends
  Brains,        \* the brains that may answer: "rules", "llm" or both
  ClientStatuses, \* tool statuses that clients of open_tool send
  ToolBound      \* bound: at most this many tools are opened in a session

Competencies == 1..N
ToolStatuses == {"open", "submitted", "evaluated", "cancelled"}
Templates == DOMAIN Policy
NoTemplate == 0

ASSUME JobAssumption ==
  /\ N \in Nat \ {0}
  /\ Anchored \subseteq Competencies
  /\ MaxQuestions \in Nat \ {0}
  /\ RatioNum \in Nat /\ RatioDen \in Nat \ {0} /\ RatioNum <= RatioDen
  /\ MaxTools \in Nat /\ ToolBound \in Nat /\ MaxTools <= ToolBound
  /\ \A t \in Templates : t \in Nat \ {0} /\ Policy[t] \subseteq Competencies
  /\ \A l \in TagLists : l \in Seq(Competencies)
  /\ Brains \subseteq {"rules", "llm"} /\ Brains # {}
  /\ ClientStatuses \subseteq ToolStatuses

VARIABLES
  status,      \* session.status
  paused,      \* session.paused
  asked,       \* session.asked_questions
  anchors,     \* session.asked_anchor_competencies
  covered,     \* session.covered_competencies
  followups,   \* session.followups_by_competency
  question,    \* tags of the latest interviewer turn that is no control reply
  tools,       \* session.tools
  replay       \* what replay_events computes from the events so far

vars == <<status, paused, asked, anchors, covered, followups, question, tools, replay>>

Terminal == {"completed", "cancelled"}
Range1(tags) == {tags[i] : i \in 1..Len(tags)}
-----------------------------------------------------------------------------
(***************************************************************************)
(* Replay: an event either is reconstructed (here) or only counted.        *)
(***************************************************************************)

Replayed(s, p, o, sub, ev, c) ==
  [status |-> s, paused |-> p, opened |-> o, submitted |-> sub,
   evaluated |-> ev, cancelled |-> c]

(* Appending events of one type; ts are the tool ids they carry.           *)
ReplayEvent(r, type, ts) ==
  Replayed(
    CASE type = "interview_started" -> "running"
      [] type = "session_completed" -> "completed"
      [] type = "session_cancelled" -> "cancelled"
      [] OTHER -> r.status,
    CASE type = "thinking_time" -> TRUE
      [] type \in {"resume", "session_completed", "session_cancelled"} -> FALSE
      [] OTHER -> r.paused,
    IF type = "tool_opened" THEN r.opened \cup ts ELSE r.opened,
    IF type = "tool_submitted" THEN r.submitted \cup ts ELSE r.submitted,
    IF type = "tool_evaluated" THEN r.evaluated \cup ts ELSE r.evaluated,
    IF type = "tool_cancelled" THEN r.cancelled \cup ts ELSE r.cancelled)

(* Mutant: completion leaves no event.                                     *)
ReplayToolOnly(r, d, n) ==
  IF d.template # NoTemplate THEN ReplayEvent(r, "tool_opened", {n}) ELSE r

(* The events a decision may end with: the tool it requests, opened as the *)
(* n-th of the session, and the completion of the session.                 *)
ReplayDecision(r, d, n) ==
  LET r1 == IF d.template # NoTemplate THEN ReplayEvent(r, "tool_opened", {n}) ELSE r
  IN  IF d.completes THEN ReplayEvent(r1, "session_completed", {}) ELSE r1
-----------------------------------------------------------------------------
(***************************************************************************)
(* Decisions and the planner.                                              *)
(***************************************************************************)

(* AgentDecision: its tags, whether it has a parent turn, whether it       *)
(* completes the interview, the tool template it requests, and whether its *)
(* reason starts with "anchor:".                                           *)
Decision(tags, parent, completes, template, anchor) ==
  [tags |-> tags, parent |-> parent, completes |-> completes,
   template |-> template, anchor |-> anchor]

Closing == Decision(<<>>, FALSE, TRUE, NoTemplate, FALSE)

First(S) == CHOOSE c \in S : \A d \in S : c <= d

(* min(available anchors, ceil(max_questions * anchor_ratio)).             *)
AnchorBudget ==
  LET available == Cardinality(Anchored)
      target == (MaxQuestions * RatioNum + RatioDen - 1) \div RatioDen
  IN  IF available <= target THEN available ELSE target

Unasked == Anchored \ anchors

(* next_anchor returns a question: the budget is not used up, an anchored  *)
(* competency is left, and the share of anchors is below the ratio.        *)
AnchorDue ==
  /\ Cardinality(anchors) < AnchorBudget
  /\ Unasked # {}
  /\ asked = 0 \/ Cardinality(anchors) * RatioDen < RatioNum * asked

AnchorDecision == Decision(<<First(Unasked)>>, FALSE, FALSE, NoTemplate, TRUE)

(* _apply_decision: the turn is spoken, counted unless it closes the       *)
(* interview, and booked as an anchor when its lane is ANCHOR.             *)
ApplyDecision(d) ==
  /\ asked' = IF d.completes THEN asked ELSE asked + 1
  /\ anchors' = IF d.anchor /\ ~d.completes THEN anchors \cup Range1(d.tags) ELSE anchors
  /\ question' = d.tags

(* A follow-up is booked on its first competency.                          *)
CountFollowup(d) ==
  followups' = IF d.parent /\ d.tags # <<>>
               THEN [followups EXCEPT ![Head(d.tags)] = followups[Head(d.tags)] + 1]
               ELSE followups

(* Mutant: an artifact that was handed in frees its template.              *)
OpenTemplates == {tools[i].template : i \in {j \in 1..Len(tools) : tools[j].status = "open"}}
                   \ {NoTemplate}

(* The templates of every tool of the session, whatever became of it.      *)
UsedTemplates == {tools[i].template : i \in 1..Len(tools)} \ {NoTemplate}

MayRequest(t, tags) ==
  /\ Len(tools) < MaxTools
  /\ t \in Templates \ UsedTemplates
  /\ Policy[t] # {} => Range1(tags) \subseteq Policy[t]

Tool(st, template, tags, agent) ==
  [status |-> st, template |-> template, tags |-> tags, agent |-> agent]

(* _open_requested_tool and _append_tool, given the tools so far; a        *)
(* request that breaks the job's policy raises before anything is saved.   *)
OpenRequestedTool(sofar, d) ==
  IF d.template = NoTemplate
  THEN tools' = sofar
  ELSE /\ MayRequest(d.template, d.tags)
       /\ tools' = Append(sofar, Tool("open", d.template, d.tags, TRUE))
-----------------------------------------------------------------------------
(***************************************************************************)
(* The rule-based brain.                                                   *)
(***************************************************************************)

Active == IF question # <<>> THEN Head(question) ELSE 1

(* Templates the rules may open now for the active competency.             *)
Offered ==
  {t \in Templates \ UsedTemplates : Policy[t] = {} \/ Active \in Policy[t]}

RuleOpening == {Decision(<<1>>, FALSE, FALSE, NoTemplate, FALSE)}

(* A short answer is followed up once per competency.                      *)
RuleFollowsUp(short) == short /\ followups[Active] < 1

(* Otherwise the active competency counts as covered.                      *)
RuleCovered(short) ==
  IF asked >= MaxQuestions \/ RuleFollowsUp(short) THEN covered ELSE covered \cup {Active}

RuleAfterAnswer(short) ==
  IF asked >= MaxQuestions
  THEN Closing
  ELSE IF RuleFollowsUp(short)
  THEN Decision(<<Active>>, TRUE, FALSE, NoTemplate, FALSE)
  ELSE IF Len(tools) < MaxTools /\ Offered # {}
  THEN Decision(<<Active>>, TRUE, FALSE, First(Offered), FALSE)
  ELSE IF Competencies \subseteq RuleCovered(short)
  THEN Closing
  ELSE Decision(<<First(Competencies \ RuleCovered(short))>>, FALSE, FALSE, NoTemplate, FALSE)

(* After a tool it always probes the artifact, whatever the budget.        *)
RuleAfterTool(tags) ==
  Decision(IF tags # <<>> THEN tags ELSE <<1>>, TRUE, FALSE, NoTemplate, FALSE)
-----------------------------------------------------------------------------
(***************************************************************************)
(* The LLM brain: whatever the model says, within what _complete and       *)
(* _to_decision let through.  An output they reject raises; the fallback   *)
(* brain then answers, which is the rule-based brain.                      *)
(***************************************************************************)

(* The non-complete actions: follow_up (with a parent turn) or advance,    *)
(* each naming a competency, and open_tool (with a parent turn) within the *)
(* job's policy.  The model's reason may start with "anchor:".             *)
Named == {l \in TagLists : l # <<>>}

LLMQuestions ==
  [tags : Named, parent : BOOLEAN, completes : {FALSE}, template : {NoTemplate},
   anchor : BOOLEAN]

LLMToolRequests ==
  {d \in [tags : Named, parent : {TRUE}, completes : {FALSE}, template : Templates,
          anchor : BOOLEAN] : MayRequest(d.template, d.tags)}

(* opening turns complete and open_tool into advance (a complete may name  *)
(* no competency), and it may not follow up; the budget closes.            *)
LLMOpening ==
  {d \in {Closing} : asked >= MaxQuestions} \cup
  {d \in [tags : TagLists, parent : {FALSE}, completes : {FALSE}, template : {NoTemplate},
          anchor : BOOLEAN] : asked < MaxQuestions}

(* Mutant: the model alone decides when the interview is over.             *)
LLMUnbudgeted == {Closing} \cup LLMQuestions \cup LLMToolRequests

(* after_answer and after_tool: complete, or another action within the     *)
(* question budget.                                                        *)
LLMDecisions ==
  {Closing} \cup {d \in LLMQuestions \cup LLMToolRequests : asked < MaxQuestions}
-----------------------------------------------------------------------------
(***************************************************************************)
(* The service operations.                                                 *)
(***************************************************************************)

Init ==
  /\ status = "created"
  /\ paused = FALSE
  /\ asked = 0
  /\ anchors = {}
  /\ covered = {}
  /\ followups = [c \in Competencies |-> 0]
  /\ question = <<>>
  /\ tools = <<>>
  /\ replay = Replayed("created", FALSE, {}, {}, {}, {})

(* start: an anchor if one is due, else the brain's opening.  A closing    *)
(* decision does not complete the session here.                            *)
Start ==
  /\ status = "created"
  /\ \E d \in IF AnchorDue THEN {AnchorDecision}
              ELSE UNION {IF b = "rules" THEN RuleOpening ELSE LLMOpening : b \in Brains} :
       ApplyDecision(d)
  /\ status' = "running"
  /\ replay' = ReplayEvent(replay, "interview_started", {})
  /\ UNCHANGED <<paused, covered, followups, tools>>

(* Mutant: only a closing turn gives way to an anchor.                     *)
AnchorsAtClose(adaptive) ==
  IF adaptive.completes /\ AnchorDue THEN AnchorDecision ELSE adaptive

(* A follow-up stands; anything else gives way to an anchor that is due.   *)
PlannedTurn(adaptive) ==
  IF adaptive.parent \/ ~AnchorDue THEN adaptive ELSE AnchorDecision

(* Mutant: the interview stays open while a practical tool is open.        *)
WaitForTools(d) ==
  IF d.completes /\ \A i \in 1..Len(tools) : tools[i].status # "open"
  THEN "completed" ELSE status

StatusAfter(d) == IF d.completes THEN "completed" ELSE status

Answered(adaptive) ==
  LET d == PlannedTurn(adaptive)
  IN  /\ ApplyDecision(d)
      /\ CountFollowup(d)
      /\ OpenRequestedTool(tools, d)
      /\ status' = StatusAfter(d)
      /\ replay' = ReplayDecision(replay, d, Len(tools) + 1)

(* answer, with the rule-based brain deciding (a session that was only     *)
(* created is started first, which is the step Start).                     *)
AnswerWithRules(short) ==
  /\ "rules" \in Brains
  /\ status = "running"
  /\ ~paused
  /\ covered' = RuleCovered(short)
  /\ Answered(RuleAfterAnswer(short))
  /\ UNCHANGED paused

AnswerWithLLM ==
  /\ "llm" \in Brains
  /\ status = "running"
  /\ ~paused
  /\ \E d \in LLMDecisions : Answered(d)
  /\ UNCHANGED <<paused, covered>>

(* candidate_control: thinking_time and resume; repeat, clarify and        *)
(* candidate_question only add control turns, which no decision reads.     *)
Control(kind) ==
  /\ status \notin Terminal
  /\ kind \in {"thinking_time", "resume"}
  /\ paused' = (kind = "thinking_time")
  /\ replay' = ReplayEvent(replay, kind, {})
  /\ UNCHANGED <<status, asked, anchors, covered, followups, question, tools>>

(* open_tool and open_coding_challenge: a client opens a tool of its own,  *)
(* in the status it sends and possibly naming a template; neither looks at *)
(* max_tools.                                                              *)
OpenTool(tags, t, st) ==
  /\ status \notin Terminal
  /\ Len(tools) < ToolBound
  /\ tools' = Append(tools, Tool(st, t, tags, FALSE))
  /\ replay' = ReplayEvent(replay, "tool_opened", {Len(tools) + 1})
  /\ UNCHANGED <<status, paused, asked, anchors, covered, followups, question>>

(* submit_tool: the artifact is evaluated and the brain decides at once,   *)
(* without the planner.  Paused and not yet started sessions accept it.    *)
Submitted(i, d) ==
  LET r == ReplayEvent(ReplayEvent(replay, "tool_submitted", {i}), "tool_evaluated", {i})
  IN  /\ ApplyDecision(d)
      /\ OpenRequestedTool([tools EXCEPT ![i] =
                              Tool("evaluated", tools[i].template, tools[i].tags, tools[i].agent)], d)
      /\ CountFollowup(d)
      /\ status' = StatusAfter(d)
      /\ replay' = ReplayDecision(r, d, Len(tools) + 1)

SubmitTool(i) ==
  /\ status \notin Terminal
  /\ i \in 1..Len(tools)
  /\ tools[i].status = "open"
  /\ \/ "rules" \in Brains /\ Submitted(i, RuleAfterTool(tools[i].tags))
     \/ "llm" \in Brains /\ \E d \in LLMDecisions : Submitted(i, d)
  /\ UNCHANGED <<paused, covered>>

(* cancel_session; cancelling a cancelled session returns it unchanged.    *)
CancelSession ==
  /\ status \notin Terminal
  /\ LET live == {i \in 1..Len(tools) : tools[i].status \in {"open", "submitted"}}
     IN  /\ tools' = [i \in 1..Len(tools) |->
                        IF i \in live
                        THEN Tool("cancelled", tools[i].template, tools[i].tags, tools[i].agent)
                        ELSE tools[i]]
         /\ replay' = ReplayEvent(ReplayEvent(replay, "tool_cancelled", live),
                                  "session_cancelled", {})
  /\ paused' = FALSE
  /\ status' = "cancelled"
  /\ UNCHANGED <<asked, anchors, covered, followups, question>>

Answer == AnswerWithLLM \/ \E short \in BOOLEAN : AnswerWithRules(short)

Next ==
  \/ Start
  \/ Answer
  \/ \E kind \in {"thinking_time", "resume"} : Control(kind)
  \/ \E l \in TagLists, t \in Templates \cup {NoTemplate}, st \in ClientStatuses :
       OpenTool(l, t, st)
  \/ \E i \in 1..ToolBound : SubmitTool(i)
  \/ CancelSession

Spec == Init /\ [][Next]_vars

(* A candidate who stays: a paused interview is eventually resumed, and a  *)
(* candidate who is again and again asked a question eventually answers.   *)
(* Nothing in the service guarantees it; it is what the liveness property  *)
(* is relative to.                                                         *)
CandidateStays == WF_vars(Control("resume")) /\ SF_vars(Answer)

FairSpec == Spec /\ CandidateStays
-----------------------------------------------------------------------------
(***************************************************************************)
(* Properties.                                                             *)
(***************************************************************************)

Statuses == {"created", "running"} \cup Terminal

ToolInvocation ==
  [status : ToolStatuses, template : Templates \cup {NoTemplate},
   tags : Seq(Competencies), agent : BOOLEAN]

ReplayState ==
  [status : Statuses, paused : BOOLEAN, opened : SUBSET Nat, submitted : SUBSET Nat,
   evaluated : SUBSET Nat, cancelled : SUBSET Nat]

TypeOK ==
  /\ status \in Statuses
  /\ paused \in BOOLEAN
  /\ asked \in Nat
  /\ anchors \in SUBSET Competencies
  /\ covered \in SUBSET Competencies
  /\ followups \in [Competencies -> Nat]
  /\ question \in Seq(Competencies)
  /\ tools \in Seq(ToolInvocation)
  /\ replay \in ReplayState

(* The interview cannot run away: beyond max_questions there is at most    *)
(* one question per anchored competency (the planner overrules a closing   *)
(* turn) and one per submitted tool (after_tool probes whatever the        *)
(* budget, even before the session is started).                            *)
QuestionsBounded ==
  asked <= MaxQuestions + Cardinality(anchors) + Cardinality(replay.evaluated)

(* A replay r tells of a session with status st and tools ts that its      *)
(* status is st, and what became of each tool: one it reports as evaluated *)
(* or cancelled is so in the session, and for the tools the interviewer    *)
(* itself opened the reports are complete.                                 *)
Tells(r, st, ts) ==
  /\ r.status = st
  /\ r.opened = 1..Len(ts)
  /\ r.submitted = r.evaluated
  /\ r.evaluated \cup r.cancelled \subseteq 1..Len(ts)
  /\ \A i \in 1..Len(ts) :
       /\ i \in r.evaluated => ts[i].status = "evaluated"
       /\ i \in r.cancelled => ts[i].status = "cancelled"
       /\ ts[i].agent /\ ts[i].status = "evaluated" => i \in r.evaluated
       /\ ts[i].agent /\ ts[i].status = "cancelled" => i \in r.cancelled
       /\ st = "cancelled" => ts[i].status \in {"evaluated", "cancelled"}

(* replay_events, which sees only the event log, reconstructs the status   *)
(* of the session and the fate of its tools, in every order of operations; *)
(* and a cancelled session has no tool left that could be submitted.       *)
ReplayAgrees == Tells(replay, status, tools)

(* The i-th tool, if the interviewer opened it, is within max_tools, of a  *)
(* listed template with competencies that template allows, and of no       *)
(* template that an earlier tool of the session used.                      *)
Permitted(ts, i) ==
  ts[i].agent =>
    /\ i <= MaxTools
    /\ ts[i].template \in Templates
    /\ Policy[ts[i].template] # {} => Range1(ts[i].tags) \subseteq Policy[ts[i].template]
    /\ \A j \in 1..(i - 1) : ts[j].template # ts[i].template

(* The tools the interviewer opens stay within the job's policy however    *)
(* many tools clients add in between, and whatever the model asks for.     *)
AgentToolsWithinPolicy == \A i \in 1..Len(tools) : Permitted(tools, i)

(* INTERVIEW_PROTOCOL.md: "it schedules an anchor whenever the             *)
(* standardized share has fallen below the configured target".  What that  *)
(* keeps at every moment, whatever the model says: until the anchors are   *)
(* used up, their share falls short of anchor_ratio by no more than the    *)
(* last question, the follow-ups, which the planner lets stand, and the    *)
(* probes of tools, which never reach it.                                  *)
AnchorShareKept ==
  \/ Cardinality(anchors) >= AnchorBudget
  \/ LET unplanned == SumFunction(followups) + Cardinality(replay.evaluated)
     IN  Cardinality(anchors) * RatioDen >= RatioNum * (asked - unplanned - 1)

(* An interview that runs ends, if the candidate stays: neither follow-ups,*)
(* anchors that overrule a closing turn, tools nor pauses keep it open.    *)
InterviewEnds == status = "running" ~> status \in Terminal
=============================================================================
