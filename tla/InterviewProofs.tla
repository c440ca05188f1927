-------------------------- MODULE InterviewProofs --------------------------
(***************************************************************************)
(* The interview session is safe for every job (any competencies, anchors, *)
(* budgets, ratio and tool policy), whatever the model answers; and the    *)
(* circuit breaker through which the model is called (Resilience) counts   *)
(* right, whatever order the calls of all sessions end in.                 *)
(***************************************************************************)
EXTENDS Interview, Resilience, FiniteSetTheorems, WellFoundedInduction, TLAPS

(* Sets of numbers that are not empty have a first element, so taking the  *)
(* first competency or template in rubric order is well defined.           *)
LEMMA FirstInSet ==
  ASSUME NEW S \in SUBSET Nat, S # {}
  PROVE  First(S) \in S
<1> DEFINE R == OpToRel(<, Nat)
<1>1. \A x, y \in Nat : y < x => <<y, x>> \in R
  BY DEF OpToRel
<1>2. IsWellFoundedOn(R, Nat)
  BY NatLessThanWellFounded
<1>3. \E x \in S : \A y \in S : ~ (<<y, x>> \in R)
  <2> HIDE DEF R
  <2> QED BY <1>2, WFMin
<1>4. \E x \in S : \A y \in S : x <= y
  <2> HIDE DEF R
  <2>1. PICK x \in S : \A y \in S : ~ (<<y, x>> \in R)
    BY <1>3
  <2>2. \A y \in S : ~(y < x)
    BY <1>1, <2>1
  <2>3. \A y \in S : x <= y
    BY <2>2
  <2> QED BY <2>3
<1>5. QED
  BY <1>4, Zenon DEF First

(***************************************************************************)
(* Decisions.                                                              *)
(***************************************************************************)
AgentDecision ==
  [tags : Seq(Competencies), parent : BOOLEAN, completes : BOOLEAN,
   template : Templates \cup {NoTemplate}, anchor : BOOLEAN]

LEMMA DecisionType ==
  ASSUME NEW l \in Seq(Competencies), NEW p \in BOOLEAN, NEW c \in BOOLEAN,
         NEW t \in Templates \cup {NoTemplate}, NEW a \in BOOLEAN
  PROVE  Decision(l, p, c, t, a) \in AgentDecision
  BY DEF Decision, AgentDecision

LEMMA ClosingType == Closing \in AgentDecision /\ Closing.completes
  BY DEF Closing, Decision, AgentDecision

(* The anchor the planner schedules is one that was not asked before.      *)
LEMMA AnchorType ==
  ASSUME TypeOK, AnchorDue
  PROVE  /\ AnchorDecision \in AgentDecision
         /\ ~AnchorDecision.completes /\ AnchorDecision.anchor
         /\ Range1(AnchorDecision.tags) = {First(Unasked)}
         /\ First(Unasked) \in Competencies \ anchors
<1>0. Unasked # {}
  BY DEF AnchorDue
<1>1. Unasked \in SUBSET Nat /\ Unasked # {} /\ Unasked \subseteq Competencies \ anchors
  <2>1. N \in Nat /\ Anchored \subseteq 1..N
    BY JobAssumption DEF Competencies
  <2>2. \A c \in Unasked : c \in Nat /\ c \in Competencies /\ c \notin anchors
    BY <2>1 DEF Unasked, Competencies
  <2> QED BY <1>0, <2>2
<1>2. First(Unasked) \in Competencies \ anchors
  BY <1>1, FirstInSet
<1> HIDE DEF First, Unasked
<1>3. <<First(Unasked)>> \in Seq(Competencies)
  BY <1>2
<1>4. AnchorDecision \in AgentDecision
  BY <1>3, DecisionType DEF AnchorDecision
<1>5. Range1(<<First(Unasked)>>) = {First(Unasked)}
  BY DEF Range1
<1>6. QED
  BY <1>2, <1>4, <1>5 DEF AnchorDecision, Decision

(* The competency a question is about is one of the job's.                 *)
LEMMA ActiveType ==
  ASSUME TypeOK
  PROVE  Active \in Competencies
  BY JobAssumption DEF TypeOK, Active, Competencies

(* What the rule-based brain decides is well formed and within budget.     *)
LEMMA RuleDecisions ==
  ASSUME TypeOK, NEW short \in BOOLEAN
  PROVE  /\ RuleAfterAnswer(short) \in AgentDecision
         /\ RuleAfterAnswer(short).completes \/ asked < MaxQuestions
         /\ RuleCovered(short) \in SUBSET Competencies
<1>0. asked \in Nat /\ MaxQuestions \in Nat
  BY JobAssumption DEF TypeOK
<1>1. Active \in Competencies /\ <<Active>> \in Seq(Competencies)
  BY ActiveType
<1>2. RuleCovered(short) \in SUBSET Competencies
  BY <1>1 DEF RuleCovered, TypeOK
<1>3. CASE asked >= MaxQuestions
  BY <1>2, <1>3, ClosingType DEF RuleAfterAnswer
<1>4. CASE ~(asked >= MaxQuestions) /\ RuleFollowsUp(short)
  <2>1. RuleAfterAnswer(short) = Decision(<<Active>>, TRUE, FALSE, NoTemplate, FALSE)
    BY <1>4 DEF RuleAfterAnswer
  <2>2. Decision(<<Active>>, TRUE, FALSE, NoTemplate, FALSE) \in AgentDecision
    BY <1>1, DecisionType
  <2>3. asked < MaxQuestions
    BY <1>0, <1>4
  <2> QED BY <1>2, <2>1, <2>2, <2>3, Zenon
<1>5. CASE ~(asked >= MaxQuestions) /\ ~RuleFollowsUp(short)
           /\ Len(tools) < MaxTools /\ Offered # {}
  <2>1. RuleAfterAnswer(short) = Decision(<<Active>>, TRUE, FALSE, First(Offered), FALSE)
    BY <1>5 DEF RuleAfterAnswer
  <2>2. First(Offered) \in Templates
    <3>1. Offered \in SUBSET Nat /\ Offered \subseteq Templates
      BY JobAssumption DEF Offered
    <3> QED BY <1>5, <3>1, FirstInSet
  <2>3. Decision(<<Active>>, TRUE, FALSE, First(Offered), FALSE) \in AgentDecision
    BY <1>1, <2>2, DecisionType
  <2>4. asked < MaxQuestions
    BY <1>0, <1>5
  <2> QED BY <1>2, <2>1, <2>3, <2>4, Zenon
<1>6. CASE ~(asked >= MaxQuestions) /\ ~RuleFollowsUp(short)
           /\ ~(Len(tools) < MaxTools /\ Offered # {})
           /\ Competencies \subseteq RuleCovered(short)
  <2>1. RuleAfterAnswer(short) = Closing
    BY <1>6 DEF RuleAfterAnswer
  <2> QED BY <1>2, <2>1, ClosingType
<1>7. CASE ~(asked >= MaxQuestions) /\ ~RuleFollowsUp(short)
           /\ ~(Len(tools) < MaxTools /\ Offered # {})
           /\ ~(Competencies \subseteq RuleCovered(short))
  <2> DEFINE c == First(Competencies \ RuleCovered(short))
  <2>1. RuleAfterAnswer(short) = Decision(<<c>>, FALSE, FALSE, NoTemplate, FALSE)
    BY <1>7 DEF RuleAfterAnswer
  <2>2. c \in Competencies
    <3>1. Competencies \ RuleCovered(short) \in SUBSET Nat
      BY DEF Competencies
    <3> QED BY <1>7, <3>1, FirstInSet
  <2> HIDE DEF c
  <2>3. <<c>> \in Seq(Competencies)
    BY <2>2
  <2>4. Decision(<<c>>, FALSE, FALSE, NoTemplate, FALSE) \in AgentDecision
    BY <2>3, DecisionType
  <2>5. asked < MaxQuestions
    BY <1>0, <1>7
  <2> QED BY <1>2, <2>1, <2>4, <2>5, Zenon
<1>8. QED
  BY <1>3, <1>4, <1>5, <1>6, <1>7

LEMMA RuleToolDecision ==
  ASSUME NEW tags \in Seq(Competencies)
  PROVE  RuleAfterTool(tags) \in AgentDecision
<1>1. <<1>> \in Seq(Competencies)
  BY JobAssumption DEF Competencies
<1>2. QED
  BY <1>1, DecisionType DEF RuleAfterTool

(* What the LLM brain lets through is well formed and within budget.       *)
LEMMA LLMDecisionsWithinBudget ==
  ASSUME TypeOK, NEW d \in LLMDecisions
  PROVE  d \in AgentDecision /\ (d.completes \/ asked < MaxQuestions)
<1>1. CASE d = Closing
  BY <1>1, ClosingType
<1>2. CASE d # Closing
  <2>1. asked < MaxQuestions /\ d \in LLMQuestions \cup LLMToolRequests
    BY <1>2 DEF LLMDecisions
  <2>2. Named \subseteq Seq(Competencies)
    BY JobAssumption DEF Named
  <2>3. d \in AgentDecision
    BY <2>1, <2>2 DEF LLMQuestions, LLMToolRequests, AgentDecision
  <2> QED BY <2>1, <2>3
<1>3. QED
  BY <1>1, <1>2

LEMMA OpeningDecisions ==
  ASSUME TypeOK, NEW d \in RuleOpening \cup LLMOpening
  PROVE  d \in AgentDecision
<1>1. <<1>> \in Seq(Competencies)
  BY JobAssumption DEF Competencies
<1>2. CASE d \in RuleOpening
  BY <1>1, <1>2, DecisionType DEF RuleOpening
<1>3. CASE d \in LLMOpening
  <2>1. CASE d = Closing
    BY <2>1, ClosingType
  <2>2. CASE d # Closing
    <3>1. TagLists \subseteq Seq(Competencies)
      BY JobAssumption
    <3> QED BY <1>3, <2>2, <3>1 DEF LLMOpening, AgentDecision
  <2> QED BY <2>1, <2>2
<1>4. QED
  BY <1>2, <1>3
-----------------------------------------------------------------------------
(***************************************************************************)
(* Types.                                                                  *)
(***************************************************************************)

(* What a decision does to the counters, the latest question and the tools.*)
LEMMA ApplyTypes ==
  ASSUME TypeOK, NEW d \in AgentDecision, ApplyDecision(d)
  PROVE  /\ asked' \in Nat /\ asked <= asked' /\ asked' <= asked + 1
         /\ d.completes => asked' = asked
         /\ anchors' \in SUBSET Competencies /\ anchors \subseteq anchors'
         /\ question' \in Seq(Competencies)
<1>1. d.tags \in Seq(Competencies) /\ Range1(d.tags) \subseteq Competencies
  BY DEF AgentDecision, Range1
<1>2. QED
  BY <1>1 DEF TypeOK, ApplyDecision

LEMMA FollowupTypes ==
  ASSUME TypeOK, NEW d \in AgentDecision, CountFollowup(d)
  PROVE  followups' \in [Competencies -> Nat]
<1>1. CASE d.parent /\ d.tags # <<>>
  <2>1. Head(d.tags) \in Competencies
    BY <1>1 DEF AgentDecision
  <2> QED BY <1>1, <2>1 DEF TypeOK, CountFollowup
<1>2. CASE ~(d.parent /\ d.tags # <<>>)
  BY <1>2 DEF TypeOK, CountFollowup
<1>3. QED
  BY <1>1, <1>2

LEMMA ToolType ==
  ASSUME NEW st \in ToolStatuses, NEW t \in Templates \cup {NoTemplate},
         NEW l \in Seq(Competencies), NEW a \in BOOLEAN
  PROVE  Tool(st, t, l, a) \in ToolInvocation
  BY DEF Tool, ToolInvocation

LEMMA ToolsAfterDecision ==
  ASSUME NEW sofar \in Seq(ToolInvocation), Len(sofar) = Len(tools),
         NEW d \in AgentDecision, OpenRequestedTool(sofar, d)
  PROVE  /\ tools' \in Seq(ToolInvocation)
         /\ d.template = NoTemplate => tools' = sofar
         /\ d.template # NoTemplate =>
              /\ Len(tools') = Len(tools) + 1
              /\ \A j \in 1..Len(tools) : tools'[j] = sofar[j]
              /\ tools'[Len(tools) + 1] = Tool("open", d.template, d.tags, TRUE)
              /\ MayRequest(d.template, d.tags)
<1>1. CASE d.template = NoTemplate
  BY <1>1 DEF OpenRequestedTool
<1>2. CASE d.template # NoTemplate
  <2> DEFINE new == Tool("open", d.template, d.tags, TRUE)
  <2>1. new \in ToolInvocation
    BY ToolType DEF AgentDecision, ToolStatuses
  <2>2. tools' = Append(sofar, new) /\ MayRequest(d.template, d.tags)
    BY <1>2 DEF OpenRequestedTool
  <2> HIDE DEF new
  <2>3. /\ tools' \in Seq(ToolInvocation) /\ Len(tools') = Len(sofar) + 1
        /\ \A j \in 1..Len(sofar) : tools'[j] = sofar[j]
        /\ tools'[Len(sofar) + 1] = new
    BY <2>1, <2>2
  <2>4. new = Tool("open", d.template, d.tags, TRUE)
    BY DEF new
  <2> QED BY <1>2, <2>2, <2>3, <2>4
<1>3. QED
  BY <1>1, <1>2

LEMMA ReplayTypes ==
  ASSUME NEW r \in ReplayState, NEW type, NEW ts \in SUBSET Nat
  PROVE  ReplayEvent(r, type, ts) \in ReplayState
  BY DEF ReplayEvent, Replayed, ReplayState, Statuses, Terminal

LEMMA ReplayDecisionTypes ==
  ASSUME NEW r \in ReplayState, NEW d \in AgentDecision, NEW n \in Nat
  PROVE  ReplayDecision(r, d, n) \in ReplayState
<1>1. {n} \in SUBSET Nat /\ {} \in SUBSET Nat
  OBVIOUS
<1>2. ReplayEvent(r, "tool_opened", {n}) \in ReplayState
  BY <1>1, ReplayTypes
<1>3. \A q \in ReplayState : ReplayEvent(q, "session_completed", {}) \in ReplayState
  BY <1>1, ReplayTypes
<1>4. QED
  BY <1>2, <1>3 DEF ReplayDecision
-----------------------------------------------------------------------------
(***************************************************************************)
(* The inductive invariant.                                                *)
(***************************************************************************)

(* Before the session is started, only submitted tools lead to questions.  *)
(* QuestionsBounded is not inductive without it: start does not look at    *)
(* the budget.                                                             *)
EarlyQuestions == status = "created" => asked <= Cardinality(replay.evaluated)

InterviewInv ==
  /\ TypeOK
  /\ ReplayAgrees
  /\ AgentToolsWithinPolicy
  /\ QuestionsBounded
  /\ EarlyQuestions

LEMMA IntervalGrows ==
  ASSUME NEW n \in Nat
  PROVE  /\ 1..(n + 1) = 1..n \cup {n + 1}
         /\ n + 1 \notin 1..n
  OBVIOUS

(* What a decision adds to the replay.                                     *)
LEMMA ReplayDecisionFields ==
  ASSUME NEW r \in ReplayState, NEW d \in AgentDecision, NEW n \in Nat,
         NEW q \in ReplayState, q = ReplayDecision(r, d, n)
  PROVE  /\ d.completes => q.status = "completed"
         /\ ~d.completes => q.status = r.status
         /\ d.template # NoTemplate => q.opened = r.opened \cup {n}
         /\ d.template = NoTemplate => q.opened = r.opened
         /\ q.submitted = r.submitted
         /\ q.evaluated = r.evaluated
         /\ q.cancelled = r.cancelled
  BY DEF ReplayDecision, ReplayEvent, Replayed, ReplayState, AgentDecision

(* The tools a decision leaves are told by the replay it leaves.           *)
LEMMA DecisionTold ==
  ASSUME TypeOK, status \notin Terminal,
         NEW sofar \in Seq(ToolInvocation), Len(sofar) = Len(tools),
         NEW r \in ReplayState, Tells(r, status, sofar),
         NEW d \in AgentDecision, OpenRequestedTool(sofar, d),
         status' = StatusAfter(d),
         replay' = ReplayDecision(r, d, Len(tools) + 1)
  PROVE  ReplayAgrees'
<1>1. d.completes \in BOOLEAN /\ Len(tools) \in Nat
  BY DEF AgentDecision, TypeOK
<1>2. /\ d.completes => replay'.status = "completed"
      /\ ~d.completes => replay'.status = r.status
      /\ d.template # NoTemplate => replay'.opened = r.opened \cup {Len(tools) + 1}
      /\ d.template = NoTemplate => replay'.opened = r.opened
      /\ replay'.submitted = r.submitted
      /\ replay'.evaluated = r.evaluated
      /\ replay'.cancelled = r.cancelled
  <2>1. Len(tools) + 1 \in Nat
    BY <1>1
  <2>2. replay' \in ReplayState
    BY <2>1, ReplayDecisionTypes
  <2> QED BY <2>1, <2>2, ReplayDecisionFields
<1>3. replay'.status = status' /\ status' # "cancelled"
  BY <1>2 DEF StatusAfter, Tells, Terminal
<1>4. CASE d.template = NoTemplate
  <2>1. tools' = sofar
    BY <1>4, ToolsAfterDecision
  <2> QED BY <1>2, <1>3, <1>4, <2>1 DEF ReplayAgrees, Tells
<1>5. CASE d.template # NoTemplate
  <2>1. /\ Len(tools') = Len(tools) + 1
        /\ \A j \in 1..Len(tools) : tools'[j] = sofar[j]
        /\ tools'[Len(tools) + 1].status = "open"
    <3>1. /\ Len(tools') = Len(tools) + 1
          /\ \A j \in 1..Len(tools) : tools'[j] = sofar[j]
          /\ tools'[Len(tools) + 1] = Tool("open", d.template, d.tags, TRUE)
      BY <1>5, ToolsAfterDecision
    <3>2. Tool("open", d.template, d.tags, TRUE).status = "open"
      BY DEF Tool
    <3> QED BY <3>1, <3>2
  <2>2. replay'.opened = 1..Len(tools')
    BY <1>1, <1>2, <1>5, <2>1, IntervalGrows, Zenon DEF Tells
  <2>3. /\ 1..Len(tools') = 1..Len(tools) \cup {Len(tools) + 1}
        /\ Len(tools) + 1 \notin 1..Len(tools)
    BY <1>1, <2>1, IntervalGrows, Zenon
  <2> QED BY <1>2, <1>3, <2>1, <2>2, <2>3 DEF ReplayAgrees, Tells
<1>6. QED
  BY <1>4, <1>5

(* Tools that keep their template, tags and opener stay permitted, and the *)
(* one a decision adds is permitted because MayRequest was checked.        *)
LEMMA DecisionPermitted ==
  ASSUME TypeOK, AgentToolsWithinPolicy,
         NEW sofar \in Seq(ToolInvocation), Len(sofar) = Len(tools),
         \A j \in 1..Len(tools) : /\ sofar[j].agent = tools[j].agent
                                  /\ sofar[j].template = tools[j].template
                                  /\ sofar[j].tags = tools[j].tags,
         NEW d \in AgentDecision, OpenRequestedTool(sofar, d)
  PROVE  AgentToolsWithinPolicy'
<1>1. Len(tools) \in Nat
  BY DEF TypeOK
<1>2. /\ Len(tools') = Len(tools) \/ Len(tools') = Len(tools) + 1
      /\ \A j \in 1..Len(tools) : tools'[j] = sofar[j]
  BY ToolsAfterDecision
<1>3. \A j \in 1..Len(tools) : /\ tools'[j].agent = tools[j].agent
                               /\ tools'[j].template = tools[j].template
                               /\ tools'[j].tags = tools[j].tags
  BY <1>2
<1>4. ASSUME NEW i \in 1..Len(tools) PROVE Permitted(tools', i)
  <2>1. Permitted(tools, i) /\ i \in Nat /\ 1..(i - 1) \subseteq 1..Len(tools)
    BY <1>1, <1>4 DEF AgentToolsWithinPolicy
  <2> QED BY <1>3, <1>4, <2>1 DEF Permitted
<1>5. ASSUME NEW i \in 1..Len(tools'), i \notin 1..Len(tools) PROVE Permitted(tools', i)
  <2>1. i = Len(tools) + 1 /\ Len(tools') = Len(tools) + 1
    <3>1. Len(tools') # Len(tools)
      BY <1>5, Zenon
    <3>2. Len(tools') = Len(tools) + 1
      BY <1>2, <3>1
    <3>3. 1..Len(tools') = 1..Len(tools) \cup {Len(tools) + 1}
      BY <1>1, <3>2, IntervalGrows, Zenon
    <3> QED BY <1>5, <3>2, <3>3, Zenon
  <2>2. d.template # NoTemplate
    <3>1. Len(tools') # Len(tools)
      BY <1>1, <2>1
    <3> QED BY <3>1, ToolsAfterDecision
  <2>3. /\ tools'[i].template = d.template /\ tools'[i].tags = d.tags
        /\ MayRequest(d.template, d.tags)
    <3>1. /\ tools'[i] = Tool("open", d.template, d.tags, TRUE)
          /\ MayRequest(d.template, d.tags)
      BY <2>1, <2>2, ToolsAfterDecision
    <3> QED BY <3>1 DEF Tool
  <2>4. \A j \in 1..Len(tools) : tools[j].template # d.template
    BY <2>2, <2>3 DEF MayRequest, UsedTemplates
  <2>5. i - 1 = Len(tools) /\ i <= MaxTools
    BY <1>1, <2>1, <2>3, JobAssumption DEF MayRequest
  <2> QED BY <1>3, <2>3, <2>4, <2>5 DEF Permitted, MayRequest
<1>6. QED
  BY <1>4, <1>5 DEF AgentToolsWithinPolicy

(***************************************************************************)
(* Counting.                                                               *)
(***************************************************************************)
LEMMA CountGrows ==
  ASSUME NEW S, NEW T, IsFiniteSet(T), S \subseteq T
  PROVE  Cardinality(S) \in Nat /\ Cardinality(T) \in Nat /\ Cardinality(S) <= Cardinality(T)
  BY FS_Subset, FS_CardinalityType

LEMMA CountOneMore ==
  ASSUME NEW S, IsFiniteSet(S), NEW x, x \notin S
  PROVE  Cardinality(S) \in Nat /\ Cardinality(S \cup {x}) = Cardinality(S) + 1
  BY FS_AddElement, FS_CardinalityType

(* Anchors and evaluated tools are finitely many.                          *)
LEMMA FiniteCounts ==
  ASSUME TypeOK, ReplayAgrees
  PROVE  IsFiniteSet(anchors) /\ IsFiniteSet(replay.evaluated)
<1>1. IsFiniteSet(Competencies)
  BY FS_Interval, JobAssumption DEF Competencies
<1>2. IsFiniteSet(1..Len(tools))
  BY FS_Interval DEF TypeOK
<1>3. anchors \subseteq Competencies /\ replay.evaluated \subseteq 1..Len(tools)
  BY DEF TypeOK, ReplayAgrees, Tells
<1>4. QED
  BY <1>1, <1>2, <1>3, FS_Subset

(* A step that asks nothing keeps the bounds.                              *)
LEMMA NothingAsked ==
  ASSUME InterviewInv, UNCHANGED <<asked, anchors>>,
         replay'.evaluated = replay.evaluated, status' = "created" => status = "created"
  PROVE  QuestionsBounded' /\ EarlyQuestions'
  BY DEF InterviewInv, QuestionsBounded, EarlyQuestions

(* So does a question within the budget, a new anchor, or a closing turn.  *)
LEMMA AskedWithinBounds ==
  ASSUME InterviewInv, TypeOK', ReplayAgrees', anchors \subseteq anchors',
         replay.evaluated \subseteq replay'.evaluated, asked' <= asked + 1,
         \/ asked' = asked
         \/ asked < MaxQuestions
         \/ \E c \in Competencies \ anchors : anchors' = anchors \cup {c}
         \/ \E i \in Nat \ replay.evaluated : replay'.evaluated = replay.evaluated \cup {i}
  PROVE  QuestionsBounded'
<1> DEFINE a == Cardinality(anchors)
           b == Cardinality(anchors')
           e == Cardinality(replay.evaluated)
           f == Cardinality(replay'.evaluated)
<1>1. /\ IsFiniteSet(anchors) /\ IsFiniteSet(replay.evaluated)
      /\ IsFiniteSet(anchors') /\ IsFiniteSet(replay'.evaluated)
  <2>1. IsFiniteSet(anchors) /\ IsFiniteSet(replay.evaluated)
    BY FiniteCounts DEF InterviewInv
  <2>2. anchors' \subseteq Competencies /\ replay'.evaluated \subseteq 1..Len(tools')
    BY DEF TypeOK, ReplayAgrees, Tells
  <2>3. IsFiniteSet(Competencies)
    BY FS_Interval, JobAssumption DEF Competencies
  <2>4. IsFiniteSet(1..Len(tools'))
    BY FS_Interval DEF TypeOK
  <2> QED BY <2>1, <2>2, <2>3, <2>4, FS_Subset
<1>2. a \in Nat /\ b \in Nat /\ a <= b
  BY <1>1, CountGrows
<1>3. e \in Nat /\ f \in Nat /\ e <= f
  BY <1>1, CountGrows
<1>4. asked \in Nat /\ asked' \in Nat /\ MaxQuestions \in Nat /\ asked <= MaxQuestions + a + e
  BY JobAssumption DEF InterviewInv, TypeOK, QuestionsBounded
<1>5. ASSUME NEW c \in Competencies \ anchors, anchors' = anchors \cup {c} PROVE b = a + 1
  BY <1>1, <1>5, CountOneMore
<1>6. ASSUME NEW i \in Nat \ replay.evaluated, replay'.evaluated = replay.evaluated \cup {i}
      PROVE f = e + 1
  BY <1>1, <1>6, CountOneMore
<1>7. asked' = asked \/ asked < MaxQuestions \/ b = a + 1 \/ f = e + 1
  BY <1>5, <1>6
<1>8. asked' <= MaxQuestions + b + f
  <2> HIDE DEF a, b, e, f
  <2> QED BY <1>2, <1>3, <1>4, <1>7
<1>9. QED
  BY <1>8 DEF QuestionsBounded
-----------------------------------------------------------------------------
(***************************************************************************)
(* One lemma per operation.                                                *)
(***************************************************************************)
LEMMA InitInv == Init => InterviewInv
<1> SUFFICES ASSUME Init PROVE InterviewInv
  OBVIOUS
<1>1. replay = Replayed("created", FALSE, {}, {}, {}, {}) /\ tools = <<>> /\ asked = 0
  BY DEF Init
<1>2. TypeOK
  <2>1. followups \in [Competencies -> Nat] /\ question \in Seq(Competencies)
        /\ tools \in Seq(ToolInvocation)
    BY DEF Init
  <2>2. replay \in ReplayState
    BY <1>1 DEF Replayed, ReplayState, Statuses
  <2> QED BY <2>1, <2>2 DEF Init, TypeOK, Statuses
<1>3. ReplayAgrees
  BY <1>1 DEF Init, ReplayAgrees, Tells, Replayed
<1>4. AgentToolsWithinPolicy
  BY <1>1 DEF AgentToolsWithinPolicy
<1>5. Cardinality(replay.evaluated) = 0 /\ Cardinality(anchors) = 0
  BY <1>1, FS_EmptySet DEF Init, Replayed
<1>6. QuestionsBounded /\ EarlyQuestions
  <2>1. MaxQuestions \in Nat /\ asked = 0
    BY JobAssumption DEF Init
  <2>2. asked <= MaxQuestions + 0 + 0 /\ asked <= 0
    BY <2>1
  <2> QED BY <1>5, <2>2 DEF QuestionsBounded, EarlyQuestions
<1>7. QED
  BY <1>2, <1>3, <1>4, <1>6 DEF InterviewInv

LEMMA StartKeeps ==
  ASSUME InterviewInv, Start
  PROVE  InterviewInv'
<1>1. PICK d \in IF AnchorDue THEN {AnchorDecision}
                 ELSE UNION {IF b = "rules" THEN RuleOpening ELSE LLMOpening : b \in Brains} :
        ApplyDecision(d)
  BY DEF Start
<1>2. d \in AgentDecision
  <2>1. CASE AnchorDue
    BY <1>1, <2>1, AnchorType DEF InterviewInv
  <2>2. CASE ~AnchorDue
    <3>1. d \in RuleOpening \cup LLMOpening
      BY <1>1, <2>2
    <3> QED BY <3>1, OpeningDecisions DEF InterviewInv
  <2> QED BY <2>1, <2>2
<1>3. /\ status = "created" /\ status' = "running"
      /\ replay' = ReplayEvent(replay, "interview_started", {})
      /\ paused' = paused /\ covered' = covered /\ followups' = followups /\ tools' = tools
  BY DEF Start
<1>4. /\ asked' \in Nat /\ asked' <= asked + 1
      /\ anchors' \in SUBSET Competencies /\ anchors \subseteq anchors'
      /\ question' \in Seq(Competencies)
  BY <1>1, <1>2, ApplyTypes DEF InterviewInv
<1>5. replay' \in ReplayState
  BY <1>3, ReplayTypes DEF InterviewInv, TypeOK
<1>6. TypeOK'
  BY <1>3, <1>4, <1>5 DEF InterviewInv, TypeOK, Statuses
<1>7. /\ replay'.status = "running" /\ replay'.opened = replay.opened
      /\ replay'.submitted = replay.submitted /\ replay'.evaluated = replay.evaluated
      /\ replay'.cancelled = replay.cancelled
  BY <1>3 DEF InterviewInv, TypeOK, ReplayEvent, Replayed, ReplayState
<1>8. ReplayAgrees'
  BY <1>3, <1>7 DEF InterviewInv, ReplayAgrees, Tells
<1>9. AgentToolsWithinPolicy'
  BY <1>3 DEF InterviewInv, AgentToolsWithinPolicy, Permitted
<1>10. QuestionsBounded'
  <2> DEFINE a == Cardinality(anchors')
             e == Cardinality(replay.evaluated)
  <2>1. e \in Nat /\ asked <= e
    BY <1>3, FiniteCounts, FS_CardinalityType DEF InterviewInv, EarlyQuestions
  <2>2. a \in Nat
    <3>1. IsFiniteSet(Competencies)
      BY FS_Interval, JobAssumption DEF Competencies
    <3> QED BY <1>4, <3>1, CountGrows
  <2>3. MaxQuestions \in Nat /\ MaxQuestions >= 1 /\ asked \in Nat
    BY JobAssumption DEF InterviewInv, TypeOK
  <2>4. asked' <= MaxQuestions + a + e
    <3> HIDE DEF a, e
    <3> QED BY <1>4, <2>1, <2>2, <2>3
  <2> QED BY <1>7, <2>4 DEF QuestionsBounded
<1>11. EarlyQuestions'
  BY <1>3 DEF EarlyQuestions
<1>12. QED
  BY <1>6, <1>8, <1>9, <1>10, <1>11 DEF InterviewInv

LEMMA AnsweredKeeps ==
  ASSUME InterviewInv, status = "running",
         NEW adaptive \in AgentDecision, adaptive.completes \/ asked < MaxQuestions,
         Answered(adaptive), paused' \in BOOLEAN, covered' \in SUBSET Competencies
  PROVE  InterviewInv'
<1> DEFINE d == PlannedTurn(adaptive)
<1>1. d = adaptive \/ (d = AnchorDecision /\ AnchorDue)
  BY DEF PlannedTurn
<1>2. d \in AgentDecision
  BY <1>1, AnchorType DEF InterviewInv
<1>3. /\ ApplyDecision(d) /\ CountFollowup(d) /\ OpenRequestedTool(tools, d)
      /\ status' = StatusAfter(d)
      /\ replay' = ReplayDecision(replay, d, Len(tools) + 1)
  BY DEF Answered
<1>4. TypeOK /\ tools \in Seq(ToolInvocation) /\ replay \in ReplayState /\ Len(tools) + 1 \in Nat
  BY DEF InterviewInv, TypeOK
<1>5. d = AnchorDecision /\ AnchorDue =>
        \E c \in Competencies \ anchors : anchors' = anchors \cup {c}
  <2> SUFFICES ASSUME d = AnchorDecision, AnchorDue
               PROVE  anchors' = anchors \cup {First(Unasked)}
    BY <1>4, AnchorType
  <2>1. d.anchor /\ ~d.completes /\ Range1(d.tags) = {First(Unasked)}
    BY <1>4, AnchorType
  <2> QED BY <1>3, <2>1 DEF ApplyDecision
<1> HIDE DEF d
<1>6. /\ asked' \in Nat /\ asked' <= asked + 1 /\ (d.completes => asked' = asked)
      /\ anchors' \in SUBSET Competencies /\ anchors \subseteq anchors'
      /\ question' \in Seq(Competencies)
  BY <1>2, <1>3, <1>4, ApplyTypes
<1>7. followups' \in [Competencies -> Nat]
  BY <1>2, <1>3, <1>4, FollowupTypes
<1>8. tools' \in Seq(ToolInvocation)
  BY <1>2, <1>3, <1>4, ToolsAfterDecision
<1>9. replay' \in ReplayState
  BY <1>2, <1>3, <1>4, ReplayDecisionTypes
<1>10. status' \in {"running", "completed"}
  BY <1>3 DEF StatusAfter
<1>11. TypeOK'
  BY <1>6, <1>7, <1>8, <1>9, <1>10 DEF TypeOK, Statuses, Terminal
<1>12. ReplayAgrees'
  <2>1. Tells(replay, status, tools) /\ status \notin Terminal
    BY DEF InterviewInv, ReplayAgrees, Terminal
  <2> QED BY <1>2, <1>3, <1>4, <2>1, DecisionTold
<1>13. AgentToolsWithinPolicy'
  BY <1>2, <1>3, <1>4, DecisionPermitted DEF InterviewInv
<1>14. QuestionsBounded'
  <2>1. replay'.evaluated = replay.evaluated
    BY <1>2, <1>3, <1>4, <1>9, ReplayDecisionFields
  <2>2. \/ asked' = asked \/ asked < MaxQuestions
        \/ \E c \in Competencies \ anchors : anchors' = anchors \cup {c}
    BY <1>1, <1>5, <1>6
  <2> QED BY <1>6, <1>11, <1>12, <2>1, <2>2, AskedWithinBounds
<1>15. EarlyQuestions'
  BY <1>10 DEF EarlyQuestions
<1>16. QED
  BY <1>11, <1>12, <1>13, <1>14, <1>15 DEF InterviewInv

LEMMA AnswerKeeps ==
  ASSUME InterviewInv, Answer
  PROVE  InterviewInv'
<1>1. CASE AnswerWithLLM
  <2>1. PICK d \in LLMDecisions : Answered(d)
    BY <1>1 DEF AnswerWithLLM
  <2>2. d \in AgentDecision /\ (d.completes \/ asked < MaxQuestions)
    BY LLMDecisionsWithinBudget DEF InterviewInv
  <2>3. status = "running" /\ paused' \in BOOLEAN /\ covered' \in SUBSET Competencies
    BY <1>1 DEF AnswerWithLLM, InterviewInv, TypeOK
  <2> QED BY <2>1, <2>2, <2>3, AnsweredKeeps
<1>2. ASSUME NEW short \in BOOLEAN, AnswerWithRules(short) PROVE InterviewInv'
  <2> DEFINE d == RuleAfterAnswer(short)
  <2>1. /\ d \in AgentDecision /\ (d.completes \/ asked < MaxQuestions)
        /\ RuleCovered(short) \in SUBSET Competencies
    BY RuleDecisions DEF InterviewInv
  <2>2. /\ Answered(d) /\ status = "running" /\ paused' = paused
        /\ covered' = RuleCovered(short)
    BY <1>2 DEF AnswerWithRules
  <2>3. paused' \in BOOLEAN /\ covered' \in SUBSET Competencies
    BY <2>1, <2>2 DEF InterviewInv, TypeOK
  <2> HIDE DEF d
  <2> QED BY <2>1, <2>2, <2>3, AnsweredKeeps
<1>3. QED
  BY <1>1, <1>2 DEF Answer

LEMMA ControlKeeps ==
  ASSUME InterviewInv, NEW k \in {"thinking_time", "resume"}, Control(k)
  PROVE  InterviewInv'
<1>1. /\ replay' = ReplayEvent(replay, k, {})
      /\ paused' \in BOOLEAN
      /\ UNCHANGED <<status, asked, anchors, covered, followups, question, tools>>
  BY DEF Control
<1>2. replay' \in ReplayState
  BY <1>1, ReplayTypes DEF InterviewInv, TypeOK
<1>3. TypeOK'
  BY <1>1, <1>2 DEF InterviewInv, TypeOK
<1>4. /\ replay'.status = replay.status /\ replay'.opened = replay.opened
      /\ replay'.submitted = replay.submitted /\ replay'.evaluated = replay.evaluated
      /\ replay'.cancelled = replay.cancelled
  BY <1>1 DEF InterviewInv, TypeOK, ReplayEvent, Replayed, ReplayState
<1>5. ReplayAgrees'
  BY <1>1, <1>4 DEF InterviewInv, ReplayAgrees, Tells
<1>6. AgentToolsWithinPolicy'
  BY <1>1 DEF InterviewInv, AgentToolsWithinPolicy, Permitted
<1>7. QuestionsBounded' /\ EarlyQuestions'
  BY <1>1, <1>4, NothingAsked
<1>8. QED
  BY <1>3, <1>5, <1>6, <1>7 DEF InterviewInv

LEMMA OpenToolKeeps ==
  ASSUME InterviewInv, NEW l \in TagLists, NEW t \in Templates \cup {NoTemplate},
         NEW st \in ClientStatuses, OpenTool(l, t, st)
  PROVE  InterviewInv'
<1> DEFINE new == Tool(st, t, l, FALSE)
<1>1. /\ tools' = Append(tools, new)
      /\ replay' = ReplayEvent(replay, "tool_opened", {Len(tools) + 1})
      /\ UNCHANGED <<status, paused, asked, anchors, covered, followups, question>>
      /\ status \notin Terminal
  BY DEF OpenTool
<1>2. new \in ToolInvocation /\ ~new.agent
  <2>1. st \in ToolStatuses /\ l \in Seq(Competencies)
    BY JobAssumption
  <2>2. new \in ToolInvocation
    BY <2>1, ToolType
  <2> QED BY <2>2 DEF Tool
<1>3. tools \in Seq(ToolInvocation) /\ Len(tools) \in Nat /\ replay \in ReplayState
  BY DEF InterviewInv, TypeOK
<1> HIDE DEF new
<1>4. /\ tools' \in Seq(ToolInvocation) /\ Len(tools') = Len(tools) + 1
      /\ \A j \in 1..Len(tools) : tools'[j] = tools[j]
      /\ tools'[Len(tools) + 1] = new
  BY <1>1, <1>2, <1>3
<1>5. /\ 1..Len(tools') = 1..Len(tools) \cup {Len(tools) + 1}
      /\ Len(tools) + 1 \notin 1..Len(tools)
  BY <1>3, <1>4, IntervalGrows, Zenon
<1>6. replay' \in ReplayState
  <2>1. {Len(tools) + 1} \in SUBSET Nat
    BY <1>3
  <2> QED BY <1>1, <1>3, <2>1, ReplayTypes
<1>7. TypeOK'
  BY <1>1, <1>4, <1>6 DEF InterviewInv, TypeOK
<1>8. /\ replay'.status = replay.status
      /\ replay'.opened = replay.opened \cup {Len(tools) + 1}
      /\ replay'.submitted = replay.submitted /\ replay'.evaluated = replay.evaluated
      /\ replay'.cancelled = replay.cancelled
  BY <1>1, <1>3 DEF ReplayEvent, Replayed, ReplayState
<1>9. ReplayAgrees'
  <2>1. replay.opened = 1..Len(tools) /\ status # "cancelled"
    BY <1>1 DEF InterviewInv, ReplayAgrees, Tells, Terminal
  <2>2. replay'.opened = 1..Len(tools')
    BY <1>5, <1>8, <2>1
  <2>3. ~tools'[Len(tools) + 1].agent
    BY <1>2, <1>4
  <2>4. replay'.evaluated \cup replay'.cancelled \subseteq 1..Len(tools)
    BY <1>8 DEF InterviewInv, ReplayAgrees, Tells
  <2> QED BY <1>1, <1>4, <1>5, <1>8, <2>1, <2>2, <2>3, <2>4
         DEF InterviewInv, ReplayAgrees, Tells
<1>10. AgentToolsWithinPolicy'
  <2>1. ASSUME NEW i \in 1..Len(tools) PROVE Permitted(tools', i)
    <3>1. Permitted(tools, i) /\ 1..(i - 1) \subseteq 1..Len(tools)
      BY <1>3 DEF InterviewInv, AgentToolsWithinPolicy
    <3> QED BY <1>4, <3>1 DEF Permitted
  <2>2. Permitted(tools', Len(tools) + 1)
    BY <1>2, <1>4 DEF Permitted
  <2> QED BY <1>5, <2>1, <2>2 DEF AgentToolsWithinPolicy
<1>11. QuestionsBounded' /\ EarlyQuestions'
  BY <1>1, <1>8, NothingAsked
<1>12. QED
  BY <1>7, <1>9, <1>10, <1>11 DEF InterviewInv

(* Submitting a tool: its evaluation pays for the question that follows.   *)
LEMMA SubmittedKeeps ==
  ASSUME InterviewInv, status \notin Terminal,
         NEW i \in 1..Len(tools), tools[i].status = "open",
         NEW d \in AgentDecision, Submitted(i, d),
         paused' = paused, covered' = covered
  PROVE  InterviewInv'
<1> DEFINE done == Tool("evaluated", tools[i].template, tools[i].tags, tools[i].agent)
           sofar == [tools EXCEPT ![i] = done]
           r0 == ReplayEvent(replay, "tool_submitted", {i})
           r == ReplayEvent(r0, "tool_evaluated", {i})
<1>1. /\ TypeOK /\ tools \in Seq(ToolInvocation) /\ replay \in ReplayState
      /\ Len(tools) \in Nat /\ i \in Nat
  BY DEF InterviewInv, TypeOK
<1>2. /\ ApplyDecision(d) /\ CountFollowup(d) /\ OpenRequestedTool(sofar, d)
      /\ status' = StatusAfter(d)
      /\ replay' = ReplayDecision(r, d, Len(tools) + 1)
  BY DEF Submitted
<1>3. /\ done \in ToolInvocation /\ done.status = "evaluated"
      /\ done.agent = tools[i].agent /\ done.template = tools[i].template
      /\ done.tags = tools[i].tags
  <2>1. tools[i] \in ToolInvocation
    BY <1>1
  <2> QED BY <2>1 DEF ToolInvocation, Tool, ToolStatuses
<1>4. r0 \in ReplayState /\ r \in ReplayState
  <2>1. {i} \in SUBSET Nat
    BY <1>1
  <2>2. r0 \in ReplayState
    BY <1>1, <2>1, ReplayTypes
  <2> HIDE DEF r0
  <2> QED BY <2>1, <2>2, ReplayTypes
<1>5. /\ r.status = replay.status /\ r.opened = replay.opened
      /\ r.submitted = replay.submitted \cup {i}
      /\ r.evaluated = replay.evaluated \cup {i}
      /\ r.cancelled = replay.cancelled
  BY <1>1 DEF ReplayEvent, Replayed, ReplayState
<1> HIDE DEF done, r0, r
<1>6. /\ sofar \in Seq(ToolInvocation) /\ Len(sofar) = Len(tools)
      /\ sofar[i] = done
      /\ \A j \in 1..Len(tools) : j # i => sofar[j] = tools[j]
  BY <1>1, <1>3
<1> HIDE DEF sofar
<1>7. i \notin replay.evaluated /\ i \notin replay.cancelled
  BY DEF InterviewInv, ReplayAgrees, Tells
<1>8. Tells(r, status, sofar)
  <2>1. /\ r.status = status /\ r.opened = 1..Len(sofar) /\ r.submitted = r.evaluated
        /\ r.evaluated \cup r.cancelled \subseteq 1..Len(sofar)
    BY <1>5, <1>6 DEF InterviewInv, ReplayAgrees, Tells
  <2>2. status # "cancelled"
    BY DEF Terminal
  <2>3. ASSUME NEW j \in 1..Len(sofar)
        PROVE  /\ j \in r.evaluated => sofar[j].status = "evaluated"
               /\ j \in r.cancelled => sofar[j].status = "cancelled"
               /\ sofar[j].agent /\ sofar[j].status = "evaluated" => j \in r.evaluated
               /\ sofar[j].agent /\ sofar[j].status = "cancelled" => j \in r.cancelled
    <3>1. CASE j = i
      BY <1>3, <1>5, <1>6, <1>7, <3>1
    <3>2. CASE j # i
      <4>1. sofar[j] = tools[j] /\ j \in 1..Len(tools)
        BY <1>6, <3>2
      <4>2. (j \in r.evaluated <=> j \in replay.evaluated) /\ r.cancelled = replay.cancelled
        BY <1>5, <3>2
      <4> QED BY <4>1, <4>2 DEF InterviewInv, ReplayAgrees, Tells
    <3> QED BY <3>1, <3>2
  <2> QED BY <2>1, <2>2, <2>3 DEF Tells
<1>9. ReplayAgrees'
  BY <1>1, <1>2, <1>4, <1>6, <1>8, DecisionTold
<1>10. AgentToolsWithinPolicy'
  <2>1. \A j \in 1..Len(tools) : /\ sofar[j].agent = tools[j].agent
                                 /\ sofar[j].template = tools[j].template
                                 /\ sofar[j].tags = tools[j].tags
    BY <1>3, <1>6
  <2> QED BY <1>1, <1>2, <1>6, <2>1, DecisionPermitted DEF InterviewInv
<1>11. /\ asked' \in Nat /\ asked' <= asked + 1
       /\ anchors' \in SUBSET Competencies /\ anchors \subseteq anchors'
       /\ question' \in Seq(Competencies)
  BY <1>1, <1>2, ApplyTypes
<1>12. replay' \in ReplayState /\ Len(tools) + 1 \in Nat
  BY <1>1, <1>2, <1>4, ReplayDecisionTypes
<1>13. TypeOK'
  <2>1. followups' \in [Competencies -> Nat]
    BY <1>1, <1>2, FollowupTypes
  <2>2. tools' \in Seq(ToolInvocation)
    BY <1>2, <1>6, ToolsAfterDecision
  <2>3. status' \in Statuses
    BY <1>1, <1>2 DEF StatusAfter, Statuses, Terminal, TypeOK
  <2> QED BY <1>1, <1>11, <1>12, <2>1, <2>2, <2>3 DEF TypeOK
<1>14. replay'.evaluated = replay.evaluated \cup {i}
  BY <1>2, <1>4, <1>5, <1>12, ReplayDecisionFields
<1>15. QuestionsBounded'
  BY <1>1, <1>7, <1>9, <1>11, <1>13, <1>14, AskedWithinBounds
<1>16. EarlyQuestions'
  <2> DEFINE e == Cardinality(replay.evaluated)
             f == Cardinality(replay'.evaluated)
  <2> SUFFICES ASSUME status' = "created" PROVE asked' <= f
    BY DEF EarlyQuestions
  <2>1. status = "created"
    BY <1>2 DEF StatusAfter
  <2>2. asked <= e /\ asked \in Nat
    BY <1>1, <2>1 DEF InterviewInv, EarlyQuestions, TypeOK
  <2>3. e \in Nat /\ f = e + 1
    BY <1>7, <1>14, FiniteCounts, CountOneMore DEF InterviewInv
  <2> HIDE DEF e, f
  <2> QED BY <1>11, <2>2, <2>3
<1>17. QED
  BY <1>9, <1>10, <1>13, <1>15, <1>16 DEF InterviewInv

LEMMA SubmitToolKeeps ==
  ASSUME InterviewInv, NEW i \in 1..ToolBound, SubmitTool(i)
  PROVE  InterviewInv'
<1>1. /\ status \notin Terminal /\ i \in 1..Len(tools) /\ tools[i].status = "open"
      /\ paused' = paused /\ covered' = covered
  BY DEF SubmitTool
<1>2. tools[i].tags \in Seq(Competencies)
  <2>1. tools \in Seq(ToolInvocation)
    BY DEF InterviewInv, TypeOK
  <2>2. tools[i] \in ToolInvocation
    BY <1>1, <2>1
  <2> QED BY <2>2 DEF ToolInvocation
<1>3. CASE Submitted(i, RuleAfterTool(tools[i].tags))
  <2>1. RuleAfterTool(tools[i].tags) \in AgentDecision
    BY <1>2, RuleToolDecision
  <2> QED BY <1>1, <1>3, <2>1, SubmittedKeeps
<1>4. CASE \E d \in LLMDecisions : Submitted(i, d)
  <2>1. PICK d \in LLMDecisions : Submitted(i, d)
    BY <1>4
  <2>2. d \in AgentDecision
    BY LLMDecisionsWithinBudget DEF InterviewInv
  <2> QED BY <1>1, <2>1, <2>2, SubmittedKeeps
<1>5. QED
  BY <1>3, <1>4 DEF SubmitTool

LEMMA CancelKeeps ==
  ASSUME InterviewInv, CancelSession
  PROVE  InterviewInv'
<1> DEFINE live == {i \in 1..Len(tools) : tools[i].status \in {"open", "submitted"}}
           off(i) == Tool("cancelled", tools[i].template, tools[i].tags, tools[i].agent)
           r == ReplayEvent(replay, "tool_cancelled", live)
<1>1. /\ tools' = [i \in 1..Len(tools) |-> IF i \in live THEN off(i) ELSE tools[i]]
      /\ replay' = ReplayEvent(r, "session_cancelled", {})
      /\ paused' = FALSE /\ status' = "cancelled" /\ status \notin Terminal
      /\ UNCHANGED <<asked, anchors, covered, followups, question>>
  BY DEF CancelSession
<1>2. tools \in Seq(ToolInvocation) /\ Len(tools) \in Nat /\ replay \in ReplayState
  BY DEF InterviewInv, TypeOK
<1>3. live \subseteq 1..Len(tools) /\ live \in SUBSET Nat
  BY <1>2
<1>4. \A i \in 1..Len(tools) : /\ tools[i] \in ToolInvocation /\ off(i) \in ToolInvocation
                               /\ off(i).status = "cancelled" /\ off(i).agent = tools[i].agent
                               /\ off(i).template = tools[i].template /\ off(i).tags = tools[i].tags
  <2>1. \A i \in 1..Len(tools) : tools[i] \in ToolInvocation
    BY <1>2
  <2> QED BY <2>1 DEF ToolInvocation, Tool, ToolStatuses
<1>5. \A i \in 1..Len(tools) : i \notin live => tools[i].status \in {"evaluated", "cancelled"}
  BY <1>4 DEF ToolInvocation, ToolStatuses
<1>6. \A i \in live : tools[i].status \in {"open", "submitted"}
  OBVIOUS
<1>7. r \in ReplayState /\ replay' \in ReplayState
  <2>1. r \in ReplayState
    BY <1>2, <1>3, ReplayTypes
  <2> HIDE DEF r
  <2> QED BY <1>1, <2>1, ReplayTypes
<1>8. /\ replay'.status = "cancelled" /\ replay'.opened = replay.opened
      /\ replay'.submitted = replay.submitted /\ replay'.evaluated = replay.evaluated
      /\ replay'.cancelled = replay.cancelled \cup live
  BY <1>1, <1>2 DEF ReplayEvent, Replayed, ReplayState
<1> HIDE DEF live, off, r
<1>9. /\ tools' \in Seq(ToolInvocation) /\ Len(tools') = Len(tools)
      /\ \A i \in 1..Len(tools) : tools'[i] = IF i \in live THEN off(i) ELSE tools[i]
  BY <1>1, <1>2, <1>4
<1>10. TypeOK'
  BY <1>1, <1>7, <1>9 DEF InterviewInv, TypeOK, Statuses, Terminal
<1>11. ReplayAgrees'
  <2>1. /\ replay'.status = status' /\ replay'.opened = 1..Len(tools')
        /\ replay'.submitted = replay'.evaluated
        /\ replay'.evaluated \cup replay'.cancelled \subseteq 1..Len(tools')
    BY <1>1, <1>3, <1>8, <1>9 DEF InterviewInv, ReplayAgrees, Tells
  <2>2. ASSUME NEW j \in 1..Len(tools')
        PROVE  /\ j \in replay'.evaluated => tools'[j].status = "evaluated"
               /\ j \in replay'.cancelled => tools'[j].status = "cancelled"
               /\ tools'[j].agent /\ tools'[j].status = "evaluated" => j \in replay'.evaluated
               /\ tools'[j].agent /\ tools'[j].status = "cancelled" => j \in replay'.cancelled
               /\ tools'[j].status \in {"evaluated", "cancelled"}
    <3>1. j \in 1..Len(tools)
      BY <1>9
    <3>2. /\ j \in replay.evaluated => tools[j].status = "evaluated"
          /\ j \in replay.cancelled => tools[j].status = "cancelled"
          /\ tools[j].agent /\ tools[j].status = "evaluated" => j \in replay.evaluated
          /\ tools[j].agent /\ tools[j].status = "cancelled" => j \in replay.cancelled
      BY <3>1 DEF InterviewInv, ReplayAgrees, Tells
    <3>3. CASE j \in live
      <4>1. tools'[j] = off(j) /\ tools'[j].status = "cancelled"
        BY <1>4, <1>9, <3>1, <3>3
      <4>2. j \notin replay.evaluated
        BY <1>6, <3>2, <3>3
      <4> QED BY <1>8, <3>3, <4>1, <4>2
    <3>4. CASE j \notin live
      <4>1. tools'[j] = tools[j] /\ tools[j].status \in {"evaluated", "cancelled"}
        BY <1>5, <1>9, <3>1, <3>4
      <4> QED BY <1>8, <3>2, <3>4, <4>1
    <3> QED BY <3>3, <3>4
  <2> QED BY <2>1, <2>2 DEF ReplayAgrees, Tells
<1>12. AgentToolsWithinPolicy'
  <2>1. \A j \in 1..Len(tools) : /\ tools'[j].agent = tools[j].agent
                                 /\ tools'[j].template = tools[j].template
                                 /\ tools'[j].tags = tools[j].tags
    BY <1>4, <1>9
  <2>2. ASSUME NEW i \in 1..Len(tools) PROVE Permitted(tools', i)
    <3>1. Permitted(tools, i) /\ 1..(i - 1) \subseteq 1..Len(tools)
      BY <1>2 DEF InterviewInv, AgentToolsWithinPolicy
    <3> QED BY <2>1, <3>1 DEF Permitted
  <2> QED BY <1>9, <2>2 DEF AgentToolsWithinPolicy
<1>13. QuestionsBounded' /\ EarlyQuestions'
  BY <1>1, <1>8, NothingAsked
<1>14. QED
  BY <1>10, <1>11, <1>12, <1>13 DEF InterviewInv
-----------------------------------------------------------------------------
(***************************************************************************)
(* The theorems.                                                           *)
(***************************************************************************)
LEMMA StepKeeps == InterviewInv /\ [Next]_vars => InterviewInv'
<1> SUFFICES ASSUME InterviewInv, [Next]_vars PROVE InterviewInv'
  OBVIOUS
<1>1. CASE Start
  BY <1>1, StartKeeps
<1>2. CASE Answer
  BY <1>2, AnswerKeeps
<1>3. CASE \E k \in {"thinking_time", "resume"} : Control(k)
  BY <1>3, ControlKeeps
<1>4. CASE \E l \in TagLists, t \in Templates \cup {NoTemplate}, st \in ClientStatuses :
             OpenTool(l, t, st)
  BY <1>4, OpenToolKeeps
<1>5. CASE \E i \in 1..ToolBound : SubmitTool(i)
  BY <1>5, SubmitToolKeeps
<1>6. CASE CancelSession
  BY <1>6, CancelKeeps
<1>7. CASE UNCHANGED vars
  BY <1>7 DEF vars, InterviewInv, TypeOK, ReplayAgrees, Tells, AgentToolsWithinPolicy,
              Permitted, QuestionsBounded, EarlyQuestions
<1>8. QED
  BY <1>1, <1>2, <1>3, <1>4, <1>5, <1>6, <1>7 DEF Next

LEMMA InterviewInvHolds == Spec => []InterviewInv
  BY InitInv, StepKeeps, PTL DEF Spec

(* For every job and whatever the models answer: beyond max_questions      *)
(* there is at most one question per anchored competency and one per       *)
(* submitted tool (answer, submit_tool and start of service.py).           *)
THEOREM QuestionsAreBounded == Spec => []QuestionsBounded
<1>1. InterviewInv => QuestionsBounded
  BY DEF InterviewInv
<1>2. QED
  BY <1>1, InterviewInvHolds, PTL

(* replay_events tells of the session's status and of the fate of its      *)
(* tools what the session itself says, after any operations.               *)
THEOREM ReplayTellsTheSession == Spec => []ReplayAgrees
<1>1. InterviewInv => ReplayAgrees
  BY DEF InterviewInv
<1>2. QED
  BY <1>1, InterviewInvHolds, PTL

(* Whatever a model asks for and however many tools clients add, the tools *)
(* that the interviewer opens (_open_agent_tool) are within the job's      *)
(* policy.                                                                 *)
THEOREM AgentToolsKeepToPolicy == Spec => []AgentToolsWithinPolicy
<1>1. InterviewInv => AgentToolsWithinPolicy
  BY DEF InterviewInv
<1>2. QED
  BY <1>1, InterviewInvHolds, PTL
-----------------------------------------------------------------------------
(***************************************************************************)
(* The rule-based brain alone: what a model may break.                     *)
(***************************************************************************)
RulesAlone == Brains = {"rules"}

(* No interview completes while the planner would still schedule an        *)
(* anchor: a model may do that in submit_tool, which does not ask it.      *)
AnchorShareKeptAtClose == status = "completed" /\ asked > 0 => ~AnchorDue

(* The rules close an interview by one decision only, which no parent turn *)
(* protects from the planner.                                              *)
LEMMA RulesClose ==
  ASSUME TypeOK, NEW short \in BOOLEAN, RuleAfterAnswer(short).completes
  PROVE  RuleAfterAnswer(short) = Closing
  BY DEF RuleAfterAnswer, Decision

(* With the rules an operation completes the session only as an answer for *)
(* which no anchor is due, and asks nothing more.                          *)
LEMMA RulesComplete ==
  ASSUME RulesAlone, TypeOK, [Next]_vars, status # "completed", status' = "completed"
  PROVE  ~AnchorDue /\ asked' = asked /\ anchors' = anchors
<1>1. CASE Start \/ CancelSession
  BY <1>1 DEF Start, CancelSession
<1>2. CASE \E k \in {"thinking_time", "resume"} : Control(k)
  BY <1>2 DEF Control
<1>3. CASE \E l \in TagLists, t \in Templates \cup {NoTemplate}, st \in ClientStatuses :
             OpenTool(l, t, st)
  BY <1>3 DEF OpenTool
<1>4. CASE UNCHANGED vars
  BY <1>4 DEF vars
<1>5. CASE \E i \in 1..ToolBound : SubmitTool(i)
  <2>1. PICK i \in 1..ToolBound : SubmitTool(i)
    BY <1>5
  <2>2. Submitted(i, RuleAfterTool(tools[i].tags))
    BY <2>1 DEF SubmitTool, RulesAlone
  <2>3. ~RuleAfterTool(tools[i].tags).completes
    BY DEF RuleAfterTool, Decision
  <2> QED BY <2>2, <2>3 DEF Submitted, StatusAfter
<1>6. CASE Answer
  <2>1. PICK short \in BOOLEAN : AnswerWithRules(short)
    BY <1>6 DEF Answer, AnswerWithLLM, RulesAlone
  <2> DEFINE a == RuleAfterAnswer(short)
             d == PlannedTurn(a)
  <2>2. ApplyDecision(d) /\ status' = StatusAfter(d)
    BY <2>1 DEF AnswerWithRules, Answered
  <2>3. d.completes
    BY <2>2 DEF StatusAfter
  <2>4. d = a \/ (d = AnchorDecision /\ AnchorDue)
    BY DEF PlannedTurn
  <2>5. ~AnchorDecision.completes
    BY DEF AnchorDecision, Decision
  <2>6. d = a /\ a = Closing
    BY <2>3, <2>4, <2>5, RulesClose
  <2>7. Closing.completes /\ ~Closing.parent
    BY DEF Closing, Decision
  <2>8. ~AnchorDue
    BY <2>5, <2>6, <2>7 DEF PlannedTurn
  <2> QED BY <2>2, <2>3, <2>8 DEF ApplyDecision
<1>7. QED
  BY <1>1, <1>2, <1>3, <1>4, <1>5, <1>6 DEF Next

(* A completed session is left alone.                                      *)
LEMMA CompletedStays ==
  ASSUME [Next]_vars, status = "completed"
  PROVE  UNCHANGED vars
  BY DEF Next, Start, Answer, AnswerWithRules, AnswerWithLLM, Control, OpenTool, SubmitTool,
         CancelSession, Terminal

(* For every job: an interview led by the rules never completes while the  *)
(* planner would still schedule an anchor (answer of service.py).          *)
THEOREM RulesKeepTheAnchorShare ==
  ASSUME RulesAlone
  PROVE  Spec => []AnchorShareKeptAtClose
<1>1. Init => AnchorShareKeptAtClose
  BY DEF Init, AnchorShareKeptAtClose
<1>2. InterviewInv /\ AnchorShareKeptAtClose /\ [Next]_vars => AnchorShareKeptAtClose'
  <2> SUFFICES ASSUME InterviewInv, AnchorShareKeptAtClose, [Next]_vars,
                      status' = "completed", asked' > 0
               PROVE  ~AnchorDue'
    BY DEF AnchorShareKeptAtClose
  <2>1. CASE status = "completed"
    <3>1. UNCHANGED vars
      BY <2>1, CompletedStays
    <3> QED BY <2>1, <3>1 DEF vars, AnchorShareKeptAtClose, AnchorDue, Unasked
  <2>2. CASE status # "completed"
    <3>1. ~AnchorDue /\ asked' = asked /\ anchors' = anchors
      BY <2>2, RulesComplete DEF InterviewInv
    <3> QED BY <3>1 DEF AnchorDue, Unasked
  <2>3. QED
    BY <2>1, <2>2
<1>3. QED
  BY <1>1, <1>2, InterviewInvHolds, PTL DEF Spec
-----------------------------------------------------------------------------
(***************************************************************************)
(* The circuit breaker, for any callers, threshold and bounds.             *)
(***************************************************************************)

\* What the threshold argument needs to know of the account's types.
AccountOK ==
  /\ kind \in {"circuit", "registry"}
  /\ state \in {"closed", "open", "half_open"}
  /\ failures \in Nat

BreakerInv == AccountOK /\ TripsAtThreshold

\* RecordFailure, whoever reports it: at the threshold it opens the circuit, and a
\* circuit that is not closed was at the threshold already.
LEMMA FailureTrips ==
  ASSUME BreakerInv, RecordFailure, kind' = kind
  PROVE  BreakerInv'
<1> USE ResilienceAssumption
<1>1. failures \in Nat /\ MaxFailures \in Nat /\ Threshold \in Nat \ {0} /\ Threshold <= MaxFailures
  BY DEF BreakerInv, AccountOK
<1>2. failures' \in Nat /\ failures' >= failures
      /\ (failures + 1 >= Threshold <=> failures' >= Threshold)
  BY <1>1 DEF RecordFailure, Trips
<1>3. CASE (kind = "circuit" /\ state = "half_open") \/ failures + 1 >= Threshold
  <2>1. state' = "open"
    BY <1>3 DEF RecordFailure, Trips
  <2>2. failures' >= Threshold
    BY <1>1, <1>2, <1>3 DEF BreakerInv, TripsAtThreshold
  <2> QED
    BY <1>1, <1>2, <2>1, <2>2 DEF BreakerInv, AccountOK, TripsAtThreshold
<1>4. CASE ~((kind = "circuit" /\ state = "half_open") \/ failures + 1 >= Threshold)
  <2>1. state' = state /\ failures' < Threshold
    BY <1>1, <1>2, <1>4 DEF RecordFailure, Trips
  <2> QED
    BY <1>1, <1>2, <1>4, <2>1 DEF BreakerInv, AccountOK, TripsAtThreshold
<1> QED
  BY <1>3, <1>4

\* RecordSuccess closes the circuit and forgets the failures.
LEMMA SuccessCloses ==
  ASSUME BreakerInv, RecordSuccess, kind' = kind
  PROVE  BreakerInv'
BY ResilienceAssumption DEF BreakerInv, AccountOK, TripsAtThreshold, RecordSuccess

\* before_call moves an open circuit on without touching the count.
LEMMA AdmitKeeps ==
  ASSUME BreakerInv, NEW c \in Callers, Admit(c)
  PROVE  BreakerInv'
<1>1. kind' = kind /\ failures' = failures
  BY DEF Admit
<1>2. state' \in {state, IF kind = "circuit" THEN "half_open" ELSE "closed"}
  BY DEF Admit
<1>3. CASE state' = state
  BY <1>1, <1>3 DEF BreakerInv, AccountOK, TripsAtThreshold
<1>4. CASE state' # state
  <2>1. state = "open" /\ state' = IF kind = "circuit" THEN "half_open" ELSE "closed"
    BY <1>4 DEF Admit
  <2> QED
    BY <1>1, <2>1 DEF BreakerInv, AccountOK, TripsAtThreshold
<1> QED
  BY <1>3, <1>4

LEMMA BreakerInvHolds == BreakerSpec => []BreakerInv
<1>1. BreakerInit => BreakerInv
  BY ResilienceAssumption DEF BreakerInit, BreakerInv, AccountOK, TripsAtThreshold
<1>2. BreakerInv /\ [BreakerNext]_breakerVars => BreakerInv'
  <2> SUFFICES ASSUME BreakerInv, [BreakerNext]_breakerVars PROVE BreakerInv'
    OBVIOUS
  <2>1. ASSUME kind' = kind, UNCHANGED account PROVE BreakerInv'
    BY <2>1 DEF BreakerInv, AccountOK, TripsAtThreshold, account
  <2>2. ASSUME NEW c \in Callers, Begin(c) \/ Retry(c) \/ Finish(c) \/ Close(c) PROVE BreakerInv'
    BY <2>1, <2>2 DEF Begin, Retry, Finish, Close
  <2>3. ASSUME NEW c \in Callers, Admit(c) PROVE BreakerInv'
    BY <2>3, AdmitKeeps
  <2>4. ASSUME NEW c \in Callers, Answers(c) \/ FirstEvent(c) PROVE BreakerInv'
    BY <2>4, SuccessCloses DEF Answers, FirstEvent
  <2>5. ASSUME NEW c \in Callers, Fails(c) \/ StreamFails(c) PROVE BreakerInv'
    BY <2>5, FailureTrips DEF Fails, StreamFails
  <2>6. ASSUME NEW c \in Callers, Opens(c) PROVE BreakerInv'
    BY <2>1, <2>6, FailureTrips DEF Opens
  <2>7. ASSUME Cool PROVE BreakerInv'
    BY <2>7 DEF Cool, BreakerInv, AccountOK, TripsAtThreshold
  <2>8. ASSUME Change PROVE BreakerInv'
    BY <2>1, <2>8 DEF Change
  <2>9. ASSUME UNCHANGED breakerVars PROVE BreakerInv'
    BY <2>1, <2>9 DEF breakerVars, account
  <2> QED
    BY <2>2, <2>3, <2>4, <2>5, <2>6, <2>7, <2>8, <2>9 DEF BreakerNext, Step, Outcome
<1> QED
  BY <1>1, <1>2, PTL DEF BreakerSpec

\* However the outcomes of overlapping calls interleave with openings and probes, the
\* breaker of resilience.py is closed exactly below its threshold.
THEOREM BreakerTripsAtThreshold == BreakerSpec => []TripsAtThreshold
<1>1. BreakerInv => TripsAtThreshold
  BY DEF BreakerInv
<1> QED
  BY <1>1, BreakerInvHolds, PTL

\* Only a call with attempts left backs off.
BreakerTypes ==
  /\ BreakerTypeOK
  /\ \A c \in Callers : call[c].step = "backoff" => call[c].attempt < MaxAttempts

Calls == [step : Steps, attempt : 1..MaxAttempts, sound : BOOLEAN, marked : BOOLEAN]

LEMMA CallBecomes ==
  ASSUME BreakerTypes, NEW c \in Callers, NEW s, s \in Calls,
         s.step = "backoff" => s.attempt < MaxAttempts,
         call' = [call EXCEPT ![c] = s],
         UNCHANGED <<kind, healthy, changes>>,
         state' \in {"closed", "open", "half_open"}, failures' \in 0..MaxFailures, cooled' \in BOOLEAN
  PROVE  BreakerTypes'
BY DEF BreakerTypes, BreakerTypeOK, Calls

LEMMA CallEnds ==
  ASSUME BreakerTypes, NEW c \in Callers, Ends(c), UNCHANGED <<kind, healthy, changes>>,
         state' \in {"closed", "open", "half_open"}, failures' \in 0..MaxFailures, cooled' \in BOOLEAN
  PROVE  BreakerTypes'
<1>1. Idle \in Calls /\ Idle.step # "backoff" BY ResilienceAssumption DEF Idle, Calls, Steps
<1>2. call' = [call EXCEPT ![c] = Idle] BY DEF Ends
<1> HIDE DEF Idle
<1> QED BY <1>1, <1>2, CallBecomes

LEMMA CallGoesTo ==
  ASSUME BreakerTypes, NEW c \in Callers, NEW step \in Steps, GoesTo(c, step),
         step = "backoff" => MayRetry(c), UNCHANGED <<kind, healthy, changes>>,
         state' \in {"closed", "open", "half_open"}, failures' \in 0..MaxFailures, cooled' \in BOOLEAN
  PROVE  BreakerTypes'
<1> DEFINE s == [call[c] EXCEPT !.step = step]
<1>1. call[c] \in Calls BY DEF BreakerTypes, BreakerTypeOK, Calls
<1>2. s \in Calls /\ s.step = step /\ s.attempt = call[c].attempt BY <1>1 DEF Calls
<1>3. call' = [call EXCEPT ![c] = s] BY DEF GoesTo
<1>4. s.step = "backoff" => s.attempt < MaxAttempts BY <1>2 DEF MayRetry
<1> HIDE DEF s
<1> QED BY <1>2, <1>3, <1>4, CallBecomes

LEMMA AccountTypes ==
  ASSUME BreakerTypes
  PROVE  /\ state \in {"closed", "open", "half_open"} /\ failures \in 0..MaxFailures /\ cooled \in BOOLEAN
         /\ UNCHANGED account =>
              state' \in {"closed", "open", "half_open"} /\ failures' \in 0..MaxFailures /\ cooled' \in BOOLEAN
         /\ RecordFailure \/ RecordSuccess =>
              state' \in {"closed", "open", "half_open"} /\ failures' \in 0..MaxFailures /\ cooled' \in BOOLEAN
<1>1. /\ state \in {"closed", "open", "half_open"} /\ failures \in 0..MaxFailures /\ cooled \in BOOLEAN
      /\ MaxFailures \in Nat
  BY ResilienceAssumption DEF BreakerTypes, BreakerTypeOK
<1>2. CASE UNCHANGED account BY <1>1, <1>2 DEF account
<1>3. CASE RecordSuccess BY <1>1, <1>3 DEF RecordSuccess
<1>4. CASE RecordFailure
  <2>1. failures' \in 0..MaxFailures BY <1>1, <1>4 DEF RecordFailure
  <2>2. state' \in {"closed", "open", "half_open"} BY <1>1, <1>4 DEF RecordFailure
  <2>3. cooled' \in BOOLEAN BY <1>1, <1>4, Zenon DEF RecordFailure
  <2> QED BY <1>1, <2>1, <2>2, <2>3
<1> QED BY <1>1, <1>2, <1>3, <1>4

\* A call makes max_attempts attempts at most (complete), and the account stays one of the
\* states of its provider (CircuitState).
THEOREM BreakerTypesAreKept == BreakerSpec => []BreakerTypeOK
<1>1. BreakerInit => BreakerTypes
  BY ResilienceAssumption DEF BreakerInit, BreakerTypes, BreakerTypeOK, Idle, Steps
<1>2. BreakerTypes /\ [BreakerNext]_breakerVars => BreakerTypes'
  <2> SUFFICES ASSUME BreakerTypes, [BreakerNext]_breakerVars PROVE BreakerTypes' OBVIOUS
  <2>e. \A c \in Callers : call[c] \in Calls BY DEF BreakerTypes, BreakerTypeOK, Calls
  <2>1. ASSUME NEW c \in Callers, Admit(c) PROVE BreakerTypes'
    <3>1. state' \in {"closed", "open", "half_open"} /\ failures' = failures /\ cooled' = cooled
      BY <2>1, AccountTypes DEF Admit
    <3>2. CASE Ends(c) BY <2>1, <3>1, <3>2, CallEnds, AccountTypes DEF Admit
    <3>3. CASE call' = [call EXCEPT ![c].step = "waiting", ![c].sound = healthy]
      <4> DEFINE s == [call[c] EXCEPT !.step = "waiting", !.sound = healthy]
      <4>1. call' = [call EXCEPT ![c] = s] BY <2>e, <3>3 DEF BreakerTypes, BreakerTypeOK
      <4>2. s \in Calls /\ s.step = "waiting"
        BY <2>e DEF Calls, Steps, BreakerTypes, BreakerTypeOK
      <4> HIDE DEF s
      <4> QED BY <2>1, <3>1, <4>1, <4>2, CallBecomes, AccountTypes DEF Admit
    <3> QED BY <2>1, <3>2, <3>3 DEF Admit
  <2>2. ASSUME NEW c \in Callers, Begin(c) PROVE BreakerTypes'
    <3>1. "asking" \in Steps BY DEF Steps
    <3> QED BY <2>2, <3>1, CallGoesTo, AccountTypes DEF Begin
  <2>3. ASSUME NEW c \in Callers, Answers(c) PROVE BreakerTypes'
    BY <2>3, CallEnds, AccountTypes DEF Answers
  <2>4. ASSUME NEW c \in Callers, Fails(c) PROVE BreakerTypes'
    <3>1. "backoff" \in Steps BY DEF Steps
    <3> QED BY <2>4, <3>1, CallEnds, CallGoesTo, AccountTypes DEF Fails
  <2>5. ASSUME NEW c \in Callers, Retry(c) PROVE BreakerTypes'
    <3> DEFINE s == [Idle EXCEPT !.step = "asking", !.attempt = call[c].attempt + 1]
    <3>1. call[c].attempt < MaxAttempts BY <2>5 DEF Retry, At, BreakerTypes
    <3>2. s \in Calls /\ s.step = "asking"
      <4>1. call[c].attempt + 1 \in 1..MaxAttempts
        BY <2>e, <3>1, ResilienceAssumption DEF Calls
      <4>2. Idle \in Calls BY ResilienceAssumption DEF Idle, Calls, Steps
      <4>3. "asking" \in Steps BY DEF Steps
      <4> HIDE DEF Idle
      <4> QED BY <4>1, <4>2, <4>3 DEF Calls
    <3>3. call' = [call EXCEPT ![c] = s] BY <2>5 DEF Retry
    <3> HIDE DEF s
    <3> USE DEF Retry
    <3> QED BY <2>5, <3>2, <3>3, CallBecomes, AccountTypes
  <2>6. ASSUME NEW c \in Callers, Opens(c) PROVE BreakerTypes'
    <3>1. "streaming" \in Steps BY DEF Steps
    <3> QED BY <2>6, <3>1, CallEnds, CallGoesTo, AccountTypes DEF Opens
  <2>7. ASSUME NEW c \in Callers, FirstEvent(c) PROVE BreakerTypes'
    <3> DEFINE s == [call[c] EXCEPT !.marked = TRUE]
    <3>1. s \in Calls /\ s.step = "streaming" BY <2>e, <2>7 DEF Calls, FirstEvent, At
    <3>2. call' = [call EXCEPT ![c] = s] BY <2>7 DEF FirstEvent
    <3> HIDE DEF s
    <3> QED BY <2>7, <3>1, <3>2, CallBecomes, AccountTypes DEF FirstEvent
  <2>8. ASSUME NEW c \in Callers, StreamFails(c) PROVE BreakerTypes'
    BY <2>8, AccountTypes DEF StreamFails, BreakerTypes, BreakerTypeOK
  <2>9. ASSUME NEW c \in Callers, Close(c) PROVE BreakerTypes'
    BY <2>9, CallEnds, AccountTypes DEF Close
  <2>10. ASSUME NEW c \in Callers, Finish(c) PROVE BreakerTypes'
    <3>1. "finished" \in Steps BY DEF Steps
    <3> QED BY <2>10, <3>1, CallGoesTo, AccountTypes DEF Finish
  <2>11. ASSUME Cool \/ UNCHANGED breakerVars PROVE BreakerTypes'
    BY <2>11 DEF Cool, breakerVars, BreakerTypes, BreakerTypeOK
  <2>12. ASSUME Change PROVE BreakerTypes'
    <3>1. changes' \in 0..MaxChanges
      BY <2>12, ResilienceAssumption DEF Change, BreakerTypes, BreakerTypeOK
    <3>2. healthy' \in BOOLEAN BY <2>12 DEF Change
    <3> QED BY <2>12, <3>1, <3>2 DEF Change, account, BreakerTypes, BreakerTypeOK
  <2> QED
    BY <2>1, <2>2, <2>3, <2>4, <2>5, <2>6, <2>7, <2>8, <2>9, <2>10, <2>11, <2>12 DEF BreakerNext, Step, Outcome
<1>3. BreakerTypes => BreakerTypeOK BY DEF BreakerTypes
<1> QED BY <1>1, <1>2, <1>3, PTL DEF BreakerSpec
=============================================================================
