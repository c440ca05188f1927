SPECIFICATION FairSpec
CONSTANTS
  N = 2
  Anchored = {1, 2}
  MaxQuestions = 3
  RatioNum = 3
  RatioDen = 5
  MaxTools = 2
  ToolBound = 2
  ClientStatuses = {"open", "evaluated"}
  Brains = {"rules", "llm"}
  Policy <- MCPolicy
  TagLists <- MCTagLists
INVARIANTS
  AgentToolsWithinPolicy
  AnchorShareKept
  QuestionsBounded
  ReplayAgrees
PROPERTY InterviewEnds
CHECK_DEADLOCK FALSE
