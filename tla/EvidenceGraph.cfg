SPECIFICATION Spec
CONSTANTS
  c1 = c1
  c2 = c2
  t1 = t1
  t2 = t2
  Competencies = {c1, c2}
  Turns = {t1, t2}
  Tags <- MCTags
  ToolTags <- MCToolTags
  Confidences = {1, 2}
  Full = 2
  None = None
  Judges = {j1}
  Findings <- MCFindings
  Observations <- MCObservations
  MaxRevision = 1
  MaxEvidence <- MCMaxEvidence
INVARIANTS
  StateIsStrongest
  ConfidenceIsBacked
  SemanticEvidenceIsCurrent
PROPERTY ContradictionIsSticky
PROPERTY EvidenceIsKept
CHECK_DEADLOCK FALSE
