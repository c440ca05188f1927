SPECIFICATION ReviewSpec
CONSTANTS
  Recruiters = {p, q}
  Drafts = {d}
  Jobs = {j, k}
  Nothing = nothing
  MaxAssignments = 2
  Items = {1}
  MaxVersion = 5
SYMMETRY Symmetry
INVARIANTS
  ApprovalYieldsOneJob
  OneActiveAssignment
  CompletedWasWorked
  DecidedOnce
CHECK_DEADLOCK FALSE
