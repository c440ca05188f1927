SPECIFICATION ReviewSpec
CONSTANTS
  Recruiters = {p, q}
  Drafts = {d}
  Jobs = {j}
  Nothing = nothing
  MaxAssignments = 2
  Items = {1}
  MaxVersion = 4
SYMMETRY Symmetry
PROPERTY PreconditionHoldsAtSave
CHECK_DEADLOCK FALSE
