SPECIFICATION FairBreakerSpec
CONSTANTS
  Callers = {a, b}
  Threshold = 2
  MaxAttempts = 2
  MaxFailures = 4
  MaxChanges = 2
INVARIANTS
  TripsAtThreshold
PROPERTIES
  ComesBack
CHECK_DEADLOCK FALSE
