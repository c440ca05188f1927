SPECIFICATION FairSpec
CONSTANTS
  Writers = {u, w}
  Subscriptions = {1, 2}
  Types = {"completed", "turn"}
  Wanted <- MCWanted
  MaxAttempts = 2
  MaxOperations = 2
  MaxCutoffs = 2
INVARIANTS
  PostsAreStored
  KeyIsBounded
  AuditIsTrue
  LostOnlyByCutoff
PROPERTY SaveReturns
CHECK_DEADLOCK FALSE
