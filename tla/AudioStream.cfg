SPECIFICATION Spec
CONSTANTS
  MaxFrames = 2
  MaxInFlight = 2
  MaxQueued = 1
  MaxSockets = 2
  MaxAttempts = 1
  MaxBuffered = 1
  EventQueueSize = 1
  SpeechStart = 1
  EndSilence = 1
  MaxUtterance = 3
  Profiles <- MCSilence
INVARIANTS CommitIsComplete CursorNeverAhead DetachedIsExpiring
PROPERTY DeliversInOrder
CHECK_DEADLOCK FALSE
