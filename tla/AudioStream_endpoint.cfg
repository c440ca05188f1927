SPECIFICATION Spec
CONSTANTS
  MaxFrames = 4
  MaxInFlight = 2
  MaxQueued = 1
  MaxSockets = 1
  MaxAttempts = 1
  MaxBuffered = 1
  EventQueueSize = 1
  SpeechStart = 2
  EndSilence = 1
  MaxUtterance = 4
  Profiles <- MCUtterances
INVARIANT EndpointIsDue
CHECK_DEADLOCK FALSE
