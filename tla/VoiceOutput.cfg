SPECIFICATION OutputSpec
CONSTANTS
  Callers = {a, b}
  MaxTurns = 2
  MaxVersion = 5
  MaxOther = 2
  MaxGeneration = 1
  MaxStreams = 2
  MaxChunks = 2
SYMMETRY Symmetry
INVARIANTS
  SpeakingHasTurn
  BargeInsHappened
  
  BargeInSilences
PROPERTIES
  TurnsAreFenced
CHECK_DEADLOCK FALSE
