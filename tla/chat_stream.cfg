SPECIFICATION FairStreamSpec
CONSTANTS
  Turns = 2
  MaxDeltas <- Deltas
  MaxStops = 1
  MaxVoice = 1
CHECK_DEADLOCK FALSE
INVARIANTS
  ConsoleIsTrue
  SettlementMatchesAnswer
PROPERTIES
  TurnsEnd
