SPECIFICATION MCSpec
CONSTANTS
  Workers = {w1, w2}
  ConnN = 2
  AcceptShare = 1
  MaxClients = 3
  MaxErrors = 2
  MaxCrashes = 1
  MaxQuits = 1
  N = 3
  Listening = 1
  MaxSockets = 4
  LowShare = 2
  ReuseShare = 1
  ReuseMax = 2
  CallSets <- Calls
INVARIANTS FlagsExact EventReachesItsSocket TableExact
PROPERTIES BacklogDrains
CHECK_DEADLOCK FALSE
