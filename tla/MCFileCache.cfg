SPECIFICATION MCSpec
CONSTANTS
  r1 = r1
  r2 = r2
  r3 = r3
  k1 = k1
  k2 = k2
  Requests = {r1, r2, r3}
  Keys = {k1, k2}
  Slots = {1, 2}
  MaxDrift = 3
  Scenarios <- Operation
  Num = 2
  Size = 2
  BusySize = 2
  WriteSize = 2
  Room = 1
  Transfers <- Ways
INVARIANTS EntriesKept PipeExact
PROPERTIES CacheMovesOn PipeEnds
CHECK_DEADLOCK FALSE
