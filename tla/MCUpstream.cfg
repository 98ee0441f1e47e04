SPECIFICATION FairSpec
CONSTANTS
  r1 = r1
  r2 = r2
  a1 = a1
  a2 = a2
  Requests = {r1, r2}
  Addrs = {a1, a2}
  Conns = {1, 2, 3}
  Scenarios <- Operation
INVARIANTS ConnectionsKept ExchangeSound
PROPERTIES RequestsEnd
CHECK_DEADLOCK FALSE
