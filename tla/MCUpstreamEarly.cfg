SPECIFICATION Spec
CONSTANTS
  r1 = r1
  r2 = r2
  a1 = a1
  a2 = a2
  Requests = {r1, r2}
  Addrs = {a1, a2}
  Conns = {1, 2, 3}
  Scenarios <- EarlyAnswers
INVARIANTS HeaderOnce
CHECK_DEADLOCK FALSE
