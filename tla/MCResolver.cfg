SPECIFICATION FairSpec
CONSTANTS
  a = a
  b = b
  c1 = c1
  c2 = c2
  A = A
  AAAA = AAAA
  i1 = i1
  i2 = i2
  Names = {a, b}
  Ctxs = {c1, c2}
  Ttls = {0}
  Resend = 1
  Expire = 1
  MaxRec = 1
  Nil = Nil
  Scenarios <- Operation
INVARIANTS ListsExact
PROPERTIES NothingStays
