SPECIFICATION Spec
CONSTANTS
    Main = main
    Subs = {s1}
    Nil = nil
    AioReqs = {main, s1}
    MaxChunks <- Chunks
    MaxUnarmed = 1
INVARIANTS CountNeverBelowZero
