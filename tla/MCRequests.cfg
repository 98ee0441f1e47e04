SPECIFICATION LiveSpec
CONSTANTS
    Main = main
    Subs = {s1, s2}
    Nil = nil
    AioReqs = {main, s1, s2}
    MaxChunks <- Chunks
    MaxUnarmed = 1
INVARIANTS ReferencesKept OutputExact
PROPERTIES Ends
