SPECIFICATION MCSpec
CONSTANTS
    r1 = r1
    r2 = r2
    r3 = r3
    k1 = k1
    k2 = k2
    n1 = n1
    n2 = n2
    a1 = a1
    a2 = a2
    a3 = a3
    Keys = {k1, k2}
    Nodes = {n1, n2}
    N = 2
    Limit <- TwoAndOne
    Nil = Nil
    Requests = {r1, r2, r3}
    MaxLost = 1
    Rates <- RateLimits
    Workers = {r1, r2, r3}
    Unit = 2
    Boot = 2
    Seekers = {r1, r2}
    Addrs = {a1, a2, a3}
    Memory = {1, 2, 3}
SYMMETRY Symmetry
INVARIANTS ConnLimitsExact RateLimitsExact PeersExact
PROPERTIES PicksSound
