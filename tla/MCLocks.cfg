SPECIFICATION MCSpec
CONSTANTS
    Procs = {p1, p2, p3}
    NoOwner = NoOwner
    Reaper = reaper
    MaxFaults <- OneOrTwo
    MaxDeaths = 1
    Tasks = {k1, k2, k3}
    Exit = Exit
    NoTask = NoTask
    MaxQueue = 1
    MaxPosts = 4
    MaxSpurious = 1
INVARIANTS WakeupsExact HoldersExact SignalsExact OnePlace
PROPERTIES WaitersMoveOn ImplementsSharedLock
CHECK_DEADLOCK FALSE
