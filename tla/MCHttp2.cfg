SPECIFICATION FairSpec
CONSTANTS
    NStreams = 3
    DefaultWindow = 2
    MaxWindow = 4
    FrameSize = 2
    Concurrent = 2
    KeepaliveRequests = 3
    Preread = 1
    BodyBuffer = 2
    Room = 3
    Scenarios <- MCScenarios
INVARIANTS StreamsKept FlowControlExact
PROPERTY ConnectionEnds
