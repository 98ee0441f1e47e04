SPECIFICATION MCSpec
CONSTANTS
    NStreams = 2
    Cap = 3
    MaxPackets = 3
    SendBuffer = 3
    PktThr = 2
    MaxAckGap = 2
    LeastWindow = 2
    Scenarios <- MCScenarios
    Pns = {0, 1, 2, 3, 4, 5, 6}
    NeedAck = {0, 2, 3, 5, 6}
    MaxCame = 5
    MaxRanges = 2
    MaxFrames = 2
    Units = 6
    BufferSize = 3
    Writes = 4
INVARIANTS NothingLost FlowExact ReceiptsExact
PROPERTY StreamsEnd
CHECK_DEADLOCK FALSE
