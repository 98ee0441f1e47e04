SPECIFICATION FairSpec
CONSTANTS
    ChannelSize = 1
    Scenarios <- Operation
CHECK_DEADLOCK FALSE
INVARIANTS ChildrenKnown
PROPERTIES CommandsObeyed MasterMovesOn
