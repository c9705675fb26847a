CONSTANTS
    h1 = h1
    h2 = h2
    Handles <- TwoHandles
    NoHandle = NoHandle
    MaxCalls = 2
    MaxEvents = 2
    MaxReplies = 2
SPECIFICATION FairSpec
INVARIANTS
    TypeOK
    SnapshotConsistent
    DumpComplete
PROPERTY DumpAnswered
CHECK_DEADLOCK FALSE
