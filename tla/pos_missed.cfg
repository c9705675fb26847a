CONSTANTS
    h1 = h1
    h2 = h2
    Handles <- TwoHandles
    NoHandle = NoHandle
    MaxCalls = 2
    MaxEvents = 2
    MaxReplies = 2
SPECIFICATION Spec
INVARIANT NothingMissed
CHECK_DEADLOCK FALSE
