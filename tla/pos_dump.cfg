CONSTANTS
    FirstCall = 8
    MaxCalls = 2
    MaxEvents = 2
    MaxReplies = 2
    Handles <- TwoHandles
SPECIFICATION FairSpec
INVARIANTS
    TypeOK
    CallsKept
    InOrder
    NoSyncWhileConfirming
    NoCallerAtRemoval
PROPERTIES
    FailuresReported
    SyncCallReturns
    DumpAnswered
CHECK_DEADLOCK FALSE
