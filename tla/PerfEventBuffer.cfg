SPECIFICATION FairSpec
CONSTANTS
    Writers = {w}
    DataSize = 8
    HeaderSize = 2
    Sizes <- PayloadSizes
    MaxRecords = 5
INVARIANTS
    TypeOK
    NeverFull
    DeliveredInOrder
PROPERTY EventuallyDelivered
CHECK_DEADLOCK FALSE
