SPECIFICATION FairSpec
CONSTANTS
    Producers = {p1}
    Words = 4
    Sizes = {0, 9, 32}
    Helpers = {"output", "reserve"}
    MaxRecords = 4
INVARIANTS TypeOK NeverOverrun BoundariesIntact
PROPERTIES DeliveredIntact HasDataStable RecordsReleased IsQueue
