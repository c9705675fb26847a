SPECIFICATION Spec
CONSTANTS
    Producers = {p1, p2}
    Words = 4
    Sizes = {8}
    Helpers = {"output"}
    MaxRecords = 3
INVARIANTS ReservationsDisjoint
