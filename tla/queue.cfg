SPECIFICATION FairSpec
CONSTANTS
    Producers = {p1, p2}
    Consumers = {c1, c2}
    Items = {a, b}
    Capacity = 2
    Rounds = 2
    NoItem = NoItem
INVARIANTS TypeOK PermitGivesTicket PermitsAccounted
PROPERTIES IsFifo Delivered
CHECK_DEADLOCK FALSE
