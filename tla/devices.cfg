SPECIFICATION DevicesSpec
CONSTANTS
    Requests = {r1, r2, r3}
    NoRequest = NoRequest
    QueueCapacity = 2
    ring_entries = 2
    max_submits_ = 2
    SinkRequests = {s1, s2, s3}
INVARIANTS TypeOK SqeAvailable ReferredAlive SinkTypeOK IssuedInOrder NoUseAfterAnswer
PROPERTIES IsDevice Returns Told
CHECK_DEADLOCK FALSE
