SPECIFICATION MCSpec
CONSTANTS
    Deliveries = {d1, d2, d3}
    Events = {e1}
    Replies = {v1, v2}
    None = None
    LeaseCovers = TRUE
    Off = Off
    c1 = c1
    c2 = c2
    c3 = c3
    d1 = d1
    d2 = d2
    d3 = d3
    e1 = e1
    v1 = v1
    v2 = v2
INVARIANTS
    CountersAgree
    WorkConserving
    SentUnderClaim
PROPERTIES
    NothingStartsAfterCancel
    StoredBeforeReturned
    RetryableIsReleased
CHECK_DEADLOCK FALSE
