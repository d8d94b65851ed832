SPECIFICATION Spec
CONSTANTS
    Deliveries = {d1, d2}
    Events = {e1}
    Replies = {v1}
    None = None
    LeaseCovers = FALSE
PROPERTY StoredBeforeReturned
CHECK_DEADLOCK FALSE
