SPECIFICATION Spec
CONSTANTS
    Requests = {r1, r2, r3}
    Events = {e1}
    Workers = {w1, w2}
    None = None
    Direct = Direct
    LockSpans = TRUE
    MaxEpoch = 1
SYMMETRY Symmetry
INVARIANTS
    NoSecondFullReply
PROPERTIES
    ImplementsEventOnce
CHECK_DEADLOCK FALSE
