SPECIFICATION Spec
CONSTANTS
    Requests = {r1, r2}
    Events = {e1}
    Workers = {w1, w2}
    None = None
    Direct = Direct
    LockSpans = TRUE
    MaxEpoch = 0
INVARIANT NoSecondModelReply
CHECK_DEADLOCK FALSE
