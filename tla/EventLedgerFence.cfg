SPECIFICATION Spec
CONSTANTS
    Requests = {r1, r2}
    Events = {e1}
    Workers = {w1, w2}
    None = None
    Direct = Direct
    LockSpans = TRUE
    MaxEpoch = 1
PROPERTY CompletedIsReplayed
CHECK_DEADLOCK FALSE
