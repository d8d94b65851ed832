SPECIFICATION Spec
CONSTANTS
    Tasks = {t1, t2, t3}
    Keys = {k1}
    NoTask = NoTask
    maxDepthPerKey = 3
    Timed = TRUE
INVARIANT
    SerialPerKey
CHECK_DEADLOCK FALSE
