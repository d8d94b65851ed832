SPECIFICATION FairSpec
CONSTANTS
    Tasks = {t1, t2, t3, t4}
    Keys = {k1, k2}
    NoTask = NoTask
    maxDepthPerKey = 2
    Timed = TRUE
INVARIANTS
    SerialUnlessTimedOut
PROPERTIES
    AdmittedLeaves
CHECK_DEADLOCK FALSE
