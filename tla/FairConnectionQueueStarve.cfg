SPECIFICATION Spec
CONSTANTS
    Connections = {c1, c2, c3}
    Sizes = {1, 2}
    maxGlobalActive = 2
    maxConnectionActive = 1
    maxGlobalQueued = 3
    maxConnectionQueued = 2
    maxQueuedBytes = 5
    MaxBypass = 3
INVARIANT
    RoundRobin
CHECK_DEADLOCK FALSE
