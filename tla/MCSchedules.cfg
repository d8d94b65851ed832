SPECIFICATION MCSpec
CONSTANTS
    Reqs = {r1}
    Attempts = {a1}
    Workers = {w1, w2}
    None = None
    Price = 2
    Default = 2
    Reward = 1
    ResetTo = 2
    Serialised = TRUE
    Redis = TRUE
    MaxDay = 1
    MaxAdmin = 1
    MaxCrashes = 0
    Off = Off
    a1 = a1
    a2 = a2
    c1 = c1
    c2 = c2
    e1 = e1
    g1 = g1
    i1 = i1
    p1 = p1
    p2 = p2
    r1 = r1
    r2 = r2
    t1 = t1
    t2 = t2
    t3 = t3
    w1 = w1
    w2 = w2
INVARIANTS
    BalanceAccounts
    
    
    FiresOnce
    RunningListed
    
    ClaimedOnce
    NotMissed
    AnsweredThemselves
    
CHECK_DEADLOCK FALSE
