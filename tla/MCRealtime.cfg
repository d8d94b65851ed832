SPECIFICATION MCSpec
CONSTANTS
    Jobs = {d1, d2}
    None = None
    MaxAsync = 1
    MaxConcurrent = 1
    Modes = {"background", "foreground"}
    MaxDelegating = 1
    MaxTurns = 4
    MaxUserTurns = 0
    MaxStops = 1
    MaxFaults = 1
    MaxAborts = 0
    MaxErrors = 0
    MaxRefused = 0
    Off = Off
    a = a
    a1 = a1
    b = b
    c1 = c1
    c2 = c2
    d1 = d1
    d2 = d2
    e1 = e1
    e2 = e2
    j1 = j1
    j2 = j2
    m1 = m1
    m2 = m2
    m3 = m3
    m4 = m4
    main = main
    r1 = r1
    r2 = r2
    s1 = s1
    t1 = t1
    u1 = u1
    u2 = u2
    u3 = u3
    w1 = w1
    w2 = w2
INVARIANTS
    RoomsAreListed
    SequenceTells
    ActiveIsEnrolled
    
    CacheIsHash
    Settles
    
    WellOrdered
    Forest
    StoresAgree
    SlotsBalance
    AnsweredOnce
    NotStranded
PROPERTIES
    JoinSubscribed
    ReplyKept
CHECK_DEADLOCK FALSE
