SPECIFICATION LiveSpec
CONSTANTS
    Direct = Direct
    None = None
    Off = Off
    a = a
    a1 = a1
    a2 = a2
    c1 = c1
    c2 = c2
    d1 = d1
    d2 = d2
    e1 = e1
    j1 = j1
    j2 = j2
    main = main
    n1 = n1
    n2 = n2
    p1 = p1
    p2 = p2
    r1 = r1
    r2 = r2
    s1 = s1
    t1 = t1
    t2 = t2
    v1 = v1
    v2 = v2
    w1 = w1
    w2 = w2
PROPERTIES
    RequestsEnd
    OwedIsDone
    
    
CHECK_DEADLOCK FALSE
