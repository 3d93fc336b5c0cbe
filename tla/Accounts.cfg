SPECIFICATION Spec
CONSTANTS
    s1 = s1
    s2 = s2
    s3 = s3
    p1 = p1
    p2 = p2
    u1 = u1
    u2 = u2
    e1 = e1
    e2 = e2
    t1 = t1
    t2 = t2
    t3 = t3
    k1 = k1
    k2 = k2
    main = main
    other = other
    None = None
    Slots = {s1, s2}
    Procs = {p1, p2}
    Users = {u1, u2}
    Emails = {e1, e2}
    Tokens = {t1, t2, t3}
    Keys = {k1, k2}
    Projects = {main, other}
    Default = main
    Limit = 1
    CacheLimit = 1
    Worlds <- FreshOrRunning
    MaxRequests = 4
SYMMETRY Symmetry
CHECK_DEADLOCK FALSE
INVARIANTS
    TypeOK
    OneTokenPerSession
    PasswordChangeRevokes
    DeadKeyIsRejected
    QuotaOvershoot
