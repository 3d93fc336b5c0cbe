SPECIFICATION FairSpec
CONSTANTS
    Writers = {add, admin, other, import}
    Memories = {m1, m2, m3, m4}
    Policies = {org, prj1}
    Organizations = {org}
    Projects = {p1, p2}
    Procs = {a, b}
    Deletable = {m1, m4}
    NoOne = NoOne
    Project <- MCProject
    Covers <- MCCovers
    Limit <- MCLimit
    Resource <- MCResource
    Snapshot <- MCSnapshot
    Proc <- MCProc
    Kind <- MCKind
    Key <- MCKey
    Want <- MCWant
    add = add
    admin = admin
    other = other
    import = import
    m1 = m1
    m2 = m2
    m3 = m3
    m4 = m4
    p1 = p1
    p2 = p2
    a = a
    b = b
    org = org
    prj1 = prj1
    s1 = s1
    s2 = s2
INVARIANTS
    TypeOK
    LimitHolds
    OneWriterPerKey
    NothingLeftBehind
PROPERTIES
    ImplementsLedger
    WritesEnd
CHECK_DEADLOCK FALSE
