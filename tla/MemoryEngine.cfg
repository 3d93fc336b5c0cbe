SPECIFICATION Spec
CONSTANTS
    a = a
    b = b
    c1 = c1
    c2 = c2
    c3 = c3
    p1 = p1
    p2 = p2
    Texts = {a, b}
    Absent = Absent
    NoVec = NoVec
    NoOne = NoOne
    Stores <- MCStores
    Clients = {c1, c2, c3}
    Procs = {p1, p2}
    Proc <- MCProc
    Requests <- MCRequests
    Rank <- MCRank
    Seeded = {b}
    BatchSize = 1
    MaxCrashes = 1
    MaxLost = 1
SYMMETRY Symmetry
INVARIANTS
    TypeOK
    
    HistoryAccounts
    CleanVector
    RollbackRestores
CHECK_DEADLOCK FALSE
