SPECIFICATION FairSpec
CONSTANTS
    j1 = j1
    o1 = o1
    o2 = o2
    p1 = p1
    NoOne = NoOne
    Jobs = {j1}
    Owners = {o1, o2}
    Procs = {p1}
    MaxActive = 1
    MaxFaults = 1
    MaxRequests = 2
    MaxEvents = 2
CHECK_DEADLOCK FALSE
INVARIANTS
    TypeOK
    DiscardingIsTerminal
    NoOrphanFiles
    OneRunnerPerProcess
    PendingHasThread
    GraphSettledWhenCompleted
PROPERTIES
    ImportsFinish
    ParkedLeaseIsTakenUp
