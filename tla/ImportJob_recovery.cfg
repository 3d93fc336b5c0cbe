SPECIFICATION Spec
CONSTANTS
    j1 = j1
    o1 = o1
    o2 = o2
    p1 = p1
    NoOne = NoOne
    Jobs = {j1}
    Owners = {o1, o2}
    Procs = {p1}
    MaxActive = 1
    MaxFaults = 0
    MaxRequests = 1
    MaxEvents = 1
CHECK_DEADLOCK FALSE
PROPERTIES
    CompletedStays
