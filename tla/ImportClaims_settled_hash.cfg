SPECIFICATION Spec
CONSTANTS
    j1 = j1
    j2 = j2
    k1 = k1
    k2 = k2
    k3 = k3
    k4 = k4
    h1 = h1
    h2 = h2
    h3 = h3
    r1 = r1
    r2 = r2
    NoOne = NoOne
    Jobs = {j1}
    Runs = {r1, r2}
    Keys = {k1}
    Hashes = {h1}
    Source <- OneChunk
    Children <- NoSplit
    Facts <- AllFacts
    Stored <- NothingStored
    MaxAttempts = 2
    Faults = {}
    MaxFaults = 0
    MaxRequests = 0
SYMMETRY Symmetry
CHECK_DEADLOCK FALSE
INVARIANTS
    StoredHashIsSettled
