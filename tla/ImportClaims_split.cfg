SPECIFICATION Spec
CONSTANTS
    j1 = j1
    j2 = j2
    k1 = k1
    k2 = k2
    k3 = k3
    k4 = k4
    h1 = h1
    h2 = h2
    h3 = h3
    r1 = r1
    r2 = r2
    NoOne = NoOne
    Jobs = {j1}
    Runs = {r1, r2}
    Keys = {k1, k2, k3, k4}
    Hashes = {h1, h2}
    Source <- OldChunkToo
    Children <- SplitFirst
    Facts <- AllFacts
    Stored <- SecondStored
    MaxAttempts = 2
    Faults = {"crash", "break", "error"}
    MaxFaults = 2
    MaxRequests = 1
SYMMETRY Symmetry
CHECK_DEADLOCK FALSE
INVARIANTS
    CompletedCovers
PROPERTIES
    SplitIsFinal
