SPECIFICATION Spec
CONSTANTS
    j1 = j1
    j2 = j2
    k1 = k1
    k2 = k2
    k3 = k3
    k4 = k4
    h1 = h1
    h2 = h2
    h3 = h3
    r1 = r1
    r2 = r2
    NoOne = NoOne
    Jobs = {j1, j2}
    Runs = {r1, r2}
    Keys = {k1, k2}
    Hashes = {h1, h2, h3}
    Source <- OneChunk
    Children <- NoSplit
    Facts <- AllFacts
    Stored <- ThirdStored
    MaxAttempts = 2
    Faults = {"crash", "break"}
    MaxFaults = 1
    MaxRequests = 1
SYMMETRY HashSymmetry
CHECK_DEADLOCK FALSE
INVARIANTS
    TypeOK
    SettledHashIsStored
    ClaimIsHeld
PROPERTIES
    ImportedOnce
CONSTRAINT FaultOrRequest
