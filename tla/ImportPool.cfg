SPECIFICATION FairSpec
CONSTANTS
    c1 = c1
    c2 = c2
    c3 = c3
    c4 = c4
    c5 = c5
    w1 = w1
    w2 = w2
    NoOne = NoOne
    Workers = {w1, w2}
    Chunks = {c1, c2, c3, c4, c5}
    Groups <- TwoGroups
    Children <- SplitFirst
    Troubled = {c1}
    Target = 2
    MaxAttempts = 2
    MaxFaults = 1
CHECK_DEADLOCK FALSE
INVARIANTS
    TypeOK
    PermitsAreHeld
    
    CountsSettle
PROPERTIES
    CooldownIsServed
    PoolEnds
