SPECIFICATION Spec
CONSTANTS
    Keys = {}
    Pruners = {p1, p2}
    Anchorers = {a1}
    Holds = {}
    OneWriter = FALSE
    Window = 1
    OlderThan = 2
    AnchorEmpty = FALSE
    MaxSeq = 4
    MaxAttempt = 0
    MaxAnchors = 2
    MaxDamage = 0
    MaxTime = 0
    NoHash = NoHash
    NoOne = NoOne
    p1 = p1
    a1 = a1
    p2 = p2
SYMMETRY AlikePruners
 
INVARIANT CacheIsHonest
 
INVARIANT ErasureIsWitnessed
PROPERTY KeepsEvidence
CHECK_DEADLOCK FALSE
CONSTRAINT Pairwise
