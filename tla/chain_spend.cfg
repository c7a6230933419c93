SPECIFICATION Spec
CONSTANTS
    Keys = {k1}
    Pruners = {p1}
    Anchorers = {}
    Holds = {h1}
    OneWriter = TRUE
    Window = 1
    OlderThan = 2
    AnchorEmpty = FALSE
    MaxSeq = 4
    MaxAttempt = 1
    MaxAnchors = 1
    MaxDamage = 1
    MaxTime = 3
    NoHash = NoHash
    NoOne = NoOne
    k1 = k1
    p1 = p1
    h1 = h1
PROPERTY SpendSurvives
 
INVARIANT LossIsReported
PROPERTY PruneAddsNoBreak
CHECK_DEADLOCK FALSE
CONSTRAINT Apart
