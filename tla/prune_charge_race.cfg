SPECIFICATION Spec
CONSTANTS
    Keys = {k1}
    Pruners = {p1}
    Anchorers = {}
    Holds = {}
    OneWriter = FALSE
    Window = 1
    OlderThan = 2
    AnchorEmpty = FALSE
    MaxSeq = 4
    MaxAttempt = 2
    MaxAnchors = 1
    MaxDamage = 0
    MaxTime = 3
    NoHash = NoHash
    NoOne = NoOne
    k1 = k1
    p1 = p1
PROPERTY SpendSurvives
CHECK_DEADLOCK FALSE
