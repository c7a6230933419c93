SPECIFICATION SceneSpec
CONSTANTS
    Keys = {k1, k2}
    Actions = {a1}
    Hashes = {h3}
    h1 = h1
    h2 = h2
    h3 = h3
    h4 = h4
    l1 = l1
    Approvals = {p1}
    Principals = {u1}
    Lines = {}
    Tokens = {}
    MaxNeeded = 1
    Lease = 1
    SuspendTimeout = 2
    ApprovalTTL = 1
    ClockLag = 0
    MaxAttempt = 1
    MaxTime = 1
    NoAction = NoAction
    NoToken = NoToken
    NoHash = NoHash
    Nobody = Nobody
    Worlds = {Open}
    NoPrint = NoPrint
    NoKey = NoKey
    NoApproval = NoApproval
    Cost <- UnitCost
    Budgets = {}
CHECK_DEADLOCK FALSE
INVARIANT NoSelfApproval
