SPECIFICATION GatewaySpec
CONSTANTS
    Keys = {k1, k2}
    Actions = {d1}
    Hashes = {h1, h2}
    Approvals = {p1, p2}
    Principals = {}
    Lines = {l1}
    Tokens = {t1}
    MaxNeeded = 1
    Lease = 1
    SuspendTimeout = 1
    ApprovalTTL = 1
    ClockLag = 0
    MaxAttempt = 3
    MaxTime = 3
    NoAction = NoAction
    NoToken = NoToken
    NoHash = NoHash
    Nobody = Nobody
    Calls = {d1}
    Resumers = {s1}
    Ceiling = 3
    HasHook = FALSE
    Eager = FALSE
    NoKey = NoKey
    NoApproval = NoApproval
    h1 = h1
    h2 = h2
    k1 = k1
    k2 = k2
    l1 = l1
    c1 = c1
    c2 = c2
    c3 = c3
    c4 = c4
    e1 = e1
    d1 = d1
    d2 = d2
    p2 = p2
    MaxRounds = 1
    Cost <- FirstCosts
    Budgets <- OneAtATime
    ActionOf <- OwnAction
    HashOf <- OthersAreFree
    KeyOf <- Scattered
    Decisions <- RelaxedForFree
CHECK_DEADLOCK FALSE
INVARIANT ForwardsTheHeldAction
