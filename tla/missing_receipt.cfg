SPECIFICATION KernelSpec
CONSTANTS
    Keys = {k1}
    Actions = {c1, c2}
    Hashes = {h1}
    Approvals = {}
    Principals = {}
    Lines = {}
    Tokens = {}
    MaxNeeded = 1
    Lease = 1
    SuspendTimeout = 2
    ApprovalTTL = 1
    ClockLag = 1
    MaxAttempt = 3
    MaxTime = 2
    NoAction = NoAction
    NoToken = NoToken
    NoHash = NoHash
    Nobody = Nobody
    Calls = {c1, c2}
    Resumers = {}
    Ceiling = 3
    HasHook = FALSE
    Eager = FALSE
    NoKey = NoKey
    NoApproval = NoApproval
    h1 = h1
    h2 = h2
    k1 = k1
    k2 = k2
    l1 = l1
    c1 = c1
    c2 = c2
    c3 = c3
    c4 = c4
    s1 = s1
    Cost <- NoCost
    Budgets <- NoBudgets
    ActionOf <- OwnAction
    HashOf <- SameHash
    KeyOf <- SameKey
    Decisions <- Allowed
CHECK_DEADLOCK FALSE
INVARIANTS
    EveryRefusalLeavesReceipt
