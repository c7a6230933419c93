SPECIFICATION FairKernelSpec
CONSTANTS
    Keys = {k1}
    Actions = {c1, c2, c3, e1}
    Hashes = {h1, h2}
    Approvals = {p1, p2}
    Principals = {}
    Lines = {l1}
    Tokens = {t1}
    MaxNeeded = 1
    Lease = 1
    SuspendTimeout = 2
    ApprovalTTL = 1
    ClockLag = 1
    MaxAttempt = 3
    MaxTime = 2
    NoAction = NoAction
    NoToken = NoToken
    NoHash = NoHash
    Nobody = Nobody
    Calls = {c1, c2, c3, e1}
    Resumers = {s1}
    Ceiling = 1
    HasHook = TRUE
    Eager = TRUE
    NoKey = NoKey
    NoApproval = NoApproval
    h1 = h1
    h2 = h2
    k1 = k1
    k2 = k2
    l1 = l1
    c1 = c1
    c2 = c2
    c3 = c3
    c4 = c4
    s1 = s1
    Cost <- DearCosts
    Budgets <- LessThanThat
    ActionOf <- OwnAction
    HashOf <- DearIsAnother
    KeyOf <- OneKeyContended
    Decisions <- DearIsFree
ACTION_CONSTRAINT OneScene
CHECK_DEADLOCK FALSE
INVARIANTS
    CeilingHolds
PROPERTIES
    EveryCallEnds
    KernelImplementsStore
