SPECIFICATION FairPostgresSpec
CONSTANTS
    Keys = {k1, k2}
    Actions = {a1, a2}
    Hashes = {h1, h2}
    Approvals = {p1}
    Principals = {u1, u2}
    Lines = {1, 2}
    Tokens = {t1}
    MaxNeeded = 2
    Lease = 1
    SuspendTimeout = 2
    ApprovalTTL = 1
    ClockLag = 2
    MaxAttempt = 3
    MaxTime = 2
    NoAction = NoAction
    NoToken = NoToken
    NoHash = NoHash
    Nobody = Nobody
    NoKey = NoKey
    NoApproval = NoApproval
    MaxTries = 2
    Clients = {c1, c2, c3}
    c1 = c1
    c2 = c2
    c3 = c3
    k1 = k1
    k2 = k2
    a1 = a1
    a2 = a2
    h1 = h1
    h2 = h2
    p1 = p1
    u1 = u1
    u2 = u2
    Cost <- TwoCharges
    Budgets <- OneAtATime
    Casts <- AllCasts
CHECK_DEADLOCK FALSE
INVARIANTS
    
    AnswersAreTrue
    OneTakePerValue
PROPERTIES
    PostgresImplementsStore
    EveryOperationEnds
ACTION_CONSTRAINTS
    Question
    Clock
