SPECIFICATION SceneSpec
CONSTANTS
    Keys = {k1, k2}
    Actions = {a1, a2}
    Hashes = {h1, h2, h3, h4}
    h1 = h1
    h2 = h2
    h3 = h3
    h4 = h4
    l1 = l1
    Approvals = {p1}
    Principals = {u1, u2}
    Lines = {l1}
    Tokens = {c1, c2}
    MaxNeeded = 2
    Lease = 1
    SuspendTimeout = 2
    ApprovalTTL = 1
    ClockLag = 1
    MaxAttempt = 2
    MaxTime = 3
    NoAction = NoAction
    NoToken = NoToken
    NoHash = NoHash
    Nobody = Nobody
    Worlds = {Open, Closed}
    NoPrint = NoPrint
    NoKey = NoKey
    NoApproval = NoApproval
    Cost <- UnitCost
    Budgets <- TwoWindows
SYMMETRY Alike
CHECK_DEADLOCK FALSE
INVARIANTS
    TypeOK
    QuorumBehindGrant
    ChargesFollowEffects
    OneChargePerAttempt
    WithinBudget
    CheckedInThisPass
    ApproversWereChecked
    NothingLeftToSpend
PROPERTIES
    AnswersAreFinal
    KeepsPromise
