SPECIFICATION SceneSpec
CONSTANTS
    Agents = {a1, a2}
    Anyone = Anyone
    Acts = {x, y}
    Tasks = {u}
    NoTask = NoTask
    GrantIds = {root}
    EnvelopeIds = {envelope}
    Documents <- TwoDocuments
    Offers <- SomeOffers
    Openers = {o1}
    Calls = {c1, c2}
    Asks <- SomeAsks
    NoHop = NoHop
    Nothing = Nothing
    MaxDelegations = 2
    MaxTime = 2
    a1 = a1
    a2 = a2
    x = x
    y = y
    u = u
    root = root
    envelope = envelope
    c1 = c1
    c2 = c2
    Threads = {t1, t2}
    Credentials = {g1, g2}
    Kids = {q1, q2}
    KidOf <- SignedByOne
    Setups <- OneSourceEach
    MaxStaleness = 2
    PollInterval = 1
    MinRefresh = 1
    Slowness = 1
    LastMoment = 4
    NoCredential = NoCredential
    g1 = g1
    g2 = g2
    q1 = q1
    q2 = q2
SYMMETRY AlikeThreads
CHECK_DEADLOCK FALSE
INVARIANTS
    Attenuated
    NobodyOverspends
    OneLegAfterTheCut
PROPERTIES
    WholeChainPermits
    BlindnessIsBounded
    
