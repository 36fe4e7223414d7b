SPECIFICATION PartsSpec
CONSTANTS
    a1 = a1
    a2 = a2
    g1 = g1
    c1 = c1
    c2 = c2
    s1 = s1
    s2 = s2
    x1 = x1
    e1 = e1
    e2 = e2
    wA = wA
    wB = wB
    wC = wC
    petA = petA
    petB = petB
    p1 = p1
    p2 = p2
    w1 = w1
    w2 = w2
    t1 = t1
    t2 = t2
    t3 = t3
    k1 = k1
    k2 = k2
    q1 = q1
    m1 = m1
    m2 = m2
    Agents = {a1, a2}
    Provisioned = {a1}
    Bindable = {g1}
    ConfigBindings <- BoundToOne
    Codes = {c1, c2}
    MaxCredentials = 2
    Sites = {s1, s2}
    Subjects = {x1}
    Serves <- ServedBy
    Capabilities <- OneCapability
    PolicyRows <- OneRow
    ConfigPolicies = {}
    Ttl = 2
    PeerTokens <- RotatedTo
    Executors = {e1, e2}
    Lease = 8
    RenewEvery = 2
    Delay = 1
    Watch = 1
    Accounts = {wA, wB, wC}
    Pets = {petA, petB}
    PetOf <- SignsInAs
    ConfiguredPets = {petA}
    AccountOf <- Named
    MaxLogins = 2
    MaxPasswords <- Changes
    Processes = {p1, p2}
    Last = 3
    Workers = {w1, w2}
    MaxClaims = 2
    LeaseTime = 8
    RequestTime = 1
    DispatchTime = 1
    WaitTime = 2
    Teams = {t1, t2, t3}
    Order <- ConfiguredOrder
    ServerOf <- OnServer
    WorkPanels = {s1}
    Commands = {k1, k2}
    Prompts = {q1}
    Messages = {m1, m2}
    MessageTtl = 1
    TerminalAge = 1
    RateWindow = 1
    Rate = 2
    MaxInflight = 1
    MaxDeadLetters = 1
    MaxLeases = 2
    LastTick = 3
INVARIANTS
    TypesOK
    CredentialsAreFenced
    RouteIsRecent
    ChildKeepsToItsLease
    PetIsItself
    OnePromptOneReply
    LogTellsTruth
    FlagsAgree
    BacklogIsBounded
PROPERTIES
    ComebackNeedsProof
    RevokedStaysOut
    BackupIsOfTheOld
    ImplementsSerialUpgrade
CONSTRAINT OneSignsIn
CHECK_DEADLOCK FALSE
