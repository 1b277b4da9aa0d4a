SPECIFICATION EdgesSpec
CONSTANTS
    f1 = f1
    f2 = f2
    f3 = f3
    x1 = x1
    x2 = x2
    x3 = x3
    i1 = i1
    google = google
    github = github
    e1 = e1
    NoEmail = NoEmail
    None = None
    Identities <- MCIdentities
    Flows = {f1, f2, f3}
    Actors = {x1, x2, x3}
    Invites = {i1}
    MaxCallbacks = 2
    r1 = r1
    r2 = r2
    c1 = c1
    c2 = c2
    t1 = t1
    w1 = w1
    w2 = w2
    Hosts = {r1, r2}
    Sockets = {c1, c2, t1}
    Dashboards = {t1}
    Below = {c2, w2}
    Readers = {w1, w2}
    BroadcastCap = 1
    PageLimit = 2
    TailLimit = 3
    Settings <- MCSettings
    d1 = d1
    d2 = d2
    q1 = q1
    n1 = n1
    Asks = {d1, d2}
    Sources = {q1}
    Notes = {n1}
    NoCopy = NoCopy
    Loads <- MCLoads
    MaxRestarts = 1
    a1 = a1
    a2 = a2
    Policies <- MCPolicies
    Callers = {a1, a2}
    IdleTTL = 4
    MaxStall = 1
    MaxClock = 9
    k1 = k1
    k2 = k2
    p1 = p1
    p2 = p2
    AgeKeys = {k1, k2}
    StateFiles = {s1, s2}
    Bundle = bundle
    Env = env
    Commands = {p1, p2}
    MaxEpochs = 3
    Practices <- MCPractices
INVARIANTS MailboxReached HandedOver NothingSkipped DelegatedVerdict QuotaKept RotationSafe
CHECK_DEADLOCK FALSE
