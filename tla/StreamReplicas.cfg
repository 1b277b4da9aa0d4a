SPECIFICATION StreamSpec
CONSTANTS
    r1 = r1
    r2 = r2
    c1 = c1
    c2 = c2
    Hosts = {r1, r2}
    Sockets = {c1, c2}
    Dashboards = {}
    Below = {}
    Readers = {}
    BroadcastCap = 1
    PageLimit = 1
    TailLimit = 1
    Settings <- TwoReplicas
INVARIANT NotifiedAcross
CHECK_DEADLOCK FALSE
