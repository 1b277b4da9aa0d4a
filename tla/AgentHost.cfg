SPECIFICATION FairSpec
CONSTANTS
    c1 = c1
    c2 = c2
    i1 = i1
    i2 = i2
    k1 = k1
    k2 = k2
    None = None
    Calls = {c1, c2}
    Ids = {i1, i2}
    Clients = {k1, k2}
    Scenes <- HostScenes
INVARIANTS UnderReceipt DeniedNeverRan
PROPERTIES Served DeadDetached
CHECK_DEADLOCK FALSE
