SPECIFICATION FairSpec
CONSTANTS
    o = o
    g = g
    c1 = c1
    p1 = p1
    s1 = s1
    d1 = d1
    b1 = b1
    b2 = b2
    none = none
    Actors = {o, g}
    CapIds = {c1}
    Approvals = {p1}
    Bundles <- MCBundles
    Sagas <- MCSagas
    NoApproval = none
    Scenes <- MCScenes
    MaxRows = 6
    MaxArrivals = 2
    MaxRestarts = 1
    MaxMissed = 2
INVARIANTS CompensatedExactly  GateHolds
PROPERTIES SourceDecidedOnce SagaEnds
CHECK_DEADLOCK FALSE
