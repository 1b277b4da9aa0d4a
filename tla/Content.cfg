SPECIFICATION FairSpec
CONSTANTS
    s1 = s1
    s2 = s2
    x = x
    y = y
    r1 = r1
    r2 = r2
    q1 = q1
    q2 = q2
    None = None
    Sessions = {s1, s2}
    Contents = {x, y}
    Receipts = {r1, r2}
    Requests = {q1, q2}
    MaxArtifacts = 4
    FetchLimit = 2
    MaxDeliveries = 2
    Scenes <- MCScenes
INVARIANTS PatchOverExpected EffectExactlyOnce RemoteNoGap
PROPERTIES OverdueSettles
CHECK_DEADLOCK FALSE
