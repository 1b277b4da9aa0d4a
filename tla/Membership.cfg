SPECIFICATION FairSpec
CONSTANTS
    s1 = s1
    s2 = s2
    s3 = s3
    a = a
    b = b
    c = c
    q1 = q1
    q2 = q2
    i1 = i1
    p1 = p1
    w1 = w1
    w2 = w2
    None = None
    Sessions = {s1, s2, s3}
    Actors = {a, b, c}
    Requests = {q1, q2}
    Invites = {i1}
    Plans = {p1}
    Sweepers = {w1, w2}
    Scenes <- MCScenes
INVARIANTS GrantedOnce OneOwnerUnlessStale
PROPERTIES PlansSettle
CHECK_DEADLOCK FALSE
