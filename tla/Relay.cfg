SPECIFICATION FairSpec
CONSTANTS
    r1 = r1
    r2 = r2
    s1 = s1
    b1 = b1
    b2 = b2
    None = None
    Replicas = {r1, r2}
    Sessions = {s1}
    Bundles <- MCBundles
    MaxAttempts = 2
    Scenes <- MCScenes
INVARIANTS Conserved WatermarkCovers
PROPERTIES Arrives
CHECK_DEADLOCK FALSE
