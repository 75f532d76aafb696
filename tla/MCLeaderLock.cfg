SPECIFICATION Spec
CONSTANTS
    c1 = c1
    c2 = c2
    s1 = s1
    s2 = s2
    s3 = s3
    s4 = s4
    Conductor <- MCConductor
    Session <- MCSession
    PoolLimit = 2
    ReentryBound = 2
    CrashBound = 2
    None = None
SYMMETRY MCSymmetry
INVARIANTS LockMeansLeader
