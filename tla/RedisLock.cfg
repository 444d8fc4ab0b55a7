\* Nobody outlives a lease and nobody is interrupted; any connection may break.
SPECIFICATION Spec
CONSTANTS
    Threads = {t1, t2, t3}
    TOTAL = 3
    None = None
    Overrunning = {}
    Faulty = {t1, t2, t3}
    Interrupted = {}
INVARIANTS
    MutualExclusion
PROPERTIES
    CountsLikeOneCounter
