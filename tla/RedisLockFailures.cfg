\* Everything goes wrong: leases run out under their owners, all may be
\* interrupted, two of the three connections may break.
SPECIFICATION FairSpec
CONSTANTS
    Threads = {t1, t2, t3}
    TOTAL = 2
    None = None
    Overrunning = {t1, t2, t3}
    Faulty = {t1, t2}
    Interrupted = {t1, t2, t3}
INVARIANTS
    NothingLeftToCount
PROPERTIES
    UnlockOnlyByOwnerInTime
    EveryThreadEnds
    LockIsFreedInTheEnd
