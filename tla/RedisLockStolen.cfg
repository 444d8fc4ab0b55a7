SPECIFICATION Spec
CONSTANTS
    Threads = {t1, t2}
    TOTAL = 2
    None = None
    Overrunning = {t1}
    Faulty = {}
    Interrupted = {}
PROPERTIES
    UnlockOnlyByOwner
