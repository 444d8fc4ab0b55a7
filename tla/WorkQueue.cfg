\* Two consumers, one of which may die, three tasks, and one restart of the broker.
SPECIFICATION FairSpec
CONSTANTS
    Tasks = {m1, m2, m3}
    Workers = {w1, w2}
    None = None
    MaxCrashes = 1
    MaxRestarts = 1
INVARIANTS
    NoTaskLost
    RepeatsNeedFailures
    BusyWorkerGetsNothing
PROPERTIES
    EveryTaskIsWorked
