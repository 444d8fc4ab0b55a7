\* The broker may refuse messages and the connection may break twice.
SPECIFICATION FairSpec
CONSTANTS
    N = 4
    MayNack = TRUE
    MaxOutages = 2
INVARIANTS
    UnconfirmedSetIsExact
    ClosedMeansDecided
PROPERTIES
    SenderLearnsOutcome
