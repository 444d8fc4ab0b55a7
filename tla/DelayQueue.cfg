\* DelayProducer sends ten messages; four, with TTLs of 15, 10, 5 and 0 seconds, have all
\* the orders of publication, expiry and consumption.
SPECIFICATION FairSpec
CONSTANTS
    N = 4
INVARIANTS
    HeldBackByTheFirst
PROPERTIES
    EveryMessageArrives
