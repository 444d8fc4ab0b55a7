SPECIFICATION Spec
CONSTANTS
    Ints = {"1", "2"}
    Floats = {"1.0", "2.0", "2.5"}
    HugeInts = {}
    Strings <- MCStrings
    Escapes <- MCEscapes
    Documents <- MCDocuments
    Extensions <- MCExtensions
    MaxSteps = 3
INVARIANTS
    PrintedSchemasBuildBack
    ExtendingIsMerging
    ClientKnowsTheServer
CHECK_DEADLOCK FALSE
