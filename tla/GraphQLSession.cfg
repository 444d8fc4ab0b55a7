SPECIFICATION Spec
CONSTANTS
    Ints = {"1", "99999999999"}
    Floats = {"1.5"}
    HugeInts = {"99999999999"}
    Truncated <- MCTruncated
    Strings <- MCStrings
    types <- MCTypes
    queryType = "Query"
    mutationType = "Mutation"
    directives <- MCDirectives
    Resolved <- MCResolved
    Inputs <- MCInputs
    Tokens <- MCTokens
    Snippets <- MCSnippets
    Fragments <- MCFragments
    Declaring <- MCDeclaring
    JsonTokens <- MCJsonTokens
    JsonTexts <- MCJsonTexts
    MaxTyped = 4
    MaxJson = 6
    MaxDefinitions = 2
INVARIANTS
    ColoursFollowTheParser
    PrintedQueriesParseBack
    HintsAgreeWithTheValidation
    ValidQueriesAreExecutedAsTyped
    FragmentCyclesAreFound
    FilledQueriesAreNoWorse
    LintedVariablesAreTaken
CHECK_DEADLOCK FALSE
