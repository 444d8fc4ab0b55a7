SPECIFICATION Spec
CONSTANTS
    welcome = welcome
    empty = empty
    new = new
    leaf = leaf
    leafFilled = leafFilled
    both = both
    Unknown = Unknown
    Queries <- MCQueries
    Unparseable = Unknown
    operationsOf <- MCOperationsOf
    fillLeafs <- MCFillLeafs
    defaultQuery = welcome
    emptyQuery = empty
    undefined = undefined
    createName = "New"
    Links <- MCLinks
    null = null
    object = object
    spaced = spaced
    VariableTexts = {empty, null, spaced, object}
    formatted <- MCFormatted
    nullText = null
    DocsSizes = {60, 200, 800}
    VariableSizes = {40, 90}
    Flexes = {0, 2}
    typeNames <- MCTypeNames
    typeMap <- MCTypeMap
    rootTypes = {"Query"}
    Searches = {"", "d", "id"}
    noSearch = ""
    Found <- MCFound
    MaxResults = 2
    MaxActions = 3
    MaxPaneActions = 4
    MaxPages = 2
INVARIANT OnlyTheLastRunIsRendered
CHECK_DEADLOCK FALSE
