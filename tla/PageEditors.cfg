SPECIFICATION Spec
CONSTANTS
    None = None
    Letters = {"a", "b"}
    Space = " "
    Marks = {":", "@"}
    closeCharacters = {" ", ":"}
    Schemas = {"none", "types"}
    NoSchema = "none"
    NamesAfter <- MCNamesAfter
    Old = Old
    Throwing <- MCThrowing
    PrettyLines <- MCPrettyLines
    Leafs <- MCLeafs
    MaxLength = 3
    screenAmount = 2
INVARIANTS
    PopupIsOfTheWord
    MarksAreOfTheText
PROPERTIES
    PicksReplaceTheWord
