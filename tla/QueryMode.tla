----------------------------- MODULE QueryMode -----------------------------
(***************************************************************************)
(* The GraphQL mode of the query editor: the rules the incremental parser  *)
(* colours a query with, and the hints it offers at the cursor.            *)
(***************************************************************************)
EXTENDS GraphQLTypes, RuleHelpers

\* LexRules: the bar of the unions is no punctuation of this mode.
ModePunctuators == Punctuators \ {"|"}
TokenKindOf(token) ==
    CASE token \in ModePunctuators -> "Punctuation"
      [] Kind(token) \in {"Int", "Float"} -> "Number"
      [] Kind(token) \in {"String", "Name"} -> Kind(token)
      [] OTHER -> "none"

\* word, name, type and the terminals of RuleHelpers.
Matches(t, token) ==
    CASE t[1] = "p"    -> token = t[2] /\ token \in ModePunctuators
      [] t[1] = "word" -> token = t[2]
      [] t[1] \in {"name", "type"} -> TokenKindOf(token) = "Name"
      [] t[1] = "nameButNot" -> TokenKindOf(token) = "Name" /\ token # t[2]
      [] t[1] = "kind" -> TokenKindOf(token) = t[2]
      [] OTHER -> FALSE

\* Mutant: a directive after the three dots is not expected.
Fork_mutant(kind, token, next) ==
    CASE kind = "Definition" ->
            (CASE token = "query"        -> "Query"
               [] token = "mutation"     -> "Mutation"
               [] token = "subscription" -> "Subscription"
               [] token = "fragment"     -> "FragmentDefinition"
               [] token = "{"            -> "ShortQuery"
               [] OTHER -> "")
      [] kind = "Selection" ->
            IF token = "..."
            THEN IF next \in {"on", "{"} THEN "InlineFragment" ELSE "FragmentSpread"
            ELSE IF next = ":" THEN "AliasedField" ELSE "Field"
      [] kind = "Value" ->
            (CASE TokenKindOf(token) = "Number"   -> "NumberValue"
               [] TokenKindOf(token) = "String"   -> "StringValue"
               [] token = "[" -> "ListValue"
               [] token = "{" -> "ObjectValue"
               [] token = "$" -> "Variable"
               [] token \in {"true", "false"} -> "BooleanValue"
               [] TokenKindOf(token) = "Name" /\ token \notin {"true", "false"} -> "EnumValue"
               [] OTHER -> "")
      [] kind = "Type" -> IF token = "[" THEN "ListType" ELSE "NamedType"

\* The rules that are chosen by the token, and the one after it on the line.
Fork(kind, token, next) ==
    CASE kind = "Definition" ->
            (CASE token = "query"        -> "Query"
               [] token = "mutation"     -> "Mutation"
               [] token = "subscription" -> "Subscription"
               [] token = "fragment"     -> "FragmentDefinition"
               [] token = "{"            -> "ShortQuery"
               [] OTHER -> "")
      [] kind = "Selection" ->
            IF token = "..."
            THEN IF next \in {"on", "@", "{"} THEN "InlineFragment" ELSE "FragmentSpread"
            ELSE IF next = ":" THEN "AliasedField" ELSE "Field"
      [] kind = "Value" ->
            (CASE TokenKindOf(token) = "Number"   -> "NumberValue"
               [] TokenKindOf(token) = "String"   -> "StringValue"
               [] token = "[" -> "ListValue"
               [] token = "{" -> "ObjectValue"
               [] token = "$" -> "Variable"
               [] token \in {"true", "false"} -> "BooleanValue"
               [] TokenKindOf(token) = "Name" /\ token \notin {"true", "false"} -> "EnumValue"
               [] OTHER -> "")
      [] kind = "Type" -> IF token = "[" THEN "ListType" ELSE "NamedType"

aName          == terminal(<<"name">>)
Directives     == list("Directive")
Operation(w)   == <<word(w), optional(<<"name">>), opt("VariableDefinitions"),
                    Directives, Rule("SelectionSet")>>

ParseRules ==
    [Document     |-> <<list("Definition")>>,
     Query        |-> Operation("query"),
     ShortQuery   |-> <<Rule("SelectionSet")>>,
     Mutation     |-> Operation("mutation"),
     Subscription |-> Operation("subscription"),
     VariableDefinitions |-> <<punct("("), list("VariableDefinition"), punct(")")>>,
     VariableDefinition  |-> <<Rule("Variable"), punct(":"), Rule("Type"), opt("DefaultValue")>>,
     Variable     |-> <<punct("$"), aName>>,
     DefaultValue |-> <<punct("="), Rule("Value")>>,
     SelectionSet |-> <<punct("{"), list("Selection"), punct("}")>>,
     AliasedField |-> <<aName, punct(":"), Rule("Field")>>,
     Field        |-> <<aName, opt("Arguments"), Directives, opt("SelectionSet")>>,
     Arguments    |-> <<punct("("), list("Argument"), punct(")")>>,
     Argument     |-> <<aName, punct(":"), Rule("Value")>>,
     FragmentSpread |-> <<punct("..."), aName, Directives>>,
     InlineFragment |-> <<punct("..."), opt("TypeCondition"), Directives, Rule("SelectionSet")>>,
     FragmentDefinition |-> <<word("fragment"), optional(<<"nameButNot", "on">>),
                              Rule("TypeCondition"), Directives, Rule("SelectionSet")>>,
     TypeCondition |-> <<word("on"), terminal(<<"type">>)>>,
     NumberValue  |-> <<tokenOf("Number")>>,
     StringValue  |-> <<tokenOf("String")>>,
     BooleanValue |-> <<tokenOf("Name")>>,
     EnumValue    |-> <<aName>>,
     ListValue    |-> <<punct("["), list("Value"), punct("]")>>,
     ObjectValue  |-> <<punct("{"), list("ObjectField"), punct("}")>>,
     ObjectField  |-> <<aName, punct(":"), Rule("Value")>>,
     ListType     |-> <<punct("["), Rule("NamedType"), punct("]"), optional(<<"p", "!">>)>>,
     NamedType    |-> <<aName, optional(<<"p", "!">>)>>,
     Directive    |-> <<punct("@"), aName, opt("Arguments")>>]

Online == INSTANCE OnlineParser WITH
    IsPunctuation <- LAMBDA token : token \in ModePunctuators,
    KeyName <- LAMBDA token : token

\* The states after each token of a text of one line.
States(text) ==
    Online!RunParser(text, [i \in DOMAIN text |-> Token(text, i + 1)])

=============================================================================
