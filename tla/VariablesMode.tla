---------------------------- MODULE VariablesMode ----------------------------
(***************************************************************************)
(* The variable editor's mode for JSON: the rules the incremental parser   *)
(* colours the variables with, and the hints it offers at the cursor.  The *)
(* variables of the query are known by variableToType, <<>> as long as no  *)
(* query has parsed.                                                       *)
(***************************************************************************)
EXTENDS GraphQLTypes, RuleHelpers

ModePunctuators == {"[", "]", "{", "}", ":", ","}
TokenKindOf(token) ==
    CASE token \in ModePunctuators -> "Punctuation"
      [] Kind(token) \in {"Int", "Float"} -> "Number"
      [] Kind(token) = "String" -> "String"
      [] token \in {"true", "false", "null"} -> "Keyword"
      [] OTHER -> "none"

\* namedKey and the terminals of RuleHelpers.
Matches(t, token) ==
    CASE t[1] = "p"    -> token = t[2]
      [] t[1] = "kind" -> TokenKindOf(token) = t[2]
      [] t[1] = "key"  -> TokenKindOf(token) = "String"
      [] OTHER -> FALSE

\* Value; the token after it does not matter.
Fork(kind, token, next) ==
    CASE TokenKindOf(token) = "Number" -> "NumberValue"
      [] TokenKindOf(token) = "String" -> "StringValue"
      [] token = "[" -> "ListValue"
      [] token = "{" -> "ObjectValue"
      [] token \in {"true", "false"} -> "BooleanValue"
      [] token = "null" -> "NullValue"
      [] OTHER -> NoRule

namedKey == terminal(<<"key">>)

ParseRules ==
    [Document     |-> <<punct("{"), listOf("Variable", ","), punct("}")>>,
     Variable     |-> <<namedKey, punct(":"), Rule("Value")>>,
     NumberValue  |-> <<tokenOf("Number")>>,
     StringValue  |-> <<tokenOf("String")>>,
     BooleanValue |-> <<tokenOf("Keyword")>>,
     NullValue    |-> <<tokenOf("Keyword")>>,
     ListValue    |-> <<punct("["), listOf("Value", ","), punct("]")>>,
     ObjectValue  |-> <<punct("{"), listOf("ObjectField", ","), punct("}")>>,
     ObjectField  |-> <<namedKey, punct(":"), Rule("Value")>>]

\* A key is noted without its quotes.
Online == INSTANCE OnlineParser WITH
    IsPunctuation <- LAMBDA token : token \in ModePunctuators,
    KeyName <- ValueOf
States(text) ==
    Online!RunParser(text, [i \in DOMAIN text |-> Token(text, i + 1)])

\* The stack once a space follows the last token.
Spaced(state) ==
    IF state.needsAdvance THEN Online!advanceRule(state.stack, TRUE) ELSE state.stack

-----------------------------------------------------------------------------
Lookup(defs, n) == IF n \in DOMAIN defs THEN defs[n] ELSE NoType

\* getTypeInfo: one rule of the stack after the other, from the outermost.
Informed(variableToType, f, info) ==
    CASE f.kind = "Variable" -> [info EXCEPT !.type = Lookup(variableToType, f.name)]
      [] f.kind = "ListValue" ->
            LET type == getNullableType(info.type)
            IN  [info EXCEPT !.type = IF IsList(type) THEN type.type ELSE NoType]
      [] f.kind = "ObjectValue" ->
            LET type == getNamedType(info.type)
            IN  [info EXCEPT !.fields =
                    IF KindOf(type) = "InputObject"
                    THEN [n \in DOMAIN types[type.name].fields |-> types[type.name].fields[n].type]
                    ELSE <<>>]
      [] f.kind = "ObjectField" -> [info EXCEPT !.type = Lookup(info.fields, f.name)]
      [] OTHER -> info
getTypeInfo(variableToType, stack) ==
    FoldLeft(LAMBDA info, f : Informed(variableToType, f, info),
             [type |-> NoType, fields |-> <<>>], stack)

\* The string tokens with some values.
Quoted(names) == {s \in DOMAIN Strings : Strings[s] \in names}
Keys(names)   == {<<s, ":">> : s \in Quoted(names)}

ValueHints(type) ==
    CASE KindOf(type) = "InputObject" -> {<<"{">>}
      [] KindOf(type) = "Enum"        -> {<<s>> : s \in Quoted(types[type.name].values)}
      [] type = Named("Boolean")      -> {<<"true">>, <<"false">>}
      [] OTHER -> {}

\* getVariablesHint: steps count from 1.
HintsAt(variableToType, f, info) ==
    LET At(k, s) == f.kind = k /\ f.step = s
    IN  CASE At("Document", 1) -> {<<"{">>}
          [] (f.kind = "Document" /\ f.step # 1) \/ At("Variable", 1) ->
                Keys(DOMAIN variableToType)
          [] f.kind = "ObjectValue" \/ At("ObjectField", 1) -> Keys(DOMAIN info.fields)
          [] \/ f.kind \in {"StringValue", "NumberValue", "BooleanValue", "NullValue"}
             \/ At("ListValue", 2) \/ At("ObjectField", 3) \/ At("Variable", 3) ->
                ValueHints(getNamedType(info.type))
          [] OTHER -> {}
getVariablesHint(variableToType, stack) ==
    IF stack = <<>> THEN {}
    ELSE HintsAt(variableToType, Last(stack), getTypeInfo(variableToType, stack))

=============================================================================
