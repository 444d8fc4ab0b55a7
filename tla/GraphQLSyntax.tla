--------------------------- MODULE GraphQLSyntax ---------------------------
(***************************************************************************)
(* The parser and the printer of the bundled GraphQL language library, on  *)
(* texts that are sequences of tokens.                                     *)
(*                                                                         *)
(* A parse function of the library is the sequence of steps it takes:      *)
(*   Tok(k)            expect a token of kind k                            *)
(*   Word(w)           expect the keyword w                                *)
(*   One(l, f)         call f, its result is the node's entry l            *)
(*   Opt(l, k, f)      call f if the token is of kind k                    *)
(*   After(l, k, f)    call f if a token of kind k could be skipped        *)
(*   While(l, k, f)    call f as long as the token is of kind k            *)
(*   Sep(l, f, k)      call f, and again after each skipped k              *)
(*   ManyOf(l, o, f, c) one f or more between o and c                      *)
(*   AnyOf(l, o, f, c) none or more; OptMany: ManyOf if the token is an o  *)
(* The entry of an optional call is <<>> or <<result>>, that of a repeated *)
(* one the sequence of the results.  A selection set is the sequence of    *)
(* its selections, a name or the type of a condition is a string.          *)
(***************************************************************************)
EXTENDS Integers, SequencesExt

CONSTANTS Ints, Floats,    \* the tokens that are numbers
          Strings          \* [string tokens -> their values]

Punctuators == {"!", "$", "(", ")", "...", ":", "=", "@", "[", "]", "{", "|", "}"}
EOF == "<EOF>"

\* A number with a point or an exponent is a Float.
NumberKind(token) == IF token \in Floats THEN "Float" ELSE "Int"

Kind(token) == CASE token \in Punctuators \union {EOF} -> token
                 [] token \in Ints \union Floats -> NumberKind(token)
                 [] token \in DOMAIN Strings -> "String"
                 [] OTHER -> "Name"

\* The value of a string is what its escapes stand for.
ValueOf(token) == IF token \in DOMAIN Strings THEN Strings[token] ELSE token

Token(text, p) == IF p <= Len(text) THEN text[p] ELSE EOF

Tok(k)              == <<"Tok", k>>
Word(w)             == <<"Word", w>>
One(l, f)           == <<"One", l, f>>
Opt(l, k, f)        == <<"Opt", l, f, k>>
After(l, k, f)      == <<"After", l, f, k>>
While(l, k, f)      == <<"While", l, f, k>>
Sep(l, f, k)        == <<"Sep", l, f, k>>
AnyOf(l, o, f, c)   == <<"Any", l, f, o, c>>
ManyOf(l, o, f, c)  == <<"Many", l, f, o, c>>
OptMany(l, o, f, c) == <<"OptMany", l, f, o, c>>

parseName           == One("name", "Name")
parseDirectives     == While("directives", "@", "Directive")
parseSelectionSet   == ManyOf("selections", "{", "Selection", "}")
parseArguments      == OptMany("arguments", "(", "Argument", ")")
parseArgumentDefs   == OptMany("arguments", "(", "InputValueDefinition", ")")
parseVariableDefinitions ==
    OptMany("variableDefinitions", "(", "VariableDefinition", ")")
parseImplementsInterfaces == Opt("interfaces", "implements", "Interfaces")

-----------------------------------------------------------------------------
(* Executable documents.                                                    *)

parseDefinition(token) ==
    CASE token \in {"{", "query", "mutation", "subscription"} -> "OperationDefinition"
      [] token = "fragment"  -> "FragmentDefinition"
      [] token = "schema"    -> "SchemaDefinition"
      [] token = "scalar"    -> "ScalarTypeDefinition"
      [] token = "type"      -> "ObjectTypeDefinition"
      [] token = "interface" -> "InterfaceTypeDefinition"
      [] token = "union"     -> "UnionTypeDefinition"
      [] token = "enum"      -> "EnumTypeDefinition"
      [] token = "input"     -> "InputObjectTypeDefinition"
      [] token = "extend"    -> "TypeExtensionDefinition"
      [] token = "directive" -> "DirectiveDefinition"
      [] OTHER -> "unexpected"

parseOperationDefinition(token) ==
    IF token = "{" THEN <<parseSelectionSet>>
    ELSE <<One("operation", "OperationType"), Opt("name", "Name", "Name"),
           parseVariableDefinitions, parseDirectives, parseSelectionSet>>
parseVariableDefinition ==
    <<One("variable", "Variable"), Tok(":"), One("type", "Type"),
      After("defaultValue", "=", "ConstValue")>>
parseVariable == <<Tok("$"), parseName>>

\* parseField: the name is an alias if a colon follows it.
parseField(next) ==
    (IF next = ":" THEN <<One("alias", "Name"), Tok(":")>> ELSE <<>>)
    \o <<parseName, parseArguments, parseDirectives,
         OptMany("selections", "{", "Selection", "}")>>
parseArgument == <<parseName, Tok(":"), One("value", "Value")>>

\* parseFragment: the keyword is recognised by its value, whatever its kind.
parseFragment(next) ==
    IF Kind(next) = "Name" /\ next # "on"
    THEN [kind |-> "FragmentSpread",
          steps |-> <<Tok("..."), One("name", "FragmentName"), parseDirectives>>]
    ELSE [kind |-> "InlineFragment",
          steps |-> <<Tok("...")>>
                    \o (IF ValueOf(next) = "on"
                        THEN <<Tok(Kind(next)), One("typeCondition", "Name")>>
                        ELSE <<>>)
                    \o <<parseDirectives, parseSelectionSet>>]
parseFragmentDefinition ==
    <<Word("fragment"), One("name", "FragmentName"), Word("on"),
      One("typeCondition", "Name"), parseDirectives, parseSelectionSet>>

\* parseValueLiteral: the kind of value a token begins.
parseValueLiteral(token, isConst) ==
    CASE token = "["  -> "ListValue"
      [] token = "{"  -> "ObjectValue"
      [] Kind(token) \in {"Int", "Float", "String"} -> Kind(token) \o "Value"
      [] token \in {"true", "false"} -> "BooleanValue"
      [] Kind(token) = "Name" /\ token \notin {"true", "false", "null"} -> "EnumValue"
      [] token = "$" /\ ~isConst -> "Variable"
      [] OTHER -> "unexpected"
parseList(item)     == <<AnyOf("values", "[", item, "]")>>
parseObject(field)  == <<AnyOf("fields", "{", field, "}")>>
parseObjectField(value) == <<parseName, Tok(":"), One("value", value)>>
parseDirective == <<Tok("@"), parseName, parseArguments>>

-----------------------------------------------------------------------------
(* The type system.                                                         *)

parseSchemaDefinition ==
    <<Word("schema"), parseDirectives,
      ManyOf("operationTypes", "{", "OperationTypeDefinition", "}")>>
parseOperationTypeDefinition ==
    <<One("operation", "OperationType"), Tok(":"), One("type", "Name")>>
parseScalarTypeDefinition == <<Word("scalar"), parseName, parseDirectives>>
parseObjectTypeDefinition ==
    <<Word("type"), parseName, parseImplementsInterfaces, parseDirectives,
      AnyOf("fields", "{", "FieldDefinition", "}")>>
parseFieldDefinition ==
    <<parseName, parseArgumentDefs, Tok(":"), One("type", "Type"), parseDirectives>>
parseInputValueDef ==
    <<parseName, Tok(":"), One("type", "Type"),
      After("defaultValue", "=", "ConstValue"), parseDirectives>>
parseInterfaceTypeDefinition ==
    <<Word("interface"), parseName, parseDirectives,
      AnyOf("fields", "{", "FieldDefinition", "}")>>
parseUnionTypeDefinition ==
    <<Word("union"), parseName, parseDirectives, Tok("="),
      Sep("types", "Name", "|")>>
parseEnumTypeDefinition ==
    <<Word("enum"), parseName, parseDirectives,
      ManyOf("values", "{", "EnumValueDefinition", "}")>>
parseEnumValueDefinition == <<parseName, parseDirectives>>
parseInputObjectTypeDefinition ==
    <<Word("input"), parseName, parseDirectives,
      AnyOf("fields", "{", "InputValueDefinition", "}")>>
parseTypeExtensionDefinition ==
    <<Word("extend"), One("definition", "ObjectTypeDefinition")>>
parseDirectiveDefinition ==
    <<Word("directive"), Tok("@"), parseName, parseArgumentDefs, Word("on"),
      Sep("locations", "Name", "|")>>

-----------------------------------------------------------------------------
(* The parser.  A call at position p ends at the position "at", with the    *)
(* node it built, or with the syntax error thrown at that position.         *)

Parsed(p, node) == [at |-> p, ok |-> TRUE, node |-> node]
SyntaxError(p)  == [at |-> p, ok |-> FALSE, node |-> <<>>]

StepsOf(kind, text, p) ==
    CASE kind = "OperationDefinition" -> parseOperationDefinition(Token(text, p))
      [] kind = "VariableDefinition"  -> parseVariableDefinition
      [] kind = "Variable"            -> parseVariable
      [] kind = "Field"               -> parseField(Token(text, p + 1))
      [] kind \in {"FragmentSpread", "InlineFragment"} ->
            parseFragment(Token(text, p + 1)).steps
      [] kind = "Argument"            -> parseArgument
      [] kind = "FragmentDefinition"  -> parseFragmentDefinition
      [] kind = "Directive"           -> parseDirective
      [] kind = "SchemaDefinition"    -> parseSchemaDefinition
      [] kind = "OperationTypeDefinition" -> parseOperationTypeDefinition
      [] kind = "ScalarTypeDefinition" -> parseScalarTypeDefinition
      [] kind = "ObjectTypeDefinition" -> parseObjectTypeDefinition
      [] kind = "FieldDefinition"     -> parseFieldDefinition
      [] kind = "InputValueDefinition" -> parseInputValueDef
      [] kind = "InterfaceTypeDefinition" -> parseInterfaceTypeDefinition
      [] kind = "UnionTypeDefinition" -> parseUnionTypeDefinition
      [] kind = "EnumTypeDefinition"  -> parseEnumTypeDefinition
      [] kind = "EnumValueDefinition" -> parseEnumValueDefinition
      [] kind = "InputObjectTypeDefinition" -> parseInputObjectTypeDefinition
      [] kind = "TypeExtensionDefinition" -> parseTypeExtensionDefinition
      [] kind = "DirectiveDefinition" -> parseDirectiveDefinition

RECURSIVE Call(_, _, _), Follow(_, _, _, _, _), Repeat(_, _, _, _, _, _), Value(_, _, _)

\* any, many: call f until the closing token; other closes: while the token is
\* of kind k ("while"), or as long as a k can be skipped ("sep").
More(r, how, k, f, text, nodes) ==
    IF r.ok THEN Repeat(how, k, f, text, r.at, Append(nodes, r.node)) ELSE r

Repeat(how, k, f, text, p, nodes) ==
    LET here == IF how = "while" THEN Kind(Token(text, p)) ELSE Token(text, p)
    IN  IF (here = k) = (how = "until")
        THEN Parsed(IF how = "until" THEN p + 1 ELSE p, nodes)
        ELSE More(Call(f, text, IF how = "sep" THEN p + 1 ELSE p), how, k, f, text, nodes)

AtLeastOne(how, k, f, text, p) == More(Call(f, text, p), how, k, f, text, <<>>)

Optional(r) == IF r.ok THEN Parsed(r.at, <<r.node>>) ELSE r

Step(step, text, p, token) ==
    CASE step[1] = "Tok"  -> IF Kind(token) = step[2] THEN Parsed(p + 1, <<>>) ELSE SyntaxError(p)
      [] step[1] = "Word" -> IF token = step[2] THEN Parsed(p + 1, <<>>) ELSE SyntaxError(p)
      [] step[1] = "One"  -> Call(step[3], text, p)
      [] step[1] = "Opt" /\ step[4] = "implements" ->
            IF ValueOf(token) = "implements"
            THEN AtLeastOne("while", "Name", "Name", text, p + 1)
            ELSE Parsed(p, <<>>)
      [] step[1] = "Opt" /\ step[4] # "implements" ->
            IF Kind(token) = step[4] THEN Optional(Call(step[3], text, p))
            ELSE Parsed(p, <<>>)
      [] step[1] = "After" ->
            IF token = step[4] THEN Optional(Call(step[3], text, p + 1))
            ELSE Parsed(p, <<>>)
      [] step[1] = "While" -> Repeat("while", step[4], step[3], text, p, <<>>)
      [] step[1] = "Sep"   -> AtLeastOne("sep", step[4], step[3], text, p)
      [] step[1] = "OptMany" /\ token # step[4] -> Parsed(p, <<>>)
      [] OTHER ->
            IF token # step[4] THEN SyntaxError(p)
            ELSE IF step[1] = "Any"
            THEN Repeat("until", step[5], step[3], text, p + 1, <<>>)
            ELSE AtLeastOne("until", step[5], step[3], text, p + 1)

\* The steps from the i-th on; node has the entries so far.
Followed(r, steps, i, text, node) ==
    IF ~r.ok THEN r
    ELSE Follow(steps, i + 1, text, r.at,
                IF steps[i][1] \in {"Tok", "Word"} THEN node
                ELSE (steps[i][2] :> r.node) @@ node)
Follow(steps, i, text, p, node) ==
    IF i > Len(steps) THEN Parsed(p, node)
    ELSE Followed(Step(steps[i], text, p, Token(text, p)), steps, i, text, node)

\* The entries of a node that its steps may leave out.
Start(kind, text, p) ==
    CASE kind = "Field"          -> [kind |-> kind, alias |-> ""]
      [] kind = "InlineFragment" -> [kind |-> kind, typeCondition |-> ""]
      [] kind = "OperationDefinition" /\ Token(text, p) = "{" ->
            [kind |-> kind, operation |-> "query", name |-> <<>>,
             variableDefinitions |-> <<>>, directives |-> <<>>]
      [] OTHER -> [kind |-> kind]

Node(kind, text, p) ==
    Follow(StepsOf(kind, text, p), 1, text, p, Start(kind, text, p))

Value(text, p, isConst) ==
    LET token == Token(text, p)
        kind  == parseValueLiteral(token, isConst)
        item  == IF isConst THEN "ConstValue" ELSE "Value"
        start == [kind |-> kind]
    IN  CASE kind = "unexpected"  -> SyntaxError(p)
          [] kind = "ListValue"   -> Follow(parseList(item), 1, text, p, start)
          [] kind = "ObjectValue" ->
                Follow(parseObject(item \o "Field"), 1, text, p, start)
          [] kind = "Variable"    -> Node("Variable", text, p)
          [] OTHER -> Parsed(p + 1, start @@ [value |-> ValueOf(token)])

TypeAround(inner, list, text) ==
    LET q    == IF list THEN inner.at + 1 ELSE inner.at
        type == IF list THEN [kind |-> "ListType", type |-> inner.node]
                ELSE [kind |-> "NamedType", name |-> inner.node]
    IN  IF ~inner.ok THEN inner
        ELSE IF list /\ Token(text, inner.at) # "]" THEN SyntaxError(inner.at)
        ELSE IF Token(text, q) = "!"
        THEN Parsed(q + 1, [kind |-> "NonNullType", type |-> type])
        ELSE Parsed(q, type)
parseType(text, p) ==
    LET list == Token(text, p) = "["
    IN  TypeAround(Call(IF list THEN "Type" ELSE "Name", text, IF list THEN p + 1 ELSE p),
                   list, text)

Call(f, text, p) ==
    LET token == Token(text, p)
        Must(condition, node) == IF condition THEN Parsed(p + 1, node) ELSE SyntaxError(p)
    IN  CASE f = "Name" -> Must(Kind(token) = "Name", token)
          [] f = "FragmentName" -> Must(Kind(token) = "Name" /\ token # "on", token)
          [] f = "OperationType" ->
                Must(token \in {"query", "mutation", "subscription"}, token)
          [] f = "Definition" ->
                LET kind == parseDefinition(token)
                IN  IF kind = "unexpected" THEN SyntaxError(p) ELSE Node(kind, text, p)
          [] f = "Selection" ->
                Node(IF token = "..." THEN parseFragment(Token(text, p + 1)).kind
                     ELSE "Field", text, p)
          [] f = "Value"      -> Value(text, p, FALSE)
          [] f = "ConstValue" -> Value(text, p, TRUE)
          [] f \in {"ValueField", "ConstValueField"} ->
                Follow(parseObjectField(IF f = "ValueField" THEN "Value" ELSE "ConstValue"),
                       1, text, p, [kind |-> "ObjectField"])
          [] f = "Type" -> parseType(text, p)
          [] OTHER -> Node(f, text, p)

parse(text) == AtLeastOne("until", EOF, "Definition", text, 1)

-----------------------------------------------------------------------------
(* The printer.  Spaces, line breaks and commas mean nothing to the lexer   *)
(* and are left out.                                                        *)

wrap(open, tokens, close) == IF tokens = <<>> THEN <<>> ELSE open \o tokens \o close
block(tokens) == <<"{">> \o tokens \o <<"}">>
separated(names, separator) ==
    FlattenSeq([i \in 1..Len(names) |-> IF i = 1 THEN <<names[i]>>
                                        ELSE separator \o <<names[i]>>])

RECURSIVE print(_)

join(nodes) == FlattenSeq([i \in 1..Len(nodes) |-> print(nodes[i])])

printValue(node) ==
    CASE node.kind = "ListValue"   -> <<"[">> \o join(node.values) \o <<"]">>
      [] node.kind = "ObjectValue" -> block(join(node.fields))
      [] node.kind = "ObjectField" -> <<node.name, ":">> \o print(node.value)
      [] node.kind = "StringValue" ->
            <<CHOOSE t \in DOMAIN Strings : Strings[t] = node.value>>
      [] OTHER -> <<node.value>>

\* Mutant: the short form although there are variables.
printOperationDefinition_mutant(node) ==
    LET varDefs    == wrap(<<"(">>, join(node.variableDefinitions), <<")">>)
        dirs    == join(node.directives)
    IN  IF node.name = <<>> /\ dirs = <<>>
           /\ node.operation = "query"
        THEN block(join(node.selections))
        ELSE <<node.operation>> \o node.name \o varDefs \o dirs
             \o block(join(node.selections))

printOperationDefinition(node) ==
    LET varDefs    == wrap(<<"(">>, join(node.variableDefinitions), <<")">>)
        dirs    == join(node.directives)
    IN  IF node.name = <<>> /\ dirs = <<>> /\ varDefs = <<>>
           /\ node.operation = "query"
        THEN block(join(node.selections))
        ELSE <<node.operation>> \o node.name \o varDefs \o dirs
             \o block(join(node.selections))

printSelection(node) ==
    LET dirs == join(node.directives)
    IN  CASE node.kind = "Field" ->
               (IF node.alias = "" THEN <<>> ELSE <<node.alias, ":">>)
               \o <<node.name>> \o wrap(<<"(">>, join(node.arguments), <<")">>)
               \o dirs \o wrap(<<"{">>, join(node.selections), <<"}">>)
          [] node.kind = "FragmentSpread" -> <<"...", node.name>> \o dirs
          [] node.kind = "InlineFragment" ->
               <<"...">> \o (IF node.typeCondition = "" THEN <<>>
                             ELSE <<"on", node.typeCondition>>)
               \o dirs \o block(join(node.selections))

printTypeSystem(node) ==
    LET dirs == join(node.directives)
        args       == wrap(<<"(">>, join(node.arguments), <<")">>)
    IN  CASE node.kind = "SchemaDefinition" ->
               <<"schema">> \o dirs \o block(join(node.operationTypes))
          [] node.kind = "ScalarTypeDefinition" ->
               <<"scalar", node.name>> \o dirs
          [] node.kind = "ObjectTypeDefinition" ->
               <<"type", node.name>>
               \o wrap(<<"implements">>, node.interfaces, <<>>)
               \o dirs \o block(join(node.fields))
          [] node.kind = "FieldDefinition" ->
               <<node.name>> \o args \o <<":">> \o print(node.type) \o dirs
          [] node.kind = "InputValueDefinition" ->
               <<node.name, ":">> \o print(node.type)
               \o wrap(<<"=">>, join(node.defaultValue), <<>>) \o dirs
          [] node.kind = "InterfaceTypeDefinition" ->
               <<"interface", node.name>> \o dirs \o block(join(node.fields))
          [] node.kind = "UnionTypeDefinition" ->
               <<"union", node.name>> \o dirs \o <<"=">>
               \o separated(node.types, <<"|">>)
          [] node.kind = "EnumTypeDefinition" ->
               <<"enum", node.name>> \o dirs \o block(join(node.values))
          [] node.kind = "EnumValueDefinition" -> <<node.name>> \o dirs
          [] node.kind = "InputObjectTypeDefinition" ->
               <<"input", node.name>> \o dirs \o block(join(node.fields))
          [] node.kind = "TypeExtensionDefinition" ->
               <<"extend">> \o print(node.definition)
          [] node.kind = "DirectiveDefinition" ->
               <<"directive", "@", node.name>> \o args
               \o <<"on">> \o separated(node.locations, <<"|">>)

print(node) ==
    CASE node.kind = "OperationDefinition" -> printOperationDefinition(node)
      [] node.kind = "VariableDefinition" ->
            print(node.variable) \o <<":">> \o print(node.type)
            \o wrap(<<"=">>, join(node.defaultValue), <<>>)
      [] node.kind = "Variable" -> <<"$", node.name>>
      [] node.kind \in {"Field", "FragmentSpread", "InlineFragment"} ->
            printSelection(node)
      [] node.kind = "Argument" -> <<node.name, ":">> \o print(node.value)
      [] node.kind = "FragmentDefinition" ->
            <<"fragment", node.name, "on", node.typeCondition>>
            \o join(node.directives) \o block(join(node.selections))
      [] node.kind \in {"IntValue", "FloatValue", "StringValue", "BooleanValue",
                        "EnumValue", "ListValue", "ObjectValue", "ObjectField"} ->
            printValue(node)
      [] node.kind = "Directive" ->
            <<"@", node.name>> \o wrap(<<"(">>, join(node.arguments), <<")">>)
      [] node.kind = "NamedType"   -> <<node.name>>
      [] node.kind = "ListType"    -> <<"[">> \o print(node.type) \o <<"]">>
      [] node.kind = "NonNullType" -> print(node.type) \o <<"!">>
      [] node.kind = "OperationTypeDefinition" ->
            <<node.operation, ":", node.type>>
      [] OTHER -> printTypeSystem(node)

=============================================================================
