---------------------------- MODULE VariablesLint ----------------------------
(***************************************************************************)
(* The linter of the variable editor: its own parser of JSON, which notes  *)
(* where a text goes wrong, and the check of the values against the types  *)
(* of the query's variables.                                               *)
(***************************************************************************)
EXTENDS GraphQLTypes

\* lex: what starts like no value of JSON is a kind of its own.
JsonKind(token) ==
    CASE Kind(token) \in {"Int", "Float"} -> "Number"
      [] Kind(token) = "String" -> "String"
      [] token \in {"true", "false"} -> "Boolean"
      [] token = "null" -> "Null"
      [] OTHER -> token

Found(node, at)  == [ok |-> TRUE, node |-> node, at |-> at]
Expected(at)     == [ok |-> FALSE, at |-> at]
curToken(text, p) == [kind |-> JsonKind(text[p]), value |-> ValueOf(text[p])]

\* The functions of the parser by what they read, from each place of a text: a value,
\* a member, or the values or members that are left before a bracket closes.
JsonNode(text, kinds) ==
    LET KindAt(p) == IF p <= Len(text) THEN kinds[p] ELSE EOF
        read[what \in {"val", "member", "]", "}"}, p \in 1..(Len(text) + 1)] ==
            CASE what = "val" /\ KindAt(p) \in {"[", "{"} ->
                    \* parseArr, parseObj
                    LET close == IF KindAt(p) = "[" THEN "]" ELSE "}"
                        items == IF KindAt(p + 1) = close THEN Found(<<>>, p + 2)
                                 ELSE read[close, p + 1]
                    IN  IF ~items.ok THEN items
                        ELSE IF close = "]"
                        THEN Found([kind |-> "Array", values |-> items.node], items.at)
                        ELSE Found([kind |-> "Object", members |-> items.node], items.at)
              [] what = "val" /\ KindAt(p) \in {"String", "Number", "Boolean", "Null"} ->
                    Found(curToken(text, p), p + 1)
              [] what = "member" /\ KindAt(p) = "String" ->
                    \* parseMember
                    LET value == read["val", p + 2]
                    IN  IF KindAt(p + 1) # ":" THEN Expected(p + 1)
                        ELSE IF ~value.ok THEN value
                        ELSE Found([key |-> curToken(text, p), value |-> value.node], value.at)
              [] what \in {"]", "}"} ->
                    LET item == read[IF what = "]" THEN "val" ELSE "member", p]
                        rest == read[what, item.at + 1]
                    IN  IF ~item.ok THEN item
                        ELSE IF KindAt(item.at) = what THEN Found(<<item.node>>, item.at + 1)
                        ELSE IF KindAt(item.at) # "," THEN Expected(item.at)
                        ELSE IF ~rest.ok THEN rest
                        ELSE Found(<<item.node>> \o rest.node, rest.at)
              [] OTHER -> Expected(p)
    IN  IF KindAt(1) # "{" THEN Expected(1) ELSE read["val", 1]

\* Only an object is parsed, and nothing may follow it.
jsonParse(text) ==
    LET object == JsonNode(text, [p \in DOMAIN text |-> JsonKind(text[p])])
    IN  IF object.ok /\ object.at <= Len(text) THEN Expected(object.at) ELSE object

-----------------------------------------------------------------------------
\* JSON.parse: of two members of one name the last counts.
RECURSIVE JsonValue(_)
JsonValue(node) ==
    CASE node.kind = "Null"    -> Null
      [] node.kind = "Number"  -> IF node.value \in Ints THEN JS("int", node.value)
                                  ELSE parseFloat(node.value)
      [] node.kind = "String"  -> JS("string", node.value)
      [] node.kind = "Boolean" -> JS("boolean", node.value)
      [] node.kind = "Array"   ->
            [is |-> "array", items |-> [i \in DOMAIN node.values |-> JsonValue(node.values[i])]]
      [] node.kind = "Object"  ->
            [is |-> "object",
             members |-> [k \in {node.members[i].key.value : i \in DOMAIN node.members} |->
                JsonValue(Last(SelectSeq(node.members, LAMBDA m : m.key.value = k)).value)]]

\* Is a token of JSON no value of a scalar or an enum, whose name decides?
Mistyped(name, node) ==
    CASE name = "Boolean" -> node.kind # "Boolean"
      [] name = "String"  -> node.kind # "String"
      [] name = "ID"      -> node.kind \notin {"Number", "String"}
      [] name = "Float"   -> node.kind # "Number"
      [] name = "Int"     -> \/ node.kind # "Number"
                             \/ JsonValue(node).is # "int" \/ node.value \in HugeInts
      [] OTHER -> \/ node.kind \notin {"String", "Number", "Boolean"}
                  \/ parseValue(name, JsonValue(node)) = Null

Remark(what, node) == {[what |-> what, node |-> node]}

\* Mutant: nobody looks for missing fields.
Missing_mutant(fields, members) == {}

\* The fields of an input object that are not there and may not be null.
Missing(fields, members) ==
    {f \in DOMAIN fields : /\ \A i \in DOMAIN members : members[i].key.value # f
                           /\ IsNonNull(fields[f].type)}

RECURSIVE validateValue(_, _)
validateFields(fields, node) ==
    UNION {LET m == node.members[i]
           IN  IF m.key.value \in DOMAIN fields
               THEN validateValue(fields[m.key.value].type, m.value)
               ELSE Remark("unknown field", m.key)
           : i \in DOMAIN node.members}
    \union UNION {Remark("missing field", node) : f \in Missing(fields, node.members)}

validateValue(type, node) ==
    IF IsNonNull(type)
    THEN IF node.kind = "Null" THEN Remark("null", node) ELSE validateValue(type.type, node)
    ELSE IF node.kind = "Null" THEN {}
    ELSE IF IsList(type)
    THEN IF node.kind = "Array"
         THEN UNION {validateValue(type.type, node.values[i]) : i \in DOMAIN node.values}
         ELSE validateValue(type.type, node)
    ELSE IF KindOf(type) = "InputObject"
    THEN IF node.kind # "Object" THEN Remark("no object", node)
         ELSE validateFields(types[type.name].fields, node)
    ELSE IF isLeafType(type) /\ Mistyped(type.name, node) THEN Remark("mistyped", node)
    ELSE {}

validateVariables(variableToType, ast) ==
    UNION {LET m == ast.members[i]
           IN  IF m.key.value \in DOMAIN variableToType
               THEN validateValue(variableToType[m.key.value], m.value)
               ELSE Remark("unknown variable", m.key)
           : i \in DOMAIN ast.members}

\* The lint helper; facts are those of the query, <<>> as long as none has parsed.
lint(text, facts) ==
    IF text = <<>> THEN {}
    ELSE LET parsed == jsonParse(text)
         IN  IF ~parsed.ok THEN Remark("syntax", [at |-> parsed.at])
             ELSE IF facts = <<>> THEN {}
             ELSE validateVariables(facts[1].variableToType, parsed.node)

=============================================================================
