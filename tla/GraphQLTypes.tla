---------------------------- MODULE GraphQLTypes ----------------------------
(***************************************************************************)
(* The type system of the bundled GraphQL library: what the schema answers *)
(* about its types, and the literals and values of input types.            *)
(*                                                                         *)
(* A type of the schema is a record of its kind, fields, interfaces,       *)
(* members and values; a field is a record of its type, its arguments and  *)
(* the default value, null if there is none.                               *)
(***************************************************************************)
EXTENDS TypeReferences

CONSTANTS types,           \* the type map of the schema
          queryType, mutationType,
          directives,      \* [names -> [args, locations]]
          HugeInts,        \* the members of Ints out of the 32-bit range
          Truncated        \* [Floats -> Ints], without the fraction

-----------------------------------------------------------------------------
(* Types.                                                                   *)

\* typeFromAST: nothing if the named type is not in the schema.
typeFromAST(node) ==
    LET n == getNamedType(node) IN IF n.name \in DOMAIN types THEN node ELSE NoType

KindOf(t) == IF t.kind = "NamedType" THEN types[t.name].kind ELSE t.kind

isInputType(t)     == KindOf(getNamedType(t)) \in {"Scalar", "Enum", "InputObject"}
isLeafType(t)      == KindOf(getNamedType(t)) \in {"Scalar", "Enum"}
isAbstractType(t)  == KindOf(t) \in {"Interface", "Union"}
isCompositeType(t) == KindOf(t) \in {"Object", "Interface", "Union"}

getPossibleTypes(t) ==
    IF KindOf(t) = "Union" THEN types[t.name].members
    ELSE {n \in DOMAIN types : /\ types[n].kind = "Object"
                               /\ t.name \in types[n].interfaces}
isPossibleType(abstract, t) == t.name \in getPossibleTypes(abstract)

RECURSIVE isTypeSubTypeOf(_, _)
isTypeSubTypeOf(maybeSub, super) ==
    \/ maybeSub = super
    \/ /\ IsNonNull(super) /\ IsNonNull(maybeSub)
       /\ isTypeSubTypeOf(maybeSub.type, super.type)
    \/ /\ ~IsNonNull(super) /\ IsNonNull(maybeSub)
       /\ isTypeSubTypeOf(maybeSub.type, super)
    \/ /\ IsList(super) /\ IsList(maybeSub)
       /\ isTypeSubTypeOf(maybeSub.type, super.type)
    \/ /\ isAbstractType(super) /\ KindOf(maybeSub) = "Object"
       /\ isPossibleType(super, maybeSub)

doTypesOverlap(a, b) ==
    \/ a = b
    \/ /\ isAbstractType(a) /\ isAbstractType(b)
       /\ getPossibleTypes(a) \intersect getPossibleTypes(b) # {}
    \/ /\ isAbstractType(a) /\ ~isAbstractType(b) /\ isPossibleType(a, b)
    \/ /\ ~isAbstractType(a) /\ isAbstractType(b) /\ isPossibleType(b, a)

\* getFieldDef: the field of a parent type, __typename included; the other two
\* meta fields lead to the introspection types, which are left out.
getFieldDef(parent, name) ==
    IF name = "__typename" /\ isCompositeType(parent)
    THEN [type |-> NonNull(Named("String")), args |-> <<>>]
    ELSE IF KindOf(parent) \in {"Object", "Interface"} /\ name \in DOMAIN types[parent.name].fields
    THEN types[parent.name].fields[name]
    ELSE [type |-> NoType, args |-> <<>>]

HasField(parent, name) == getFieldDef(parent, name).type # NoType

\* assertObjectImplementsInterface, for every type of the schema.
SchemaIsValid ==
    \A n \in DOMAIN types : types[n].kind = "Object" =>
        \A i \in types[n].interfaces : \A f \in DOMAIN types[i].fields :
            /\ f \in DOMAIN types[n].fields
            /\ LET own   == types[n].fields[f]
                   iface == types[i].fields[f]
               IN  /\ isTypeSubTypeOf(own.type, iface.type)
                   /\ \A a \in DOMAIN iface.args :
                        a \in DOMAIN own.args /\ own.args[a].type = iface.args[a].type
                   /\ \A a \in DOMAIN own.args \ DOMAIN iface.args :
                        ~IsNonNull(own.args[a].type)

-----------------------------------------------------------------------------
(* Scalars and enums.                                                       *)

\* A scalar a schema was built with takes whatever it is given, and is false.
IsCustomScalar(name) ==
    name \notin {"Int", "Float", "String", "Boolean", "ID"} /\ types[name].kind = "Scalar"

\* A number that ends in .0 is the integer.
parseFloat(token) ==
    LET whole == {i \in Ints : i \o ".0" = token}
    IN  IF whole = {} THEN JS("float", token) ELSE JS("int", CHOOSE i \in whole : TRUE)

\* parseLiteral of the scalars and of an enum; Null if the literal is no value.
parseLiteral(name, node) ==
    CASE name = "Int"     -> IF node.kind = "IntValue" /\ node.value \notin HugeInts
                             THEN JS("int", node.value) ELSE Null
      [] name = "Float"   -> IF node.kind = "IntValue" THEN JS("int", node.value)
                             ELSE IF node.kind = "FloatValue" THEN parseFloat(node.value)
                             ELSE Null
      [] name = "String"  -> IF node.kind = "StringValue" THEN JS("string", node.value)
                             ELSE Null
      [] name = "Boolean" -> IF node.kind = "BooleanValue" THEN JS("boolean", node.value)
                             ELSE Null
      [] name = "ID"      -> IF node.kind \in {"StringValue", "IntValue"}
                             THEN JS("string", node.value) ELSE Null
      [] IsCustomScalar(name) -> JS("boolean", "false")
      [] OTHER            -> IF node.kind = "EnumValue" /\ node.value \in types[name].values
                             THEN JS("string", node.value) ELSE Null

\* Number(value); a string or object of the instances is no number.
NumberOf(v) ==
    CASE v.is \in {"int", "float"} -> v
      [] v.is = "boolean" -> JS("int", IF v.value = "true" THEN "1" ELSE "0")
      [] v.is = "array" /\ v.items = <<>> -> JS("int", "0")
      [] OTHER -> Null

\* parseValue of the scalars and of an enum.
parseValue(name, v) ==
    CASE name = "Int"     -> LET n == NumberOf(v)
                             IN  IF n.is = "null" \/ n.value \in HugeInts THEN Null
                                 ELSE IF n.is = "float" THEN JS("int", Truncated[n.value])
                                 ELSE n
      [] name = "Float"   -> NumberOf(v)
      [] name \in {"String", "ID"} ->
            JS("string", IF v.is \in {"array", "object"} THEN "[object]" ELSE v.value)
      [] name = "Boolean" ->
            JS("boolean", IF v.is = "boolean" THEN v.value
                          ELSE IF v.is = "int" /\ v.value = "0" THEN "false" ELSE "true")
      [] IsCustomScalar(name) -> JS("boolean", "false")
      [] OTHER -> IF v.is = "string" /\ v.value \in types[name].values THEN v ELSE Null

-----------------------------------------------------------------------------
(* Literals and values of input types.  An absent literal or value is <<>>   *)
(* or Null; a duplicate field of an object counts by its last occurrence.   *)

FieldNames(node) == {node.fields[i].name : i \in DOMAIN node.fields}
FieldValue(node, name) ==
    IF name \notin FieldNames(node) THEN <<>>
    ELSE LET i == CHOOSE i \in DOMAIN node.fields :
                     /\ node.fields[i].name = name
                     /\ \A j \in DOMAIN node.fields : node.fields[j].name = name => j <= i
         IN  <<node.fields[i].value>>

RECURSIVE isValidLiteralValue(_, _), valueFromAST(_, _, _), isValidJSValue(_, _),
          coerceValue(_, _)

isValidLiteralValue(t, literal) ==
    IF IsNonNull(t) THEN literal # <<>> /\ isValidLiteralValue(t.type, literal)
    ELSE IF literal = <<>> THEN TRUE
    ELSE
    LET node == literal[1]
    IN  CASE node.kind = "Variable" -> TRUE
          [] node.kind # "Variable" /\ IsList(t) ->
                IF node.kind = "ListValue"
                THEN \A i \in DOMAIN node.values :
                        isValidLiteralValue(t.type, <<node.values[i]>>)
                ELSE isValidLiteralValue(t.type, literal)
          [] node.kind # "Variable" /\ KindOf(t) = "InputObject" ->
                /\ node.kind = "ObjectValue"
                /\ FieldNames(node) \subseteq DOMAIN types[t.name].fields
                /\ \A f \in DOMAIN types[t.name].fields :
                      isValidLiteralValue(types[t.name].fields[f].type, FieldValue(node, f))
          [] OTHER -> parseLiteral(t.name, node) # Null

\* Does the check of a literal come to a type that is no input type?
RECURSIVE MeetsOutputType(_, _)
MeetsOutputType(t, literal) ==
    IF IsNonNull(t) THEN MeetsOutputType(t.type, literal)
    ELSE IF IsList(t)
    THEN IF literal[1].kind # "ListValue" THEN MeetsOutputType(t.type, literal)
         ELSE \E i \in DOMAIN literal[1].values :
                 MeetsOutputType(t.type, <<literal[1].values[i]>>)
    ELSE isCompositeType(t)

\* What was given for some arguments or input fields, the defaults in the place of
\* nulls; what is null still is left out.
WithDefaults(defs, given) ==
    LET Or(n) == IF given[n] = Null THEN defs[n].default ELSE given[n]
    IN  [n \in {n \in DOMAIN given : Or(n) # Null} |-> Or(n)]
Members(t, given) ==
    [is |-> "object", members |-> WithDefaults(types[t.name].fields, given)]

valueFromAST(literal, t, variables) ==
    IF IsNonNull(t) THEN valueFromAST(literal, t.type, variables)
    ELSE IF literal = <<>> THEN Null
    ELSE
    LET node == literal[1]
    IN  CASE node.kind = "Variable" ->
                IF node.name \in DOMAIN variables THEN variables[node.name] ELSE Null
          [] node.kind # "Variable" /\ IsList(t) ->
                [is |-> "array",
                 items |-> IF node.kind = "ListValue"
                           THEN [i \in DOMAIN node.values |->
                                    valueFromAST(<<node.values[i]>>, t.type, variables)]
                           ELSE <<valueFromAST(literal, t.type, variables)>>]
          [] node.kind # "Variable" /\ KindOf(t) = "InputObject" ->
                IF node.kind # "ObjectValue" THEN Null
                ELSE Members(t, [f \in DOMAIN types[t.name].fields |->
                                    valueFromAST(FieldValue(node, f),
                                                 types[t.name].fields[f].type, variables)])
          [] OTHER -> parseLiteral(t.name, node)

Member(v, f) == IF v.is = "object" /\ f \in DOMAIN v.members THEN v.members[f] ELSE Null

isValidJSValue(v, t) ==
    IF IsNonNull(t) THEN v # Null /\ isValidJSValue(v, t.type)
    ELSE IF v = Null THEN TRUE
    ELSE IF IsList(t)
    THEN IF v.is = "array" THEN \A i \in DOMAIN v.items : isValidJSValue(v.items[i], t.type)
         ELSE isValidJSValue(v, t.type)
    ELSE IF KindOf(t) = "InputObject"
    THEN /\ v.is \in {"object", "array"}
         /\ v.is = "object" => DOMAIN v.members \subseteq DOMAIN types[t.name].fields
         /\ v.is = "array"  => v.items = <<>>
         /\ \A f \in DOMAIN types[t.name].fields :
                isValidJSValue(Member(v, f), types[t.name].fields[f].type)
    ELSE parseValue(t.name, v) # Null

coerceValue(t, v) ==
    IF IsNonNull(t) THEN coerceValue(t.type, v)
    ELSE IF v = Null THEN Null
    ELSE IF IsList(t)
    THEN [is |-> "array",
          items |-> IF v.is = "array"
                    THEN [i \in DOMAIN v.items |-> coerceValue(t.type, v.items[i])]
                    ELSE <<coerceValue(t.type, v)>>]
    ELSE IF KindOf(t) = "InputObject"
    THEN IF v.is \notin {"object", "array"} THEN Null
         ELSE Members(t, [f \in DOMAIN types[t.name].fields |->
                             coerceValue(types[t.name].fields[f].type, Member(v, f))])
    ELSE parseValue(t.name, v)

=============================================================================
