---------------------------- MODULE SchemaTools ----------------------------
(***************************************************************************)
(* The schema utilities of the bundled GraphQL library: a schema is built  *)
(* from a document of definitions, extended by one, printed, and carried   *)
(* to a client by the introspection query.                                 *)
(*                                                                         *)
(* A schema names its root types ("" if there is none) and has a type map, *)
(* with the types as in GraphQLTypes, and a sequence of directives.  What  *)
(* may be deprecated has the entry "deprecated", <<>> or <<reason>>.       *)
(***************************************************************************)
EXTENDS TypeReferences

CONSTANTS HugeInts,        \* the members of Ints out of the 32-bit range
          Escapes          \* [strings -> what JSON.stringify puts between the quotes]

Types(ts) == INSTANCE GraphQLTypes WITH
    types <- ts, queryType <- "", mutationType <- "", directives <- <<>>,
    Truncated <- <<>>

NoSchema == [ok |-> FALSE]    \* an error was thrown

Builtins    == {"Int", "Float", "String", "Boolean", "ID"}
InputKinds  == {"Scalar", "Enum", "InputObject"}
OutputKinds == {"Scalar", "Enum", "Object", "Interface", "Union"}
DefinedKind == [ScalarTypeDefinition |-> "Scalar",  ObjectTypeDefinition |-> "Object",
                InterfaceTypeDefinition |-> "Interface", UnionTypeDefinition |-> "Union",
                EnumTypeDefinition |-> "Enum",  InputObjectTypeDefinition |-> "InputObject"]

Sorted(ast, kinds) == SelectSeq(ast, LAMBDA d : d.kind \in kinds)
Names(nodes)       == {nodes[i].name : i \in DOMAIN nodes}
KeyMap(nodes)      == [n \in Names(nodes) |-> Last(SelectSeq(nodes, LAMBDA d : d.name = n))]
AllOf(lists)       == FlattenSeq(lists)
InSomeOrder(names) == FoldSet(LAMBDA n, list : Append(list, n), <<>>, names)

-----------------------------------------------------------------------------
(* Types are made of definitions with the literals of their defaults, which *)
(* Evaluated replaces by the values they have among the types T.            *)

getDeprecationReason(directives) ==
    LET all     == SelectSeq(directives, LAMBDA d : d.name = "deprecated")
        reasons == SelectSeq(all[1].arguments, LAMBDA a : a.name = "reason")
    IN  IF all = <<>> THEN <<>>
        ELSE IF reasons = <<>> \/ Last(reasons).value.kind # "StringValue"
        THEN <<"No longer supported">>
        ELSE <<Last(reasons).value.value>>

makeInputValues(nodes) ==
    LET node == KeyMap(nodes)
    IN  [n \in DOMAIN node |-> [type |-> node[n].type, literal |-> node[n].defaultValue]]
makeFieldDefMap(nodes) ==
    LET node == KeyMap(nodes)
    IN  [n \in DOMAIN node |-> [type |-> node[n].type,
                                args |-> makeInputValues(node[n].arguments),
                                deprecated |-> getDeprecationReason(node[n].directives)]]
makeEnumDef(nodes) ==
    [kind |-> "Enum", values |-> Names(nodes),
     deprecated |-> [n \in Names(nodes) |-> getDeprecationReason(KeyMap(nodes)[n].directives)]]

makeSchemaDef(def) ==
    LET kind == DefinedKind[def.kind]
    IN  CASE kind = "Object" -> [kind |-> kind, fields |-> makeFieldDefMap(def.fields),
                                 interfaces |-> Range(def.interfaces)]
          [] kind = "Interface" -> [kind |-> kind, fields |-> makeFieldDefMap(def.fields)]
          [] kind = "Union"  -> [kind |-> kind, members |-> Range(def.types)]
          [] kind = "Enum"   -> makeEnumDef(def.values)
          [] kind = "Scalar" -> [kind |-> kind]
          [] kind = "InputObject" -> [kind |-> kind, fields |-> makeInputValues(def.fields)]

EvaluatedArgs(args, T) ==
    [n \in DOMAIN args |->
        IF "literal" \notin DOMAIN args[n] THEN args[n]
        ELSE [type    |-> args[n].type,
              default |-> IF DOMAIN T = {} THEN Null
                          ELSE Types(T)!valueFromAST(args[n].literal, args[n].type, <<>>)]]
EvaluatedField(field, T) == [field EXCEPT !.args = EvaluatedArgs(@, T)]
Evaluated(made, T) ==
    [n \in DOMAIN made |->
        CASE made[n].kind \in {"Object", "Interface"} ->
                [made[n] EXCEPT !.fields = [f \in DOMAIN @ |-> EvaluatedField(@[f], T)]]
          [] made[n].kind = "InputObject" ->
                [made[n] EXCEPT !.fields = EvaluatedArgs(@, T)]
          [] OTHER -> made[n]]

\* A default may rest on the defaults of the input types in it.  One that rests on
\* itself exhausts the stack: there are no types then.
RECURSIVE Settled(_, _, _)
Again(made, T, next, rounds) ==
    IF next = T THEN T ELSE IF rounds = 0 THEN <<>> ELSE Settled(made, next, rounds - 1)
Settled(made, T, rounds) == Again(made, T, Evaluated(made, T), rounds)
WithValues(made) == Settled(made, Evaluated(made, <<>>), Cardinality(DOMAIN made))

-----------------------------------------------------------------------------
(* What the constructors of the types require; kind gives the kind of every *)
(* type there is.                                                           *)

NameIn(node) == getNamedType(node.type).name
InputsHold(nodes, kind) ==
    /\ \A i \in DOMAIN nodes : NameIn(nodes[i]) \in DOMAIN kind
    /\ \A n \in Names(nodes) : kind[NameIn(KeyMap(nodes)[n])] \in InputKinds
FieldsHold(nodes, kind) ==
    /\ \A i \in DOMAIN nodes : /\ NameIn(nodes[i]) \in DOMAIN kind
                               /\ InputsHold(nodes[i].arguments, kind)
    /\ \A n \in Names(nodes) : kind[NameIn(KeyMap(nodes)[n])] \in OutputKinds
AreOfKind(names, k, kind) == \A n \in Range(names) : n \in DOMAIN kind /\ kind[n] = k

DefinitionHolds(def, kind) ==
    CASE DefinedKind[def.kind] = "Object" ->
            /\ def.fields # <<>> /\ FieldsHold(def.fields, kind)
            /\ AreOfKind(def.interfaces, "Interface", kind)
      [] DefinedKind[def.kind] = "Interface" -> def.fields # <<>> /\ FieldsHold(def.fields, kind)
      [] DefinedKind[def.kind] = "Union" -> AreOfKind(def.types, "Object", kind)
      [] DefinedKind[def.kind] = "InputObject" -> def.fields # <<>> /\ InputsHold(def.fields, kind)
      [] OTHER -> TRUE

Scalars     == [n \in Builtins |-> [kind |-> "Scalar"]]
KindsOf(ts) == [n \in DOMAIN ts |-> ts[n].kind]

-----------------------------------------------------------------------------
(* GraphQLSchema: the type map has the types listed and what they lead to.  *)

ArgTypes(args)  == {NameIn(args[a]) : a \in DOMAIN args}
Mentioned(type) ==
    CASE type.kind \in {"Object", "Interface"} ->
            UNION {{NameIn(type.fields[f])} \union ArgTypes(type.fields[f].args)
                   : f \in DOMAIN type.fields}
      [] type.kind = "InputObject" -> ArgTypes(type.fields)
      [] OTHER -> {}
typeMapReducer(T, listed) ==
    Restrict(T, listed \union {"String", "Boolean"} \union UNION {Mentioned(T[n]) : n \in listed})

GraphQLSchema(roots, T, listed, directives) ==
    IF \/ DOMAIN T = {}
       \/ \E o \in DOMAIN roots : roots[o] # "" /\ T[roots[o]].kind # "Object"
       \/ ~Types(T)!SchemaIsValid
    THEN NoSchema
    ELSE [ok |-> TRUE, roots |-> roots, types |-> typeMapReducer(T, listed),
          directives |-> directives]

GraphQLDirective(name, locations, args) == [name |-> name, locations |-> locations, args |-> args]

conditional(name) ==
    GraphQLDirective(name, <<"FIELD", "FRAGMENT_SPREAD", "INLINE_FRAGMENT">>,
        [if |-> [type |-> NonNull(Named("Boolean")), default |-> Null]])
deprecatedDirective ==
    GraphQLDirective("deprecated", <<"FIELD_DEFINITION", "ENUM_VALUE">>,
        [reason |-> [type |-> Named("String"), default |-> JS("string", "No longer supported")]])
WithDirective(all, d) == IF d.name \in Names(all) THEN all ELSE Append(all, d)

-----------------------------------------------------------------------------
(* buildASTSchema.  A definition with the name of a built-in scalar counts   *)
(* for nothing.                                                             *)

Defined(defs) == [n \in DOMAIN defs \ Builtins |-> defs[n]]
getDirective(node, T) ==
    GraphQLDirective(node.name, node.locations,
                     EvaluatedArgs(makeInputValues(node.arguments), T))
AllDirectives(nodes, T) ==
    WithDirective(WithDirective(WithDirective([i \in DOMAIN nodes |-> getDirective(nodes[i], T)],
        conditional("skip")), conditional("include")), deprecatedDirective)

Built(roots, defs, nodes, T) ==
    IF DOMAIN T = {} THEN NoSchema
    ELSE GraphQLSchema(roots, T, DOMAIN defs, AllDirectives(nodes, T))
MadeOf(defs) == [n \in DOMAIN Defined(defs) |-> makeSchemaDef(defs[n])] @@ Scalars
BuiltOf(roots, defs, nodes, made) ==
    IF /\ \A n \in DOMAIN Defined(defs) : DefinitionHolds(defs[n], KindsOf(made))
       /\ \A i \in DOMAIN nodes : InputsHold(nodes[i].arguments, KindsOf(made))
    THEN Built(roots, defs, nodes, WithValues(made))
    ELSE NoSchema

buildASTSchema(ast) ==
    LET schemaDefs == Sorted(ast, {"SchemaDefinition"})
        defs       == KeyMap(Sorted(ast, DOMAIN DefinedKind))
        nodes      == Sorted(ast, {"DirectiveDefinition"})
        Given(o)   == SelectSeq(schemaDefs[1].operationTypes, LAMBDA t : t.operation = o)
        Root(o)    == IF Given(o) = <<>> THEN "" ELSE Given(o)[1].type
        roots      == [o \in {"query", "mutation", "subscription"} |-> Root(o)]
    IN  IF \/ Len(schemaDefs) # 1 \/ Given("query") = <<>>
           \/ \E o \in DOMAIN roots : Len(Given(o)) > 1 \/ roots[o] \notin DOMAIN defs \union {""}
        THEN NoSchema
        ELSE BuiltOf(roots, defs, nodes, MadeOf(defs))

-----------------------------------------------------------------------------
(* extendSchema.  What is new is never deprecated; definitions of schemas    *)
(* and directives are passed over.                                          *)

Undeprecated(nodes) == [i \in DOMAIN nodes |-> [nodes[i] EXCEPT !.directives = <<>>]]
NewType(def) ==
    CASE DefinedKind[def.kind] \in {"Object", "Interface"} ->
            makeSchemaDef([def EXCEPT !.fields = Undeprecated(@)])
      [] DefinedKind[def.kind] = "Enum" -> makeSchemaDef([def EXCEPT !.values = Undeprecated(@)])
      [] OTHER -> makeSchemaDef(def)

ExtensionsOf(ast, n) ==
    LET all == SelectSeq(ast, LAMBDA d : d.kind = "TypeExtensionDefinition" /\ d.definition.name = n)
    IN  [i \in DOMAIN all |-> all[i].definition]
NewFields(ast, n) ==
    LET all == ExtensionsOf(ast, n) IN AllOf([i \in DOMAIN all |-> all[i].fields])
NewInterfaces(ast, n) ==
    LET all == ExtensionsOf(ast, n) IN AllOf([i \in DOMAIN all |-> all[i].interfaces])

\* extendFieldMap and extendImplementedInterfaces refuse what the type has already.
IsNewTo(type, fields, interfaces) ==
    /\ Names(fields) \intersect DOMAIN type.fields = {}
    /\ Range(interfaces) \intersect type.interfaces = {}
    /\ IsInjective(interfaces)

\* Objects, interfaces and unions are copied; scalars, enums and input objects are
\* the old ones.  What a copy leads to is looked up by its name among the copies:
\* field types, interfaces, members.  The arguments of its old fields are kept, and
\* so is what an old input object leads to.
CopiedKinds == {"Object", "Interface", "Union"}

\* Mutant: the type of an old field is not looked up.
Kept_mutant(type) == Mentioned(type)

Kept(type) ==
    CASE type.kind \in {"Object", "Interface"} ->
            UNION {ArgTypes(type.fields[f].args) : f \in DOMAIN type.fields}
      [] type.kind = "InputObject" -> ArgTypes(type.fields)
      [] OTHER -> {}

\* A name that leads to a copy and to the old type as well is refused.
NamesAreUnique(schema, kind) ==
    \A n \in DOMAIN schema.types : \A m \in Kept(schema.types[n]) : kind[m] \notin CopiedKinds

extendType(type, fields, interfaces) ==
    IF type.kind # "Object" THEN type
    ELSE [type EXCEPT !.fields = makeFieldDefMap(Undeprecated(fields)) @@ @,
                      !.interfaces = @ \union Range(interfaces)]

Extended(schema, ast, defs, extended) ==
    [n \in DOMAIN Defined(defs) |-> NewType(defs[n])]
    @@ [n \in extended |-> extendType(schema.types[n], NewFields(ast, n), NewInterfaces(ast, n))]
    @@ schema.types @@ Scalars
ExtendedHolds(schema, ast, defs, extended, kind) ==
    /\ NamesAreUnique(schema, kind)
    /\ \A n \in DOMAIN Defined(defs) : DefinitionHolds(defs[n], kind)
    /\ \A n \in extended :
         /\ IsNewTo(schema.types[n], NewFields(ast, n), NewInterfaces(ast, n))
         /\ FieldsHold(NewFields(ast, n), kind)
         /\ AreOfKind(NewInterfaces(ast, n), "Interface", kind)
ExtendedOf(schema, ast, defs, extended, made) ==
    IF ~ExtendedHolds(schema, ast, defs, extended, KindsOf(made)) THEN NoSchema
    ELSE GraphQLSchema(schema.roots, WithValues(made), DOMAIN schema.types \union DOMAIN defs,
                       schema.directives)

extendSchema(schema, ast) ==
    LET defs     == KeyMap(Sorted(ast, DOMAIN DefinedKind))
        all      == Sorted(ast, {"TypeExtensionDefinition"})
        extended == {all[i].definition.name : i \in DOMAIN all}
    IN  IF \/ DOMAIN defs \intersect DOMAIN schema.types # {}
           \/ \E n \in extended : \/ n \notin DOMAIN schema.types
                                  \/ schema.types[n].kind # "Object"
        THEN NoSchema
        ELSE IF extended \union DOMAIN defs = {} THEN schema
        ELSE ExtendedOf(schema, ast, defs, extended, Extended(schema, ast, defs, extended))

-----------------------------------------------------------------------------
(* astFromValue: no literal for null, and none for a list with a null in it, *)
(* which is an error.  Of an unknown type a string becomes a string.        *)

Unprintable == <<NoType>>
Escaped(s)  == IF s \in DOMAIN Escapes THEN Escapes[s] ELSE s
IsEnum(t, ts) == t.kind = "NamedType" /\ ts[t.name].kind = "Enum"

FieldType(t, f, ts) ==
    IF t.kind = "NamedType" /\ ts[t.name].kind = "InputObject"
    THEN ts[t.name].fields[f].type ELSE NoType

ListAst(items) ==
    IF \E i \in DOMAIN items : items[i] \in {<<>>, Unprintable} THEN Unprintable
    ELSE <<[kind |-> "ListValue", values |-> [i \in DOMAIN items |-> items[i][1]]]>>
ObjectAst(members) ==
    LET names == InSomeOrder({n \in DOMAIN members : members[n] # <<>>})
    IN  IF \E n \in DOMAIN members : members[n] = Unprintable THEN Unprintable
        ELSE <<[kind |-> "ObjectValue",
                fields |-> [i \in DOMAIN names |->
                    [kind |-> "ObjectField", name |-> names[i], value |-> members[names[i]][1]]]]>>

RECURSIVE astFromValue(_, _, _)
astFromValue(v, t, ts) ==
    IF IsNonNull(t) THEN astFromValue(v, t.type, ts)
    ELSE IF IsList(t) /\ v.is \notin {"array", "null"} THEN astFromValue(v, t.type, ts)
    ELSE
    CASE v.is = "null"  -> <<>>
      [] v.is = "array" ->
            ListAst([i \in DOMAIN v.items |->
                        astFromValue(v.items[i], IF IsList(t) THEN t.type ELSE NoType, ts)])
      [] v.is = "boolean" -> <<[kind |-> "BooleanValue", value |-> v.value]>>
      [] v.is = "int" /\ t = Named("Float") ->
            <<[kind |-> "FloatValue", value |-> v.value \o ".0"]>>
      [] v.is = "int" /\ t # Named("Float") -> <<[kind |-> "IntValue", value |-> v.value]>>
      [] v.is = "float"  -> <<[kind |-> "FloatValue", value |-> v.value]>>
      [] v.is = "string" ->
            <<IF IsEnum(t, ts) THEN [kind |-> "EnumValue", value |-> v.value]
              ELSE [kind |-> "StringValue", value |-> Escaped(v.value)]>>
      [] v.is = "object" ->
            ObjectAst([n \in DOMAIN v.members |->
                          astFromValue(v.members[n], FieldType(t, n, ts), ts)])

-----------------------------------------------------------------------------
(* printSchema.  Types and fields have no order that counts.                *)

isSpecDirective(name) == name \in {"skip", "include", "deprecated"}

\* Mutant: the default value is printed without its type.
printInputValue_mutant(name, arg, ts) ==
    <<name, ":">> \o print(arg.type)
    \o (IF arg.default = Null THEN <<>>
        ELSE <<"=">> \o print(astFromValue(arg.default, NoType, ts)[1]))

printInputValue(name, arg, ts) ==
    <<name, ":">> \o print(arg.type)
    \o (IF arg.default = Null THEN <<>>
        ELSE <<"=">> \o print(astFromValue(arg.default, arg.type, ts)[1]))
printInputValues(args, ts) ==
    LET names == InSomeOrder(DOMAIN args)
    IN  AllOf([i \in DOMAIN names |-> printInputValue(names[i], args[names[i]], ts)])
printArgs(args, ts) == wrap(<<"(">>, printInputValues(args, ts), <<")">>)

printDeprecated(reason) ==
    IF reason = <<>> THEN <<>>
    ELSE IF reason[1] \in {"", "No longer supported"} THEN <<"@", "deprecated">>
    ELSE <<"@", "deprecated", "(", "reason", ":">>
         \o print([kind |-> "StringValue", value |-> Escaped(reason[1])]) \o <<")">>

printFields(fields, ts) ==
    LET names == InSomeOrder(DOMAIN fields)
    IN  AllOf([i \in DOMAIN names |->
            <<names[i]>> \o printArgs(fields[names[i]].args, ts) \o <<":">>
            \o print(fields[names[i]].type) \o printDeprecated(fields[names[i]].deprecated)])
printEnum(type) ==
    LET names == InSomeOrder(type.values)
    IN  AllOf([i \in DOMAIN names |->
                  <<names[i]>> \o printDeprecated(type.deprecated[names[i]])])

printType(name, type, ts) ==
    CASE type.kind = "Scalar" -> <<"scalar", name>>
      [] type.kind = "Object" ->
            <<"type", name>> \o wrap(<<"implements">>, InSomeOrder(type.interfaces), <<>>)
            \o block(printFields(type.fields, ts))
      [] type.kind = "Interface" -> <<"interface", name>> \o block(printFields(type.fields, ts))
      [] type.kind = "Union" ->
            <<"union", name, "=">> \o separated(InSomeOrder(type.members), <<"|">>)
      [] type.kind = "Enum"  -> <<"enum", name>> \o block(printEnum(type))
      [] type.kind = "InputObject" ->
            <<"input", name>> \o block(printInputValues(type.fields, ts))

printDirective(d, ts) ==
    <<"directive", "@", d.name>> \o printArgs(d.args, ts)
    \o <<"on">> \o separated(d.locations, <<"|">>)
printSchemaDefinition(roots) ==
    <<"schema">> \o block(AllOf([i \in 1..3 |->
        LET o == <<"query", "mutation", "subscription">>[i]
        IN  IF roots[o] = "" THEN <<>> ELSE <<o, ":", roots[o]>>]))

printSchema(schema) ==
    LET ts    == schema.types @@ Scalars
        own   == SelectSeq(schema.directives, LAMBDA d : ~isSpecDirective(d.name))
        names == InSomeOrder(DOMAIN schema.types \ Builtins)
    IN  printSchemaDefinition(schema.roots)
        \o AllOf([i \in DOMAIN own |-> printDirective(own[i], ts)])
        \o AllOf([i \in DOMAIN names |-> printType(names[i], ts[names[i]], ts)])

\* Does printSchema come to its end, or meet a default that has no literal?
Literals(args, ts) == \A a \in DOMAIN args :
    astFromValue(args[a].default, args[a].type, ts) # Unprintable
IsPrintable(schema) ==
    LET ts == schema.types @@ Scalars
    IN  /\ \A i \in DOMAIN schema.directives : Literals(schema.directives[i].args, ts)
        /\ \A n \in DOMAIN schema.types :
             CASE ts[n].kind \in {"Object", "Interface"} ->
                     \A f \in DOMAIN ts[n].fields : Literals(ts[n].fields[f].args, ts)
               [] ts[n].kind = "InputObject" -> Literals(ts[n].fields, ts)
               [] OTHER -> TRUE

-----------------------------------------------------------------------------
(* The answer to the introspection query.  The default of an argument is     *)
(* printed without its type, one that cannot be printed is null.            *)

\* Mutant: the query asks for one level less.
TypeRefDepth_mutant == 6

TypeRefDepth == 7    \* the ofTypes in the query's fragment TypeRef

RECURSIVE TypeRef(_, _)
TypeRef(t, depth) ==
    IF t.kind = "NamedType" THEN t
    ELSE [t EXCEPT !.type = IF depth = 0 THEN NoType ELSE TypeRef(@, depth - 1)]

DefaultText(ast) == IF ast \in {<<>>, Unprintable} THEN <<>> ELSE print(ast[1])
InputValueAnswer(args, ts) ==
    [n \in DOMAIN args |->
        [type |-> TypeRef(args[n].type, TypeRefDepth),
         text |-> DefaultText(astFromValue(args[n].default, NoType, ts))]]
FieldAnswer(fields, ts) ==
    [n \in DOMAIN fields |->
        [type |-> TypeRef(fields[n].type, TypeRefDepth),
         args |-> InputValueAnswer(fields[n].args, ts), deprecated |-> fields[n].deprecated]]
TypeAnswer(type, ts) ==
    CASE type.kind \in {"Object", "Interface"} ->
            [type EXCEPT !.fields = FieldAnswer(@, ts)]
      [] type.kind = "InputObject" -> [type EXCEPT !.fields = InputValueAnswer(@, ts)]
      [] OTHER -> type

Locations == {"QUERY", "MUTATION", "SUBSCRIPTION", "FIELD", "FRAGMENT_DEFINITION",
              "FRAGMENT_SPREAD", "INLINE_FRAGMENT", "SCHEMA", "SCALAR", "OBJECT",
              "FIELD_DEFINITION", "ARGUMENT_DEFINITION", "INTERFACE", "UNION", "ENUM",
              "ENUM_VALUE", "INPUT_OBJECT", "INPUT_FIELD_DEFINITION"}

\* A location that is none makes the whole answer null.
introspect(schema, withSubscriptions) ==
    LET ts == schema.types @@ Scalars
        d  == schema.directives
    IN  IF \E i \in DOMAIN d : ~(Range(d[i].locations) \subseteq Locations) THEN NoSchema
        ELSE [ok |-> TRUE,
              roots |-> IF withSubscriptions THEN schema.roots
                        ELSE [schema.roots EXCEPT !.subscription = ""],
              types |-> [n \in DOMAIN schema.types |-> TypeAnswer(ts[n], ts)],
              directives |-> [i \in DOMAIN d |->
                                 [d[i] EXCEPT !.args = InputValueAnswer(@, ts)]]]

-----------------------------------------------------------------------------
(* buildClientSchema, of such an answer.                                    *)

RECURSIVE IsDeeper(_)
IsDeeper(t) == t = NoType \/ (t.kind # "NamedType" /\ IsDeeper(t.type))
AnyDeeper(args) == \E a \in DOMAIN args : IsDeeper(args[a].type)
HasDeeperType(type) ==
    CASE type.kind \in {"Object", "Interface"} ->
            AnyDeeper(type.fields) \/ \E f \in DOMAIN type.fields : AnyDeeper(type.fields[f].args)
      [] type.kind = "InputObject" -> AnyDeeper(type.fields)
      [] OTHER -> FALSE

buildInputValueDefMap(args) ==
    [n \in DOMAIN args |->
        [type |-> args[n].type,
         literal |-> IF args[n].text = <<>> THEN <<>> ELSE <<Value(args[n].text, 1, FALSE).node>>]]
buildFieldDefMap(fields) ==
    [n \in DOMAIN fields |-> [fields[n] EXCEPT !.args = buildInputValueDefMap(@)]]
buildType(type) ==
    CASE type.kind \in {"Object", "Interface"} ->
            [type EXCEPT !.fields = buildFieldDefMap(@)]
      [] type.kind = "InputObject" -> [type EXCEPT !.fields = buildInputValueDefMap(@)]
      [] OTHER -> type

buildDirective(d, T) ==
    [d EXCEPT !.args = EvaluatedArgs(buildInputValueDefMap(@), T)]
ClientOf(answer, T) ==
    IF DOMAIN T = {} THEN NoSchema
    ELSE GraphQLSchema(answer.roots, T, DOMAIN answer.types,
                       [i \in DOMAIN answer.directives |-> buildDirective(answer.directives[i], T)])
buildClientSchema(answer) ==
    IF \/ ~answer.ok
       \/ \E n \in DOMAIN answer.types : HasDeeperType(answer.types[n])
       \/ \E i \in DOMAIN answer.directives : AnyDeeper(answer.directives[i].args)
    THEN NoSchema
    ELSE ClientOf(answer, WithValues([n \in DOMAIN answer.types \ Builtins |->
                                         buildType(answer.types[n])] @@ Scalars))

=============================================================================
