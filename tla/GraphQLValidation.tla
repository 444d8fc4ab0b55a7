------------------------- MODULE GraphQLValidation -------------------------
(***************************************************************************)
(* Validation of a parsed document against the schema.                     *)
(*                                                                         *)
(* All rules visit the document together, with the types TypeInfo keeps for *)
(* the node entered.  Here the visits are a set: one record for each node, *)
(* with the node it is in and the types at it; a rule is the set of the    *)
(* errors it reports on them, an error is its rule and a name.             *)
(***************************************************************************)
EXTENDS GraphQLTypes, FragmentCycles

NoDef == [type |-> NoType]
Lookup(defs, n) == IF n \in DOMAIN defs THEN defs[n] ELSE NoDef
ArgsOf(def) == IF "args" \in DOMAIN def THEN def.args ELSE <<>>
TypeOf(n) == IF n \in DOMAIN types THEN Named(n) ELSE NoType

-----------------------------------------------------------------------------
(* TypeInfo: what is known at a node, from what is known at its parent.     *)

NoInfo == [type |-> NoType, parentType |-> NoType, inputType |-> NoType,
           fieldDef |-> NoDef, directive |-> NoDef, argument |-> NoDef]

RootType(operation) ==
    CASE operation = "query"    -> TypeOf(queryType)
      [] operation = "mutation" -> TypeOf(mutationType)
      [] OTHER -> NoType

\* The selections of a node are visited with its type as their parent type.
InSelections(info) ==
    LET named == getNamedType(info.type)
    IN  [info EXCEPT !.parentType = IF isCompositeType(named) THEN named ELSE NoType]

enter(node, info) ==
    CASE node.kind = "Field" ->
            LET def == IF info.parentType = NoType THEN NoDef
                       ELSE getFieldDef(info.parentType, node.name)
            IN  [info EXCEPT !.fieldDef = def, !.type = def.type]
      [] node.kind = "Directive" ->
            [info EXCEPT !.directive = Lookup(directives, node.name)]
      [] node.kind = "OperationDefinition" ->
            [info EXCEPT !.type = RootType(node.operation)]
      [] node.kind \in {"InlineFragment", "FragmentDefinition"} ->
            IF node.typeCondition = "" THEN info
            ELSE [info EXCEPT !.type = TypeOf(node.typeCondition)]
      [] node.kind = "VariableDefinition" ->
            [info EXCEPT !.inputType = typeFromAST(node.type)]
      [] node.kind = "Argument" ->
            LET of  == IF info.directive # NoDef THEN info.directive ELSE info.fieldDef
                def == Lookup(ArgsOf(of), node.name)
            IN  [info EXCEPT !.argument = def, !.inputType = def.type]
      [] node.kind = "ListValue" ->
            LET list == getNullableType(info.inputType)
            IN  [info EXCEPT !.inputType = IF IsList(list) THEN list.type ELSE NoType]
      [] node.kind = "ObjectField" ->
            LET object == getNamedType(info.inputType)
            IN  [info EXCEPT !.inputType =
                    IF KindOf(object) = "InputObject"
                    THEN Lookup(types[object.name].fields, node.name).type ELSE NoType]
      [] OTHER -> info

-----------------------------------------------------------------------------
(* The visits.                                                              *)

Entries(node, keys) == UNION {ToSet(node[k]) : k \in DOMAIN node \intersect keys}

\* The nodes a node holds, those of its selection set apart.
Children(node) ==
    Entries(node, {"variableDefinitions", "directives", "arguments", "defaultValue"})
    \union (IF node.kind \in {"ListValue", "EnumTypeDefinition"} THEN Entries(node, {"values"})
            ELSE IF node.kind \in {"Argument", "ObjectField"} THEN {node.value}
            ELSE IF node.kind = "VariableDefinition" THEN {node.variable}
            ELSE IF node.kind = "TypeExtensionDefinition" THEN {node.definition}
            ELSE Entries(node, {"fields", "operationTypes"}))

\* path has the kinds of the nodes around the one of the visit.
RECURSIVE Visits(_, _, _, _)
Visits(node, of, path, info) ==
    LET Within(nodes, outside) ==
            UNION {Visits(child, node, Append(path, node.kind), enter(child, outside)) :
                      child \in nodes}
    IN  {[node |-> node, of |-> of, path |-> path, info |-> info]}
        \union Within(Children(node), info)
        \union Within(Entries(node, {"selections"}), InSelections(info))

Document == [kind |-> "Document"]
VisitsOf(definitions) ==
    UNION {Visits(d, Document, <<>>, enter(d, NoInfo)) : d \in definitions}
At(visits, kinds) == {v \in visits : v.node.kind \in kinds}

Error(rule, n) == [rule |-> rule, name |-> n]
Errors(rule, visits) == {Error(rule, v.node.name) : v \in visits}

-----------------------------------------------------------------------------
(* ValidationContext.                                                       *)

Definitions(ast, kind) == SelectSeq(ast, LAMBDA d : d.kind = kind)
operations(ast) == ToSet(Definitions(ast, "OperationDefinition"))
fragments(ast)  == ToSet(Definitions(ast, "FragmentDefinition"))
FragmentNames(ast) == {f.name : f \in fragments(ast)}

\* getFragment: of two fragments of one name the last counts.
getFragment(ast, n) ==
    Last(SelectSeq(ast, LAMBDA d : d.kind = "FragmentDefinition" /\ d.name = n))

RECURSIVE getFragmentSpreads(_)
getFragmentSpreads(node) ==
    UNION {IF s.kind = "FragmentSpread" THEN {s.name} ELSE getFragmentSpreads(s) :
              s \in ToSet(node.selections)}

\* The fragments by number, as FragmentCycles has them, and those a node spreads.
NumberedNames(ast) == LET F == Definitions(ast, "FragmentDefinition")
                      IN  [i \in DOMAIN F |-> F[i].name]
SpreadFragments(ast, node) ==
    LET names == NumberedNames(ast)
    IN  {Max({i \in DOMAIN names : names[i] = n}) :
            n \in getFragmentSpreads(node) \intersect FragmentNames(ast)}
NumberedSpreads(ast) == LET F == Definitions(ast, "FragmentDefinition")
                        IN  [i \in DOMAIN F |-> SpreadFragments(ast, F[i])]

getRecursivelyReferencedFragments(ast, node) ==
    {NumberedNames(ast)[i] :
        i \in Referenced(NumberedSpreads(ast), SpreadFragments(ast, node))}

getVariableUsages(definition) ==
    {v \in At(VisitsOf({definition}), {"Variable"}) : v.of.kind # "VariableDefinition"}
getRecursiveVariableUsages(ast, operation) ==
    getVariableUsages(operation)
    \union UNION {getVariableUsages(getFragment(ast, n)) :
                     n \in getRecursivelyReferencedFragments(ast, operation)}

-----------------------------------------------------------------------------
(* Rules about names.                                                       *)

Repeated(names) == {names[i] : i \in {i \in DOMAIN names :
                                         \E j \in DOMAIN names : j < i /\ names[j] = names[i]}}
NamesIn(nodes) == [i \in DOMAIN nodes |-> nodes[i].name]

KnownTypeNames(visits) ==
    LET named == {v.node.typeCondition :
                     v \in At(visits, {"InlineFragment", "FragmentDefinition"})}
                 \union {getNamedType(v.node.type).name :
                     v \in {v \in At(visits, {"VariableDefinition", "InputValueDefinition"}) :
                               v.of.kind \in {"OperationDefinition", "DirectiveDefinition"}}}
                 \union {v.node.type : v \in At(visits, {"OperationTypeDefinition"})}
    IN  {Error("KnownTypeNames", n) : n \in named \ (DOMAIN types \union {""})}

KnownFragmentNames(ast, visits) ==
    Errors("KnownFragmentNames",
           {v \in At(visits, {"FragmentSpread"}) : v.node.name \notin FragmentNames(ast)})

\* getDirectiveLocationForASTPath.
LocationOf(v) ==
    CASE v.of.kind = "OperationDefinition" ->
            (CASE v.of.operation = "query"    -> "QUERY"
               [] v.of.operation = "mutation" -> "MUTATION"
               [] OTHER -> "SUBSCRIPTION")
      [] v.of.kind = "Field"                -> "FIELD"
      [] v.of.kind = "FragmentSpread"       -> "FRAGMENT_SPREAD"
      [] v.of.kind = "InlineFragment"       -> "INLINE_FRAGMENT"
      [] v.of.kind = "FragmentDefinition"   -> "FRAGMENT_DEFINITION"
      [] v.of.kind = "SchemaDefinition"     -> "SCHEMA"
      [] v.of.kind = "ScalarTypeDefinition" -> "SCALAR"
      [] v.of.kind = "ObjectTypeDefinition" -> "OBJECT"
      [] v.of.kind = "FieldDefinition"      -> "FIELD_DEFINITION"
      [] v.of.kind = "InterfaceTypeDefinition" -> "INTERFACE"
      [] v.of.kind = "UnionTypeDefinition"  -> "UNION"
      [] v.of.kind = "EnumTypeDefinition"   -> "ENUM"
      [] v.of.kind = "EnumValueDefinition"  -> "ENUM_VALUE"
      [] v.of.kind = "InputObjectTypeDefinition" -> "INPUT_OBJECT"
      [] v.of.kind = "InputValueDefinition" ->
            IF v.path[Len(v.path) - 1] = "InputObjectTypeDefinition"
            THEN "INPUT_FIELD_DEFINITION" ELSE "ARGUMENT_DEFINITION"

KnownDirectives(visits) ==
    Errors("KnownDirectives",
           {v \in At(visits, {"Directive"}) :
               \/ v.node.name \notin DOMAIN directives
               \/ LocationOf(v) \notin directives[v.node.name].locations})

KnownArgumentNames(visits) ==
    Errors("KnownArgumentNames",
           {v \in At(visits, {"Argument"}) :
               \/ /\ v.of.kind = "Field" /\ v.info.fieldDef.type # NoType
                  /\ v.node.name \notin DOMAIN ArgsOf(v.info.fieldDef)
               \/ /\ v.of.kind = "Directive" /\ v.info.directive # NoDef
                  /\ v.node.name \notin DOMAIN ArgsOf(v.info.directive)})

UniqueOperationNames(ast) ==
    {Error("UniqueOperationNames", n) :
        n \in Repeated(FlattenSeq([i \in DOMAIN Definitions(ast, "OperationDefinition") |->
                                      Definitions(ast, "OperationDefinition")[i].name]))}
UniqueFragmentNames(ast) ==
    {Error("UniqueFragmentNames", n) :
        n \in Repeated(NamesIn(Definitions(ast, "FragmentDefinition")))}
UniqueVariableNames(ast) ==
    {Error("UniqueVariableNames", n) : n \in UNION {
        Repeated([i \in DOMAIN o.variableDefinitions |-> o.variableDefinitions[i].variable.name]) :
            o \in operations(ast)}}
UniqueArgumentNames(visits) ==
    {Error("UniqueArgumentNames", n) : n \in UNION {
        Repeated(NamesIn(v.node.arguments)) : v \in At(visits, {"Field", "Directive"})}}

\* ObjectField is not entered: an object in the field of another is not looked at.
UniqueInputFieldNames(visits) ==
    {Error("UniqueInputFieldNames", n) : n \in UNION {
        Repeated(NamesIn(v.node.fields)) :
            v \in {v \in At(visits, {"ObjectValue"}) : "ObjectField" \notin ToSet(v.path)}}}

LoneAnonymousOperation(ast) ==
    {Error("LoneAnonymousOperation", o.operation) : o \in {o \in operations(ast) :
        o.name = <<>> /\ Len(Definitions(ast, "OperationDefinition")) > 1}}

-----------------------------------------------------------------------------
(* Rules about fragments.                                                   *)

NoFragmentCycles(ast) ==
    {Error("NoFragmentCycles", n) :
        n \in detectCycles(NumberedNames(ast), NumberedSpreads(ast))}

NoUnusedFragments(ast) ==
    {Error("NoUnusedFragments", n) : n \in FragmentNames(ast)
        \ UNION {getRecursivelyReferencedFragments(ast, o) : o \in operations(ast)}}

FragmentsOnCompositeTypes(visits) ==
    {Error("FragmentsOnCompositeTypes", v.node.typeCondition) :
        v \in {v \in At(visits, {"InlineFragment", "FragmentDefinition"}) :
                  /\ v.node.typeCondition # "" /\ v.info.type # NoType
                  /\ ~isCompositeType(v.info.type)}}

PossibleFragmentSpreads(ast, visits) ==
    LET Impossible(v, type) == /\ type # NoType /\ v.info.parentType # NoType
                               /\ ~doTypesOverlap(type, v.info.parentType)
    IN  {Error("PossibleFragmentSpreads", v.node.typeCondition) :
            v \in {v \in At(visits, {"InlineFragment"}) : Impossible(v, v.info.type)}}
        \union Errors("PossibleFragmentSpreads",
            {v \in At(visits, {"FragmentSpread"}) :
                /\ v.node.name \in FragmentNames(ast)
                /\ Impossible(v, TypeOf(getFragment(ast, v.node.name).typeCondition))})

-----------------------------------------------------------------------------
(* Rules about fields, values and variables.                                *)

FieldsOnCorrectType(visits) ==
    Errors("FieldsOnCorrectType",
           {v \in At(visits, {"Field"}) :
               v.info.parentType # NoType /\ v.info.fieldDef.type = NoType})

ScalarLeafs(visits) ==
    Errors("ScalarLeafs",
           {v \in At(visits, {"Field"}) :
               /\ v.info.type # NoType
               /\ isLeafType(v.info.type) # (v.node.selections = <<>>)})

ProvidedNonNullArguments(visits) ==
    LET Missing(v, def) == {n \in DOMAIN ArgsOf(def) :
                               /\ IsNonNull(ArgsOf(def)[n].type)
                               /\ n \notin ToSet(NamesIn(v.node.arguments))}
    IN  Errors("ProvidedNonNullArguments",
               {v \in At(visits, {"Field"}) : Missing(v, v.info.fieldDef) # {}}
               \union {v \in At(visits, {"Directive"}) : Missing(v, v.info.directive) # {}})

ArgumentsOfCorrectType(visits) ==
    Errors("ArgumentsOfCorrectType",
           {v \in At(visits, {"Argument"}) :
               /\ v.info.argument # NoDef
               /\ ~isValidLiteralValue(v.info.argument.type, <<v.node.value>>)})

\* A default value of an output type makes isValidLiteralValue throw, and validate
\* with it.
DefaultValuesOfCorrectType(visits) ==
    LET Defaults == {v \in At(visits, {"VariableDefinition"}) : v.node.defaultValue # <<>>}
        Throws(v) == MeetsOutputType(v.info.inputType, v.node.defaultValue)
        name(v)   == v.node.variable.name
        typed     == {v \in Defaults : v.info.inputType # NoType}
    IN  {Error("Throws", name(v)) : v \in {v \in typed : Throws(v)}}
        \union {Error("DefaultValuesOfCorrectType", name(v)) : v \in {v \in typed :
                  \/ IsNonNull(v.info.inputType)
                  \/ ~Throws(v) /\ ~isValidLiteralValue(v.info.inputType, v.node.defaultValue)}}

Defined(operation) == {operation.variableDefinitions[i].variable.name :
                          i \in DOMAIN operation.variableDefinitions}
Used(ast, operation) == {v.node.name : v \in getRecursiveVariableUsages(ast, operation)}

NoUndefinedVariables(ast) ==
    {Error("NoUndefinedVariables", n) :
        n \in UNION {Used(ast, o) \ Defined(o) : o \in operations(ast)}}
NoUnusedVariables(ast) ==
    {Error("NoUnusedVariables", n) :
        n \in UNION {Defined(o) \ Used(ast, o) : o \in operations(ast)}}

VariablesAreInputTypes(visits) ==
    {Error("VariablesAreInputTypes", v.node.variable.name) :
        v \in {v \in At(visits, {"VariableDefinition"}) :
                  /\ typeFromAST(v.node.type) # NoType
                  /\ ~isInputType(typeFromAST(v.node.type))}}

\* A default value makes a variable's type effectively non-null.
effectiveType(type, definition) ==
    IF definition.defaultValue = <<>> \/ IsNonNull(type) THEN type ELSE NonNull(type)

VariablesInAllowedPosition(ast) ==
    LET Definition(o, n) == Last(SelectSeq(o.variableDefinitions,
                                           LAMBDA d : d.variable.name = n))
        Misplaced(o, v) ==
            /\ v.node.name \in Defined(o) /\ v.info.inputType # NoType
            /\ LET d == Definition(o, v.node.name)
                   type == typeFromAST(d.type)
               IN  type # NoType
                   /\ ~isTypeSubTypeOf(effectiveType(type, d), v.info.inputType)
    IN  UNION {Errors("VariablesInAllowedPosition",
                      {v \in getRecursiveVariableUsages(ast, o) : Misplaced(o, v)}) :
                  o \in operations(ast)}

-----------------------------------------------------------------------------
(* OverlappingFieldsCanBeMerged.  The fields of a selection set are records  *)
(* of the response name, the parent type, the node and the definition.      *)
(* Two fragments are not compared again while they are being compared; a    *)
(* set of fields is compared with a fragment and all it spreads, without    *)
(* an end if these come back to it: the error "Throws".                     *)

RECURSIVE collectFieldsAndFragmentNames(_, _)
collectFieldsAndFragmentNames(parentType, node) ==
    LET own   == {s \in ToSet(node.selections) : s.kind = "Field"}
        inner == {collectFieldsAndFragmentNames(
                    IF s.typeCondition = "" THEN parentType ELSE TypeOf(s.typeCondition), s) :
                    s \in {s \in ToSet(node.selections) : s.kind = "InlineFragment"}}
        Def(n) == IF KindOf(parentType) \in {"Object", "Interface"}
                  THEN Lookup(types[parentType.name].fields, n) ELSE NoDef
    IN  [fields |-> {[responseName |-> IF s.alias = "" THEN s.name ELSE s.alias,
                      parent |-> parentType, node |-> s, def |-> Def(s.name)] : s \in own}
                    \union UNION {i.fields : i \in inner},
         fragments |-> {s.name : s \in {s \in ToSet(node.selections) :
                                          s.kind = "FragmentSpread"}}
                       \union UNION {i.fragments : i \in inner}]

getReferencedFieldsAndFragmentNames(ast, n) ==
    LET fragment == getFragment(ast, n)
    IN  collectFieldsAndFragmentNames(TypeOf(fragment.typeCondition), fragment)

sameArguments(arguments1, arguments2) ==
    /\ Len(arguments1) = Len(arguments2)
    /\ \A i \in DOMAIN arguments1 :
          LET j == SelectInSeq(arguments2, LAMBDA a : a.name = arguments1[i].name)
          IN  j > 0 /\ arguments2[j].value = arguments1[i].value

RECURSIVE doTypesConflict(_, _)
doTypesConflict(type1, type2) ==
    IF IsList(type1) \/ IsList(type2)
    THEN IsList(type1) /\ IsList(type2) => doTypesConflict(type1.type, type2.type)
    ELSE IF IsNonNull(type1) \/ IsNonNull(type2)
    THEN IsNonNull(type1) /\ IsNonNull(type2) => doTypesConflict(type1.type, type2.type)
    ELSE (isLeafType(type1) \/ isLeafType(type2)) /\ type1 # type2

Conflict(n) == {Error("OverlappingFieldsCanBeMerged", n)}

RECURSIVE findConflict(_, _, _, _, _), BetweenFieldsAndFragment(_, _, _, _, _, _),
          BetweenFragments(_, _, _, _, _)

\* The fields of one set are compared with those of another.
collectConflictsBetween(ast, compared, exclusive, fields1, fields2) ==
    UNION {findConflict(ast, compared, exclusive, f, g) : <<f, g>> \in
             {<<f, g>> \in fields1 \X fields2 : f.responseName = g.responseName}}

BetweenFieldsAndFragment(ast, compared, exclusive, fields, n, path) ==
    IF n \notin FragmentNames(ast) THEN {}
    ELSE IF n \in path THEN {Error("Throws", n)}
    ELSE UNION {collectConflictsBetween(ast, compared, exclusive, fields, referenced.fields)
                \union UNION {BetweenFieldsAndFragment(ast, compared, exclusive, fields, m,
                                                       path \union {n}) :
                                 m \in referenced.fragments} :
                   referenced \in {getReferencedFieldsAndFragmentNames(ast, n)}}

BetweenFragments(ast, compared, exclusive, n, m) ==
    IF \/ {n, m} \ FragmentNames(ast) # {} \/ n = m
       \/ <<{n, m}, FALSE>> \in compared \/ (exclusive /\ <<{n, m}, TRUE>> \in compared)
    THEN {}
    ELSE LET now == compared \union {<<{n, m}, exclusive>>}
         IN  UNION {collectConflictsBetween(ast, now, exclusive, a.fields, b.fields)
                    \union UNION {BetweenFragments(ast, now, exclusive, k, l) : <<k, l>> \in
                                     ({n} \X b.fragments) \union (a.fragments \X {m})} :
                       a \in {getReferencedFieldsAndFragmentNames(ast, n)},
                       b \in {getReferencedFieldsAndFragmentNames(ast, m)}}

findConflictsBetweenSubSelectionSets(ast, compared, exclusive, a, b) ==
    collectConflictsBetween(ast, compared, exclusive, a.fields, b.fields)
        \union UNION {BetweenFieldsAndFragment(ast, compared, exclusive, fields, n, {}) :
                         <<fields, n>> \in ({a.fields} \X b.fragments)
                                           \union ({b.fields} \X a.fragments)}
        \union UNION {BetweenFragments(ast, compared, exclusive, n, m) :
                         <<n, m>> \in a.fragments \X b.fragments}

Conflicts(ast, compared, exclusive, f, g) ==
    LET Sub(x) == collectFieldsAndFragmentNames(getNamedType(x.def.type), x.node)
        And(subconflicts) == {e \in subconflicts : e.rule = "Throws"}
                             \union IF subconflicts = {} THEN {} ELSE Conflict(f.responseName)
    IN  IF \/ /\ ~exclusive
              /\ \/ f.node.name # g.node.name
                 \/ ~sameArguments(f.node.arguments, g.node.arguments)
           \/ /\ f.def # NoDef /\ g.def # NoDef
              /\ doTypesConflict(f.def.type, g.def.type)
        THEN Conflict(f.responseName)
        ELSE IF f.node.selections = <<>> \/ g.node.selections = <<>> THEN {}
        ELSE And(findConflictsBetweenSubSelectionSets(ast, compared, exclusive, Sub(f), Sub(g)))

\* Mutant: an interface and an object are taken for exclusive.
findConflict_mutant(ast, compared, parentsExclusive, f, g) ==
    LET exclusive == \/ parentsExclusive
                     \/ f.parent # g.parent
    IN  Conflicts(ast, compared, exclusive, f, g)

\* Fields of different object types cannot both apply: they may differ in name
\* and arguments, not in the kind of their type.
findConflict(ast, compared, parentsExclusive, f, g) ==
    LET exclusive == \/ parentsExclusive
                     \/ /\ f.parent # g.parent
                        /\ KindOf(f.parent) = "Object" /\ KindOf(g.parent) = "Object"
    IN  Conflicts(ast, compared, exclusive, f, g)

\* The fields of one set are compared with one another, with the fragments spread
\* in it, and these with one another.
findConflictsWithinSelectionSet(ast, parentType, node) ==
    UNION {UNION {findConflict(ast, {}, FALSE, f, g) : <<f, g>> \in
                    {<<f, g>> \in set.fields \X set.fields :
                        f # g /\ f.responseName = g.responseName}}
           \union UNION {BetweenFieldsAndFragment(ast, {}, FALSE, set.fields, n, {}) :
                            n \in set.fragments}
           \union UNION {BetweenFragments(ast, {}, FALSE, n, m) :
                            <<n, m>> \in set.fragments \X set.fragments} :
              set \in {collectFieldsAndFragmentNames(parentType, node)}}

OverlappingFieldsCanBeMerged(ast, visits) ==
    UNION {findConflictsWithinSelectionSet(ast, InSelections(v.info).parentType, v.node) :
             v \in {v \in At(visits, {"OperationDefinition", "Field", "InlineFragment",
                                      "FragmentDefinition"}) : v.node.selections # <<>>}}

-----------------------------------------------------------------------------
\* specifiedRules, and validate: an error "Throws" means that it returns nothing.
specifiedRules(ast, visits) ==
    UniqueOperationNames(ast) \union LoneAnonymousOperation(ast)
    \union KnownTypeNames(visits) \union FragmentsOnCompositeTypes(visits)
    \union VariablesAreInputTypes(visits) \union ScalarLeafs(visits)
    \union FieldsOnCorrectType(visits) \union UniqueFragmentNames(ast)
    \union KnownFragmentNames(ast, visits) \union NoUnusedFragments(ast)
    \union PossibleFragmentSpreads(ast, visits) \union NoFragmentCycles(ast)
    \union UniqueVariableNames(ast) \union NoUndefinedVariables(ast)
    \union NoUnusedVariables(ast) \union KnownDirectives(visits)
    \union KnownArgumentNames(visits) \union UniqueArgumentNames(visits)
    \union ArgumentsOfCorrectType(visits) \union ProvidedNonNullArguments(visits)
    \union DefaultValuesOfCorrectType(visits) \union VariablesInAllowedPosition(ast)
    \union OverlappingFieldsCanBeMerged(ast, visits) \union UniqueInputFieldNames(visits)
validate(ast) == specifiedRules(ast, VisitsOf(ToSet(ast)))

=============================================================================
