----------------------------- MODULE QueryHints -----------------------------
(***************************************************************************)
(* The hints of the query editor, read from the stack of the incremental   *)
(* parser at the cursor.  What has been typed of a word narrows the list   *)
(* and orders it, which is left out.                                       *)
(***************************************************************************)
EXTENDS QueryMode

TypeOf(n) == IF n \in DOMAIN types THEN Named(n) ELSE NoType
FieldsOf(parent) ==
    IF KindOf(parent) \in {"Object", "Interface", "InputObject"}
    THEN types[parent.name].fields ELSE <<>>

\* A declaration of the schema, and its type; a missing one has no type.
NoDef == [type |-> NoType]
Lookup(defs, n) == IF n \in DOMAIN defs THEN defs[n] ELSE NoDef

hintsFieldDef(parent, n) ==
    IF n = "__typename" /\ isCompositeType(parent) THEN getFieldDef(parent, n)
    ELSE Lookup(FieldsOf(parent), n)

ArgsOf(def) == IF "args" \in DOMAIN def THEN def.args ELSE <<>>

\* getTypeInfo: one rule of the stack after the other, from the outermost.
Informed(stack, i, info) ==
    LET f    == stack[i]
        prev == IF i = 1 THEN "" ELSE stack[i - 1].kind
    IN  CASE f.kind \in {"Query", "ShortQuery"} -> [info EXCEPT !.type = TypeOf(queryType)]
          [] f.kind = "Mutation" -> [info EXCEPT !.type = TypeOf(mutationType)]
          [] f.kind = "Subscription" -> [info EXCEPT !.type = NoType]
          [] f.kind \in {"InlineFragment", "FragmentDefinition"} /\ f.type # "" ->
                [info EXCEPT !.type = TypeOf(f.type)]
          [] f.kind = "Field" ->
                LET def == IF info.type = NoType \/ f.name = "" THEN NoDef
                           ELSE hintsFieldDef(info.parentType, f.name)
                IN  [info EXCEPT !.fieldDef = def, !.type = def.type]
          [] f.kind = "SelectionSet" ->
                [info EXCEPT !.parentType = getNamedType(info.type)]
          [] f.kind = "Directive" -> [info EXCEPT !.directiveDef = Lookup(directives, f.name)]
          [] f.kind = "Arguments" ->
                [info EXCEPT !.argDefs =
                    CASE prev = "Field"     -> ArgsOf(info.fieldDef)
                      [] prev = "Directive" -> ArgsOf(info.directiveDef)
                      [] OTHER -> <<>>]
          [] f.kind = "Argument" -> [info EXCEPT !.inputType = Lookup(info.argDefs, f.name).type]
          [] f.kind = "ListValue" ->
                LET type == getNullableType(info.inputType)
                IN  [info EXCEPT !.inputType = IF IsList(type) THEN type.type ELSE NoType]
          [] f.kind = "ObjectValue" ->
                LET type == getNamedType(info.inputType)
                IN  [info EXCEPT !.objectFieldDefs =
                        IF KindOf(type) = "InputObject" THEN types[type.name].fields
                        ELSE <<>>]
          [] f.kind = "ObjectField" ->
                [info EXCEPT !.inputType = Lookup(info.objectFieldDefs, f.name).type]
          [] OTHER -> info

getTypeInfo(stack) ==
    FoldLeftDomain(LAMBDA info, i : Informed(stack, i, info),
                   [type |-> NoType, parentType |-> NoType, inputType |-> NoType,
                    directiveDef |-> NoDef, fieldDef |-> NoDef,
                    argDefs |-> <<>>, objectFieldDefs |-> <<>>],
                   stack)

getDefinitionState(stack) ==
    SelectLastInSeq(stack, LAMBDA f : f.kind \in {"Query", "ShortQuery", "Mutation",
                                                  "Subscription", "FragmentDefinition"})

\* The stack once a space follows the last token.
Spaced(state) ==
    IF state.needsAdvance THEN Online!advanceRule(state.stack, TRUE) ELSE state.stack

\* getFragmentDefinitions: the fragments whose name and type have been read.
getFragmentDefinitions(text) ==
    LET states == States(text)
        tops   == {Last(Spaced(states[i])) : i \in 1..Len(text)}
    IN  {f \in tops : f.kind = "FragmentDefinition" /\ f.name # "" /\ f.type # ""}

canUseDirective(kind, locations) ==
    CASE kind = "Query"              -> "QUERY" \in locations
      [] kind = "Mutation"           -> "MUTATION" \in locations
      [] kind = "Subscription"       -> "SUBSCRIPTION" \in locations
      [] kind = "Field"              -> "FIELD" \in locations
      [] kind = "FragmentDefinition" -> "FRAGMENT_DEFINITION" \in locations
      [] kind = "FragmentSpread"     -> "FRAGMENT_SPREAD" \in locations
      [] kind = "InlineFragment"     -> "INLINE_FRAGMENT" \in locations
      [] OTHER -> FALSE

PossibleConditions(parent) ==
    IF parent = NoType
    THEN {n \in DOMAIN types : isCompositeType(Named(n))}
    ELSE IF isAbstractType(parent)
    THEN getPossibleTypes(parent)
         \union UNION {types[n].interfaces : n \in getPossibleTypes(parent)}
    ELSE {parent.name}

\* Mutant: fragments of types that could not apply are offered.
SpreadableFragments_mutant(text, stack, parent) ==
    LET d    == getDefinitionState(stack)
        self == IF d > 0 /\ stack[d].kind = "FragmentDefinition" THEN stack[d].name ELSE ""
    IN  {f.name : f \in {f \in getFragmentDefinitions(text) :
            /\ f.type \in DOMAIN types
            /\ f.name # self
            /\ parent # NoType}}

\* A fragment is offered unless it is the one being written, or could not apply
\* here.  Where the type is not known no fragment is: of an interface or a union
\* doTypesOverlap throws, of an object it is false.
SpreadableFragments(text, stack, parent) ==
    LET d    == getDefinitionState(stack)
        self == IF d > 0 /\ stack[d].kind = "FragmentDefinition" THEN stack[d].name ELSE ""
    IN  {f.name : f \in {f \in getFragmentDefinitions(text) :
            /\ f.type \in DOMAIN types
            /\ f.name # self
            /\ parent # NoType /\ doTypesOverlap(parent, Named(f.type))}}

Hint(what, names) == {[what |-> what, text |-> n] : n \in names}

\* getHintsAtPosition: steps count from 1.
HintsAt(text, stack, info) ==
    LET f     == Last(stack)
        prev  == IF Len(stack) = 1 THEN "" ELSE stack[Len(stack) - 1].kind
        At(k, s) == f.kind = k /\ f.step = s
        input == getNamedType(info.inputType)
    IN  CASE f.kind = "Document" ->
                Hint("keyword", {"query", "mutation", "subscription", "fragment", "{"})
          [] f.kind \in {"SelectionSet", "Field", "AliasedField"} ->
                Hint("field", DOMAIN FieldsOf(info.parentType)
                              \union IF isAbstractType(info.parentType) THEN {"__typename"}
                                     ELSE {})
          [] f.kind = "Arguments" \/ At("Argument", 1) ->
                Hint("argument", DOMAIN info.argDefs)
          [] f.kind = "ObjectValue" \/ At("ObjectField", 1) ->
                Hint("objectField", DOMAIN info.objectFieldDefs)
          [] \/ f.kind = "EnumValue"
             \/ At("ListValue", 2) \/ At("ObjectField", 3) \/ At("Argument", 3) ->
                Hint("value", CASE KindOf(input) = "Enum"      -> types[input.name].values
                                [] input = Named("Boolean")    -> {"true", "false"}
                                [] OTHER -> {})
          [] At("TypeCondition", 2) ->
                Hint("typeCondition", PossibleConditions(info.parentType))
          [] At("FragmentSpread", 2) ->
                Hint("fragment", SpreadableFragments(text, stack, info.parentType))
          [] \/ At("VariableDefinition", 3) \/ At("ListType", 2)
             \/ f.kind = "NamedType" /\ prev = "ListType" ->
                Hint("inputType", {n \in DOMAIN types : isInputType(Named(n))})
          [] f.kind = "Directive" ->
                Hint("directive", {n \in DOMAIN directives :
                                      canUseDirective(prev, directives[n].locations)})
          [] OTHER -> {}
getHintsAtPosition(text, stack) == HintsAt(text, stack, getTypeInfo(stack))

=============================================================================
