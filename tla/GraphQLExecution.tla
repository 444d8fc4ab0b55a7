-------------------------- MODULE GraphQLExecution --------------------------
(***************************************************************************)
(* Execution of a parsed document: the values of variables and arguments,  *)
(* the fields collected for an object, and the completion of what their    *)
(* resolvers return, which stops a null where the type is nullable.        *)
(*                                                                         *)
(* The resolvers are of the user of the library: here a table of results.  *)
(* They return at once, so promises are left out; every object type has an *)
(* isTypeOf.  What a call throws is the value Thrown.                      *)
(***************************************************************************)
EXTENDS GraphQLValidation

CONSTANT Resolved    \* [object types -> [their fields -> results]]

Thrown == [is |-> "thrown"]

-----------------------------------------------------------------------------
(* Values.                                                                  *)

getVariableValue(definition, input) ==
    LET type == typeFromAST(definition.type)
    IN  IF type = NoType THEN Thrown
        ELSE IF ~isInputType(type) THEN Thrown
        ELSE IF ~isValidJSValue(input, type) THEN Thrown
        ELSE IF input = Null /\ definition.defaultValue # <<>>
        THEN valueFromAST(definition.defaultValue, type, <<>>)
        ELSE coerceValue(type, input)

\* Of two definitions of one variable the last counts.
getVariableValues(definitions, inputs) ==
    LET Definition(n) == Last(SelectSeq(definitions, LAMBDA d : d.variable.name = n))
        input(n)      == IF n \in DOMAIN inputs THEN inputs[n] ELSE Null
    IN  [n \in {definitions[i].variable.name : i \in DOMAIN definitions} |->
            getVariableValue(Definition(n), input(n))]

getArgumentValues(argDefs, nodes, variables) ==
    LET Given(n) == SelectSeq(nodes, LAMBDA a : a.name = n)
    IN  WithDefaults(argDefs,
            [n \in DOMAIN argDefs |->
                valueFromAST(IF Given(n) = <<>> THEN <<>> ELSE <<Last(Given(n)).value>>,
                             argDefs[n].type, variables)])

-----------------------------------------------------------------------------
(* buildExecutionContext.  A name of <<>> is no operation name; the context  *)
(* of a request that cannot be executed is not ok.                          *)

NotExecuted == [ok |-> FALSE]
ContextOf(ast, operation, variables) ==
    IF Thrown \in Range(variables) \/ RootType(operation.operation) = NoType
    THEN NotExecuted
    ELSE [ok |-> TRUE, ast |-> ast, operation |-> operation, variables |-> variables]
buildExecutionContext(ast, inputs, operationName) ==
    LET all    == Definitions(ast, "OperationDefinition")
        chosen == IF operationName = <<>> THEN all
                  ELSE SelectSeq(all, LAMBDA o : o.name = operationName)
    IN  IF \/ chosen = <<>>
           \/ operationName = <<>> /\ Len(all) > 1
           \/ \E i \in DOMAIN ast :
                 ast[i].kind \notin {"OperationDefinition", "FragmentDefinition"}
        THEN NotExecuted
        ELSE ContextOf(ast, Last(chosen),
                       getVariableValues(Last(chosen).variableDefinitions, inputs))

-----------------------------------------------------------------------------
(* The fields of an object.                                                 *)

IfArgument == [if |-> [type |-> NonNull(Named("Boolean")), default |-> Null]]

shouldIncludeNode(context, node) ==
    LET Says(name, value) ==
            LET i == SelectInSeq(node.directives, LAMBDA d : d.name = name)
            IN  /\ i > 0
                /\ getArgumentValues(IfArgument, node.directives[i].arguments,
                                     context.variables) = [if |-> JS("boolean", value)]
    IN  ~Says("skip", "true") /\ ~Says("include", "false")

doesFragmentConditionMatch(condition, type) ==
    \/ condition \in {"", type.name}
    \/ /\ condition \in DOMAIN types /\ isAbstractType(Named(condition))
       /\ isPossibleType(Named(condition), type)

\* The fields in the order met; a fragment is entered once, though it may have been
\* met for nothing.
RECURSIVE collectFields(_, _, _, _)
collectFields(context, runtimeType, node, collected) ==
    LET Select(so, s) ==
            IF \/ s.kind = "FragmentSpread" /\ s.name \in so.visited
               \/ ~shouldIncludeNode(context, s) THEN so
            ELSE IF s.kind = "Field" THEN [so EXCEPT !.fields = Append(@, s)]
            ELSE IF s.kind = "InlineFragment"
            THEN IF doesFragmentConditionMatch(s.typeCondition, runtimeType)
                 THEN collectFields(context, runtimeType, s, so) ELSE so
            ELSE LET visited == [so EXCEPT !.visited = @ \union {s.name}]
                 IN  IF s.name \notin FragmentNames(context.ast) THEN visited
                     ELSE LET f == getFragment(context.ast, s.name)
                          IN  IF doesFragmentConditionMatch(f.typeCondition, runtimeType)
                              THEN collectFields(context, runtimeType, f, visited)
                              ELSE visited
    IN  FoldLeft(Select, collected, node.selections)

\* The fields collected from the selection sets of some nodes, by response name.
getFieldEntryKey(node) == IF node.alias = "" THEN node.name ELSE node.alias
ByKey(fields) ==
    [key \in {getFieldEntryKey(fields[i]) : i \in DOMAIN fields} |->
        SelectSeq(fields, LAMBDA f : getFieldEntryKey(f) = key)]
SubFields(context, type, nodes) ==
    LET Collect(so, node) == collectFields(context, type, node, so)
    IN  ByKey(FoldLeft(Collect, [fields |-> <<>>, visited |-> {}], nodes).fields)

-----------------------------------------------------------------------------
(* Completion.  An object of the response keeps its type, and each of its   *)
(* entries the field it answers.                                            *)

executionFieldDef(type, n) ==
    IF n = "__typename" THEN getFieldDef(type, n) ELSE Lookup(types[type.name].fields, n)

RECURSIVE completeValue(_, _, _, _), executeFields(_, _, _)

\* The null or the error in the place of another.
Instead(completed, bad, good) == IF completed = bad THEN good ELSE completed

completeValueCatchingError(context, type, nodes, result) ==
    IF IsNonNull(type) THEN completeValue(context, type, nodes, result)
    ELSE Instead(completeValue(context, type, nodes, result), Thrown, Null)

ArrayOf(items) ==
    IF Thrown \in Range(items) THEN Thrown ELSE [is |-> "array", items |-> items]
ObjectOf(type, fields, values) ==
    IF Thrown \in Range(values) THEN Thrown
    ELSE [is |-> "object", type |-> type.name,
          entries |-> [k \in DOMAIN values |->
                          [field |-> fields[k][1].name, value |-> values[k]]]]

resolveField(context, type, nodes) ==
    LET n == nodes[1].name
        result == IF n = "__typename" THEN JS("string", type.name) ELSE Resolved[type.name][n]
    IN  completeValueCatchingError(context, executionFieldDef(type, n).type, nodes, result)

\* A field the type does not have is left out; one that throws takes the others with it.
executeFields(context, type, fields) ==
    LET known == {k \in DOMAIN fields :
                    executionFieldDef(type, fields[k][1].name).type # NoType}
    IN  ObjectOf(type, fields, [k \in known |-> resolveField(context, type, fields[k])])

completeObjectValue(context, type, nodes, result) ==
    IF result.is # "object" THEN Thrown
    ELSE IF result.type # type.name THEN Thrown
    ELSE executeFields(context, type, SubFields(context, type, nodes))

completeAbstractValue(context, type, nodes, result) ==
    IF result.is # "object" THEN Thrown
    ELSE IF ~isPossibleType(type, Named(result.type)) THEN Thrown
    ELSE completeObjectValue(context, Named(result.type), nodes, result)

completeListValue(context, type, nodes, result) ==
    IF result.is # "array" THEN Thrown
    ELSE ArrayOf([i \in DOMAIN result.items |->
                    completeValueCatchingError(context, type.type, nodes, result.items[i])])

\* Leaf values are serialized as values of variables are parsed.
completeValue(context, type, nodes, result) ==
    IF result = Thrown THEN Thrown
    ELSE IF IsNonNull(type)
    THEN Instead(completeValue(context, type.type, nodes, result), Null, Thrown)
    ELSE IF result = Null THEN Null
    ELSE IF IsList(type) THEN completeListValue(context, type, nodes, result)
    ELSE IF isLeafType(type) THEN parseValue(type.name, result)
    ELSE IF isAbstractType(type) THEN completeAbstractValue(context, type, nodes, result)
    ELSE completeObjectValue(context, type, nodes, result)

\* execute: the data of the response.
execute(context) ==
    LET root == RootType(context.operation.operation)
    IN  Instead(executeFields(context, root, SubFields(context, root, <<context.operation>>)),
                Thrown, Null)

=============================================================================
