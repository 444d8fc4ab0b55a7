--------------------------- MODULE GraphQLSession ---------------------------
(***************************************************************************)
(* A query being written in GraphiQL: the text of the query editor, typed  *)
(* a token at a time, completed from the hints, pasted, printed anew and   *)
(* filled in; then its variables, in the variable editor.  What the bundled *)
(* libraries make of each text is compared: the colouring with the parser, *)
(* the printer with the parser, the hints with the validation, the         *)
(* validation with the execution.                                          *)
(***************************************************************************)
EXTENDS GraphQLExecution, FillLeafs, VariablesLint

CONSTANTS Tokens,          \* the tokens that are typed
          Snippets, Fragments,   \* the definitions that are pasted
          Inputs,          \* the variables of the runs
          Declaring,       \* the queries whose variables are edited
          JsonTokens, JsonTexts,   \* what is typed or pasted as their variables
          MaxTyped, MaxJson, MaxDefinitions   \* bounds: of typed texts, pasted documents

VARIABLES text,
          facts,           \* <<the query's facts>> once its variables are edited
          variables
vars == <<text, facts, variables>>

H == INSTANCE QueryHints
V == INSTANCE VariablesMode

\* The parser has no fault to find with a text but that it may not be complete.
MayGoOn(t) == LET parsed == parse(t) IN parsed.ok \/ parsed.at > Len(t)
\* The document the text parses to, if it does; looked at until its variables are edited.
Nodes(parsed) == IF parsed.ok THEN {parsed.node} ELSE {}
Documents     == IF facts = <<>> THEN Nodes(parse(text)) ELSE {}

Hints(t) == H!getHintsAtPosition(t, H!Spaced(H!States(t)[Len(t)]))

-----------------------------------------------------------------------------
\* The same for the variables.
JsonMayGoOn(t) == LET parsed == jsonParse(t) IN parsed.ok \/ parsed.at > Len(t)
variableToType == facts[1].variableToType
VariableHints(t) ==
    V!getVariablesHint(variableToType, IF t = <<>> THEN V!Online!startState.stack
                                       ELSE V!Spaced(V!States(t)[Len(t)]))

Init == text = <<>> /\ facts = <<>> /\ variables = <<>>

\* Typing stops at MaxTyped tokens, and at a mistake.
Type(token) ==
    /\ Len(text) < MaxTyped
    /\ MayGoOn(Append(text, token))
    /\ text' = Append(text, token)

Complete ==
    /\ text # <<>> /\ Len(text) < MaxTyped
    /\ \E hint \in Hints(text) : text' = Append(text, hint.text)

\* A definition is pasted into an empty editor, fragments behind it.
Paste ==
    \/ text = <<>> /\ text' \in Snippets \union Declaring
    \/ /\ \E ast \in Documents : Len(ast) < MaxDefinitions
       /\ \E definition \in Fragments : text' = text \o definition

\* handlePrettifyQuery
Prettify == \E ast \in Documents : text' = join(ast)

\* The run button and its shortcut.
AutoComplete == Documents # {} /\ text' = fillLeafs(text)

EditQuery ==
    /\ facts = <<>>
    /\ \/ \E token \in Tokens : Type(token)
       \/ Complete
       \/ Paste
       \/ Prettify
       \/ AutoComplete
    /\ UNCHANGED <<facts, variables>>

\* The query is finished, and its facts are known to the variable editor.
UpdateQueryFacts ==
    /\ facts = <<>> /\ text \in Declaring
    /\ facts' = getQueryFacts(text)
    /\ UNCHANGED <<text, variables>>

\* The variables are typed (up to MaxJson tokens), completed or pasted.
TypeVariables(token) ==
    /\ Len(variables) < MaxJson
    /\ JsonMayGoOn(Append(variables, token))
    /\ variables' = Append(variables, token)

CompleteVariables ==
    /\ Len(variables) < MaxJson
    /\ \E hint \in VariableHints(variables) : variables' = variables \o hint

EditVariables ==
    /\ facts # <<>>
    /\ \/ \E token \in JsonTokens : TypeVariables(token)
       \/ CompleteVariables
       \/ variables = <<>> /\ variables' \in JsonTexts
    /\ UNCHANGED <<text, facts>>

Next == EditQuery \/ UpdateQueryFacts \/ EditVariables

Spec == Init /\ [][Next]_vars

-----------------------------------------------------------------------------
(* What colours, prints, hints, checks and fills in a query is a handful of *)
(* separate walks over the same grammar and the same schema.               *)

\* The lists in lists among the types of a text's variables: where the inner ones
\* begin, and what they are made of besides names.
NestedLists(t) ==
    {i \in DOMAIN t : \E c \in 3..(i - 2) : /\ t[c - 2] = "$" /\ t[c] = ":"
                                           /\ \A k \in (c + 1)..i : t[k] = "["}
PartsOfNestedLists(t) ==
    LET Part(k) == t[k] \in {"[", "]", "!"}
    IN  {p \in DOMAIN t : Part(p) /\ \E i \in NestedLists(t) :
            i <= p /\ \A k \in i..p : Part(k) \/ t[k - 1] = "["}

\* The rules of the incremental parser (ParseRules of each mode) take every token
\* the parser (the linter's, in the variable editor) takes, as the comment above them
\* has it, so nothing of a query or of variables that is right so far is coloured as
\* a mistake.  The exception is a variable whose type is a list of lists: ListType is
\* a list of a NamedType, where parseType takes any type.  The inner bracket is then
\* always a mistake; but no more than the brackets and marks of that list are, as
\* the incremental parser is back in step with what follows.
ColoursFollowTheParser ==
    IF facts = <<>>
    THEN MayGoOn(text) =>
            \A states \in {H!States(text)} :
                LET mistakes == {i \in DOMAIN text : states[i].invalid}
                IN  /\ NestedLists(text) \subseteq mistakes
                    /\ mistakes \subseteq PartsOfNestedLists(text)
    ELSE JsonMayGoOn(variables) => \A states \in {V!States(variables)} :
                                      \A i \in DOMAIN variables : ~states[i].invalid

\* The prettify button never changes what the document says: printing leaves out
\* nothing that the parser reads back otherwise.
PrintedQueriesParseBack ==
    \A ast \in Documents : Nodes(parse(join(ast))) = {ast}

\* The schema's names in a text, as the rules of the incremental parser read them.
\* Default values are not hinted at; the name of an alias is no field.
Role(state) ==
    LET f == Last(state.stack)
    IN  IF ~state.needsAdvance THEN "none"
        ELSE CASE f.kind = "Field"         /\ f.step = 1 -> "field"
               [] f.kind = "Argument"      /\ f.step = 1 -> "argument"
               [] f.kind = "ObjectField"   /\ f.step = 1 -> "objectField"
               [] f.kind = "TypeCondition" /\ f.step = 2 -> "typeCondition"
               [] f.kind = "FragmentSpread" /\ f.step = 2 -> "fragment"
               [] f.kind = "Directive"     /\ f.step = 2 -> "directive"
               [] f.kind = "NamedType"     /\ f.step = 1 -> "inputType"
               [] f.kind = "EnumValue"     /\ f.step = 1 -> "value"
               [] OTHER -> "none"
Names(states) == {i \in DOMAIN text : /\ Role(states[i]) # "none"
                                      /\ ~\E f \in ToSet(states[i].stack) : f.kind = "DefaultValue"}
\* The names that are hinted at neither before their first letter nor while they
\* are being typed.
Unhinted(states) ==
    {[role |-> Role(states[i]), text |-> text[i]] : i \in {i \in Names(states) :
        \A stack \in {H!Spaced(states[i - 1]), states[i].stack} :
            [what |-> Role(states[i]), text |-> text[i]]
                \notin H!getHintsAtPosition(text, stack)}}

\* The keys of the variables that are not hinted at where they begin.
UnhintedKeys(states) ==
    {variables[i] : i \in {i \in DOMAIN variables :
        /\ states[i].needsAdvance
        /\ Last(states[i].stack).kind \in {"Variable", "ObjectField"}
        /\ <<variables[i], ":">> \notin V!getVariablesHint(variableToType, V!Spaced(states[i - 1]))}}

\* The hints and the validation keep their own account of the types along a query
\* (getTypeInfo and TypeInfo).  A query that is made of hinted names only has no
\* error about a name; of a valid one every name was hinted, but the type a
\* condition narrows and the __typename of an object.  The keys of variables are
\* known to the linter if and only if they were hinted, as long as it looks at them:
\* in a value of another type it does not look.
NameRules == {"FieldsOnCorrectType", "KnownArgumentNames", "KnownTypeNames",
              "KnownDirectives", "KnownFragmentNames", "PossibleFragmentSpreads",
              "FragmentsOnCompositeTypes", "VariablesAreInputTypes"}
HintsAgreeWithTheValidation ==
    /\ \A ast \in Documents :
          \A errors \in {validate(ast)}, unhinted \in {Unhinted(H!States(text))} :
              /\ unhinted = {} => \A e \in errors : e.rule \notin NameRules
              /\ errors = {} => \A n \in unhinted : \/ n.role = "typeCondition"
                                                   \/ n.text = "__typename"
    /\ facts # <<>> =>
          \A errors \in {lint(variables, facts)} :
              \A unhinted \in {UnhintedKeys(V!States(variables))} :
                  /\ errors = {} => unhinted = {}
                  /\ unhinted = {} => \A e \in errors :
                        e.what \notin {"unknown variable", "unknown field"}

-----------------------------------------------------------------------------
\* Does a value of the response have the type of its field?
RECURSIVE Conforms(_, _)
Conforms(v, t) ==
    IF IsNonNull(t) THEN v # Null /\ Conforms(v, t.type)
    ELSE IF v = Null THEN TRUE
    ELSE IF IsList(t) THEN v.is = "array" /\ \A i \in DOMAIN v.items : Conforms(v.items[i], t.type)
    ELSE IF isLeafType(t) THEN parseValue(t.name, v) = v
    ELSE /\ v.is = "object" /\ isTypeSubTypeOf(Named(v.type), t)
         /\ \A k \in DOMAIN v.entries :
                Conforms(v.entries[k].value,
                         executionFieldDef(Named(v.type), v.entries[k].field).type)

\* Every key of the response, for whatever objects the resolvers return, answers
\* fields of one name, known to the object, with the same arguments of their types.
RECURSIVE Unambiguous(_, _, _)
Unambiguous(context, type, nodes) ==
    \A fields \in Range(SubFields(context, type, nodes)) :
        LET def    == executionFieldDef(type, fields[1].name)
            object == getNamedType(def.type)
            given  == {getArgumentValues(ArgsOf(def), fields[i].arguments, context.variables) :
                          i \in DOMAIN fields}
        IN  /\ def.type # NoType
            /\ \A i \in DOMAIN fields : fields[i].name = fields[1].name
            /\ \A values, others \in given :
                  /\ values = others
                  /\ \A a \in DOMAIN ArgsOf(def) :
                        isValidJSValue(IF a \in DOMAIN values THEN values[a] ELSE Null,
                                       ArgsOf(def)[a].type)
            /\ isCompositeType(object) =>
                  \A n \in IF isAbstractType(object) THEN getPossibleTypes(object)
                           ELSE {object.name} :
                      Unambiguous(context, Named(n), fields)

\* An operation the validation accepts is executed without ambiguity: fields merged
\* under one key agree (OverlappingFieldsCanBeMerged against collectFields), values
\* reach the arguments with their types, and the data keeps the types of the schema
\* whatever fails in it.
ValidQueriesAreExecutedAsTyped ==
    \A ast \in Documents : validate(ast) = {} =>
        \A o \in operations(ast) :
            \A context \in {buildExecutionContext(ast, inputs, o.name) : inputs \in Inputs} :
                context.ok => /\ Unambiguous(context, RootType(o.operation), <<o>>)
                              /\ Conforms(execute(context), RootType(o.operation))

\* The search of NoFragmentCycles, which visits a fragment once, finds a cycle if
\* and only if some fragment reaches itself, as long as their names are unique (of
\* two of a name it visits the first, and the spreads mean the last); and the
\* comparison of fields comes to an end where there is none.
FragmentCyclesAreFound ==
    \A ast \in Documents :
        LET Looping == {n \in FragmentNames(ast) :
                          n \in getRecursivelyReferencedFragments(ast, getFragment(ast, n))}
        IN  /\ UniqueFragmentNames(ast) = {} =>
                  /\ (NoFragmentCycles(ast) # {}) <=> (Looping # {})
                  /\ \A e \in NoFragmentCycles(ast) : e.name \in Looping
            /\ Looping = {} => \A e \in OverlappingFieldsCanBeMerged(ast, VisitsOf(ToSet(ast))) :
                                  e.rule # "Throws"

\* Filling in leaves no field without the selection it needs, unless its type has
\* no fields to choose from, and makes no new error but a conflict with a selection
\* that was there, or an argument missing in a field it chose.
FilledQueriesAreNoWorse ==
    \A ast \in Documents, filled \in {parse(fillLeafs(text))} :
        /\ filled.ok
        /\ \A v \in At(VisitsOf(ToSet(filled.node)), {"Field"}) :
              \/ v.node.selections # <<>> \/ v.info.type = NoType
              \/ isLeafType(v.info.type)
              \/ defaultGetDefaultFieldNames(getNamedType(v.info.type)) = <<>>
        /\ \A errors \in {[node \in {ast, filled.node} |-> validate(node)]} :
              \A e \in errors[filled.node] \ errors[ast] :
                  e.rule \in {"OverlappingFieldsCanBeMerged", "ProvidedNonNullArguments"}

\* The linter of the variable editor and the coercion of an execution read the same
\* values their own way.  Variables without a remark of the linter are taken: what
\* they give for a variable of the operation has a value of its type.  (It does not
\* remark on a variable that is missing, or of no input type.)
LintedVariablesAreTaken ==
    variables # <<>> /\ lint(variables, facts) = {} =>
        \A o \in ToSet(facts[1].operations),
           given \in {JsonValue(jsonParse(variables).node).members} :
            \A d \in ToSet(o.variableDefinitions) :
                d.variable.name \in DOMAIN given /\ isInputType(d.type)
                        => getVariableValue(d, given[d.variable.name]) # Thrown

=============================================================================
