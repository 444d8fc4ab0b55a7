----------------------------- MODULE FillLeafs -----------------------------
(***************************************************************************)
(* What the run button adds to a query: the default fields of every field  *)
(* that needs a selection and has none.  The fields of a type have no order *)
(* here; those of an added selection set come in some order.                *)
(***************************************************************************)
EXTENDS GraphQLValidation

defaultGetDefaultFieldNames(type) ==
    IF KindOf(type) \notin {"Object", "Interface", "InputObject"} THEN <<>>
    ELSE LET fields  == types[type.name].fields
             looked  == SelectSeq(<<"id", "edges", "node">>, LAMBDA n : n \in DOMAIN fields)
         IN  IF looked # <<>> THEN <<looked[1]>>
             ELSE SetToSeq({n \in DOMAIN fields : isLeafType(fields[n].type)})

Leaf(n) == [kind |-> "Field", name |-> n, alias |-> "", arguments |-> <<>>,
            directives |-> <<>>, selections |-> <<>>]

\* A type that leads back to itself by "edges" or "node" has no end here either.
RECURSIVE buildSelectionSet(_)
buildSelectionSet(type) ==
    IF type = NoType THEN <<>>
    ELSE IF isLeafType(type) THEN <<>>
    ELSE LET named == getNamedType(type)
             names == defaultGetDefaultFieldNames(named)
         IN  [i \in DOMAIN names |->
                [Leaf(names[i]) EXCEPT !.selections =
                    buildSelectionSet(types[named.name].fields[names[i]].type)]]

RECURSIVE Filled(_, _)
\* Mutant: the type of a selection set is not entered.
Filled_mutant(node, in) ==
    LET info == enter(node, in)
    IN  CASE node.kind = "FragmentSpread" -> node
          [] node.kind = "Field" /\ node.selections = <<>> ->
                [node EXCEPT !.selections = buildSelectionSet(info.type)]
          [] OTHER ->
                [node EXCEPT !.selections =
                    [i \in DOMAIN @ |-> Filled(@[i], info)]]

Filled(node, in) ==
    LET info == enter(node, in)
    IN  CASE node.kind = "FragmentSpread" -> node
          [] node.kind = "Field" /\ node.selections = <<>> ->
                [node EXCEPT !.selections = buildSelectionSet(info.type)]
          [] OTHER ->
                [node EXCEPT !.selections =
                    [i \in DOMAIN @ |-> Filled(@[i], InSelections(info))]]

\* fillLeafs.  The insertions leave the rest of the text as it is; here the text
\* is printed anew, which changes its layout and not its document.
FilledText(text, parsed) ==
    LET Fill(d) == IF d.kind \in {"OperationDefinition", "FragmentDefinition"}
                   THEN Filled(d, NoInfo) ELSE d
    IN  IF ~parsed.ok THEN text
        ELSE join([i \in DOMAIN parsed.node |-> Fill(parsed.node[i])])
fillLeafs(text) == FilledText(text, parse(text))

\* getQueryFacts and collectVariables: the operations and the types of the
\* variables, <<>> while the text does not parse.
collectVariables(ast) ==
    LET all == FlattenSeq([i \in DOMAIN Definitions(ast, "OperationDefinition") |->
                  Definitions(ast, "OperationDefinition")[i].variableDefinitions])
        typed == SelectSeq(all, LAMBDA d : typeFromAST(d.type) # NoType)
    IN  [n \in {typed[i].variable.name : i \in DOMAIN typed} |->
            Last(SelectSeq(typed, LAMBDA d : d.variable.name = n)).type]

getQueryFacts(text) ==
    LET parsed == parse(text)
    IN  IF text = <<>> \/ ~parsed.ok THEN <<>>
        ELSE <<[variableToType |-> collectVariables(parsed.node),
                operations |-> Definitions(parsed.node, "OperationDefinition")]>>

=============================================================================
