----------------------------- MODULE MCGraphiQL -----------------------------
(* GraphiQLSystem with the welcome text, the empty text, a mutation, a query *)
(* whose leaf fields are filled in, and a document of both; a schema of two  *)
(* objects, an interface and a scalar, of which a search stops after two     *)
(* results.                                                                  *)
EXTENDS GraphiQLSystem, TLC

CONSTANTS welcome, empty, new, leaf, leafFilled, both, Unknown,
          null, object, spaced

MCQueries == {welcome, empty, new, leaf, leafFilled, both}

MCOperationsOf ==
    new :> <<"New">> @@ leaf :> <<"Find">> @@ leafFilled :> <<"Find">>
    @@ both :> <<"New", "Find">> @@ welcome :> Unknown @@ empty :> Unknown

MCFillLeafs == [q \in MCQueries |-> IF q = leaf THEN leafFilled ELSE q]

MCLinks == {[query |-> undefined, operationName |-> undefined],
            [query |-> both, operationName |-> "Find"]}

MCFormatted == empty :> empty @@ null :> null @@ object :> object
               @@ spaced :> object

Arg(name, type) == [name |-> name, type |-> type]

Field(name, args, type) == [name |-> name, args |-> args, type |-> type]

MCTypeNames == <<"Query", "Node", "Vendor", "ID">>

MCTypeMap ==
    "Query" :> [kind |-> "object", types |-> <<>>,
                fields |-> <<Field("vendor", <<Arg("id", "ID")>>, "Vendor")>>]
    @@ "Node" :> [kind |-> "interface", types |-> <<"Vendor">>,
                  fields |-> <<Field("id", <<>>, "ID")>>]
    @@ "Vendor" :> [kind |-> "object", types |-> <<"Node">>,
                    fields |-> <<Field("id", <<>>, "ID")>>]
    @@ "ID" :> [kind |-> "scalar", types |-> <<>>, fields |-> <<>>]

\* "d" is part of some names, "id" of fewer.
MCFound == "" :> {"Query", "Node", "Vendor", "ID", "vendor", "id"}
           @@ "d" :> {"Node", "Vendor", "ID", "vendor", "id"}
           @@ "id" :> {"ID", "id"}

=============================================================================
