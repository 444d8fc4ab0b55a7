--------------------------- MODULE MCPageEditors ---------------------------
(* PageEditors with two letters, a mark that ends a word and one that does   *)
(* not, and a schema with three fields and a directive.                      *)
EXTENDS PageEditors

\* Fields, directives, and nothing behind a word or a colon.
MCNamesAfter ==
    "types" :> (None :> << <<"a">>, <<"a", "b">>, <<"b", "b">> >>
                @@ "@" :> << <<"b", "a">> >>
                @@ [c \in {"a", "b", ":"} |-> <<>>])
    @@ "none" :> [c \in {"a", "b", ":", "@", None} |-> <<>>]

MCPrettyLines == { <<"a">>, <<"b", " ", "a">>}
MCLeafs       == <<" ", "a">>
MCThrowing    == {[line |-> <<"@", "@">>, schema |-> "types"]}

=============================================================================
