---------------------------- MODULE RuleHelpers ----------------------------
(***************************************************************************)
(* What a rule of the incremental parser may expect: a rule or a terminal, *)
(* optional, a list (whose elements may need a separator) or neither.  A   *)
(* terminal is a tuple, its kind first.                                    *)
(***************************************************************************)
NoRule == ""
Of(rule, wrap, separator) ==
    [rule |-> rule, terminal |-> <<>>, wrap |-> wrap, separator |-> separator]

Rule(r)        == Of(r, "none", "")
opt(r)         == Of(r, "opt", "")
list(r)        == Of(r, "list", "")
listOf(r, sep) == Of(r, "list", sep)

terminal(t)    == [Rule(NoRule) EXCEPT !.terminal = t]
optional(t)    == [opt(NoRule) EXCEPT !.terminal = t]

punct(v)       == terminal(<<"p", v>>)
tokenOf(kind)  == terminal(<<"kind", kind>>)
word(w)        == terminal(<<"word", w>>)

Nothing        == terminal(<<"nothing">>)

=============================================================================
