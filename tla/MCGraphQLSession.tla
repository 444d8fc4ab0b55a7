-------------------------- MODULE MCGraphQLSession --------------------------
(* GraphQLSession with a schema of two objects, an interface, a union, an    *)
(* input object and an enum; the pasted definitions select them in ways that *)
(* agree, overlap or conflict.                                               *)
EXTENDS GraphQLSession

Quote(n) == "'" \o n \o "'"
MCStrings == [s \in {Quote(n) : n \in {"s", "v", "r", "c", "RED"}} |->
                CHOOSE n \in {"s", "v", "r", "c", "RED"} : Quote(n) = s]

MCTruncated == "1.5" :> "1"

Arg(t)      == [type |-> t, default |-> Null]
Plain(t)    == [type |-> t, args |-> <<>>]
With(t, a)  == [type |-> t, args |-> a]
Object(f, i) == [kind |-> "Object", fields |-> f, interfaces |-> i]
ListOf(t)   == [kind |-> "ListType", type |-> t]
Scalar      == [kind |-> "Scalar"]
Number      == Named("Int")

MCTypes ==
    [Query    |-> Object([dog   |-> Plain(Named("Dog")),
                          named |-> Plain(Named("Named")),
                          n     |-> With(Number, [x |-> Arg(NonNull(Number))]),
                          pets  |-> With(ListOf(NonNull(Named("Pet"))),
                                         [in |-> Arg(Named("In")),
                                          cs |-> Arg(ListOf(NonNull(Named("Color"))))])], {}),
     Mutation |-> Object([add   |-> With(Named("Dog"), [in |-> Arg(Named("In"))])], {}),
     Named    |-> [kind |-> "Interface", fields |-> [name |-> Plain(Named("String"))]],
     Dog      |-> Object([name   |-> Plain(Named("String")),
                          nick   |-> Plain(Named("String")),
                          friend |-> Plain(Named("Named")),
                          bark   |-> With(Number, [x |-> [type |-> Number, default |-> JS("int", "1")]])],
                         {"Named"}),
     Cat      |-> Object([name |-> Plain(Named("String")), bark |-> Plain(NonNull(Number))],
                         {"Named"}),
     Pet      |-> [kind |-> "Union", members |-> {"Dog", "Cat"}],
     In       |-> [kind |-> "InputObject",
                   fields |-> [r |-> Arg(NonNull(Number)), c |-> Arg(Named("Color"))]],
     Color    |-> [kind |-> "Enum", values |-> {"RED", "BLUE"}],
     Int |-> Scalar, String |-> Scalar, Boolean |-> Scalar]

MCDirectives ==
    LET condition == [args |-> [if |-> Arg(NonNull(Named("Boolean")))],
                      locations |-> {"FIELD", "FRAGMENT_SPREAD", "INLINE_FRAGMENT"}]
    IN  [include |-> condition, skip |-> condition]

\* A dog whose name fails, a cat whose bark is null though it may not be.
Obj(t) == [is |-> "object", type |-> t]
MCResolved ==
    [Query    |-> [dog |-> Obj("Dog"), named |-> Obj("Cat"), n |-> JS("int", "1"),
                   pets |-> [is |-> "array", items |-> <<Obj("Cat"), Obj("Dog")>>]],
     Mutation |-> [add |-> Obj("Dog")],
     Dog      |-> [name |-> Thrown, nick |-> Null, friend |-> Obj("Cat"), bark |-> JS("int", "1")],
     Cat      |-> [name |-> JS("string", "s"), bark |-> Null]]

MCInputs == {<<>>, [v |-> JS("int", "1")],
             [v |-> [is |-> "object", members |-> [r |-> JS("int", "1")]]]}

\* The typed tokens are those no hint gives.
MCTokens == {"{", "}", "(", ")", ":", "[", "]", "...", "on", "@", "1", "query", "F", "$"}

One2(S) == S \union {a \o b : a \in S, b \in S}
In(o, S, c) == {o \o s \o c : s \in S}

NamedSelections ==
    {<<"name">>, <<"x", ":", "name">>, <<"...", "F">>,
     <<"...", "on", "Dog", "{", "x", ":", "nick", "}">>,
     <<"...", "on", "Cat", "{", "x", ":", "bark", "}">>}
DogSelections ==
    {<<"bark">>, <<"bark", "(", "x", ":", "1", ")">>, <<"bark", "(", "x", ":", "$", "v", ")">>,
     <<"...", "@", "skip", "(", "if", ":", "true", ")", "{", "bark", ":", "name", "}">>,
     <<"friend", "{", "...", "on", "Dog", "{", "...", "G", "}", "}">>}
PetArguments ==
    {<<"in", ":", "$", "v">>, <<"in", ":", "{", "r", ":", "1", "c", ":", "RED", "}">>,
     <<"in", ":", "{", "c", ":", "$", "v", "}">>, <<"cs", ":", "BLUE">>,
     <<"cs", ":", "[", "$", "v", "]">>, <<"cs", ":", "1">>}
Variables ==
    {<<>>} \union In(<<"query", "(", "$", "v", ":">>,
                     {<<"Int">>, <<"Color", "!">>, <<"In", "=", "{", "r", ":", "1", "}">>,
                      <<"Dog">>, <<"[", "[", "Int", "]", "!", "]">>}, <<")">>)

Queries ==
    {<<"query", "Q", "@", "skip", "(", "if", ":", "true", ")", "{", "dog", "{", "name", "}", "}">>,
     <<"mutation", "M", "{", "add", "{", "nick", "}", "}">>}
    \union In(<<"{", "named", "{">>, One2(NamedSelections), <<"}", "}">>)
    \union {v \o s : v \in Variables,
                     s \in In(<<"{", "dog", "{">>, One2(DogSelections), <<"}", "}">>)
                           \union In(<<"{", "pets", "(">>, PetArguments,
                                     <<")", "{", "...", "F", "}", "}">>)}
MCFragments ==
    In(<<"fragment", "F", "on">>,
       {<<"Dog", "{", "x", ":", "bark", "}">>, <<"In", "{", "r", "}">>,
        <<"Dog", "{", "friend", "{", "...", "G", "}", "...", "F", "}">>,
        <<"Pet", "{", "__typename", "...", "on", "Cat", "{", "x", ":", "bark", "}", "}">>}, <<>>)
    \union In(<<"fragment", "G", "on">>,
             {<<"Cat", "{", "bark", "...", "F", "}">>, <<"Named", "{", "name", "...", "G", "}">>}, <<>>)
\* Queries that declare one variable, values it is given, wrapped or not.
MCDeclaring ==
    In(<<"query", "(", "$", "v", ":">>,
       {<<"Int", "!">>, <<"[", "Int", "!", "]">>, <<"String">>,
        <<"Boolean">>, <<"Color", "!">>, <<"[", "Color", "]">>, <<"In">>, <<"[", "In", "!", "]">>,
        <<"[", "[", "Int", "!", "]", "]", "!">>},
       <<")", "{", "dog", "{", "name", "}", "}">>)
MCJsonTokens == {"{", "}", "[", "]", ":", ",", "null", "1", "'v'", "'s'"}
Objects == {<<"{", "}">>, <<"{", "'r'", ":", "null", "}">>}
           \union In(<<"{", "'r'", ":", "1", ",">>,
                     {<<"'c'", ":", "'RED'">>, <<"'c'", ":", "'s'">>, <<"'c'", ":", "[", "'RED'", "]">>,
                      <<"'s'", ":", "1">>, <<"'r'", ":", "null">>}, <<"}">>)
Values == {<<"1">>, <<"99999999999">>, <<"1.5">>, <<"true">>, <<"null">>, <<"'s'">>, <<"'RED'">>, <<"[", "]">>}
          \union Objects
Lists == In(<<"[">>, {x \o <<",">> \o y : x \in Values, y \in {<<"1">>, <<"null">>, <<"{", "'r'", ":", "1", "}">>}}, <<"]">>)
MCJsonTexts == In(<<"{", "'v'", ":">>,
                  Values \union Lists \union In(<<"[">>, Values, <<"]">>) \union In(<<"[", "[">>, Values, <<"]", "]">>),
                  <<"}">>)

MCSnippets == Queries \union MCFragments

=============================================================================
