-------------------------- MODULE MCSchemaSession --------------------------
(* SchemaSession with documents for every kind of type, for defaults that get *)
(* lost and for each refusal, and extensions that fit some of them.          *)
EXTENDS SchemaSession

\* q stands for a string with a quote in it.
MCStrings == ("'s'" :> "s") @@ ("'no'" :> "no") @@ ("''" :> "") @@ ("'RED'" :> "RED")
             @@ ("'BLUE'" :> "BLUE") @@ ("'1'" :> "1") @@ ("'q'" :> "q")
             @@ ("'eq'" :> "eq") @@ ("'eeq'" :> "eeq")  @@ ("'eeeq'" :> "eeeq")
             @@ ("'dir'" :> "No longer supported") @@ ("'YEAR'" :> "YEAR")
MCEscapes == ("q" :> "eq") @@ ("eq" :> "eeq") @@ ("eeq" :> "eeeq")

Roots ==
    <<"schema", "{", "query", ":", "Query", "}">>

AllRoots ==
    <<"schema", "{", "query", ":", "Query", "mutation", ":", "M",
    "subscription", ":", "Query", "}">>

QueryType ==
    <<"type", "Query", "{", "a", ":", "String", "}">>

Mutations ==
    <<"type", "M", "{", "set", "(", "x", ":", "Int", "!", "=", "1", "f", ":",
    "Float", "=", "1", "ids", ":", "[", "ID", "!", "]", ")", ":", "Query",
    "}">>

\* An interface, its objects and their union.
Beings ==
    <<"interface", "Named", "{", "name", ":", "String", "}", "type", "Dog",
    "implements", "Named", "{", "name", ":", "String", "!", "old", ":", "Int",
    "@", "deprecated", "}", "type", "Cat", "implements", "Named", "{", "name",
    "(", "short", ":", "Boolean", "=", "true", ")", ":", "String", "}",
    "union", "Pet", "=", "Dog", "|", "Cat">>

\* Defaults that rest on each other, of enums, lists, objects and a scalar.
Inputs ==
    <<"enum", "Color", "{", "RED", "@", "deprecated", "(", "reason", ":",
    "'no'", ")", "BLUE", "}", "scalar", "Date", "input", "Size", "{", "x",
    ":", "Float", "=", "1", "y", ":", "Float", "=", "2.5", "}", "input",
    "Box", "{", "size", ":", "Size", "=", "{", "}", "color", ":", "Color",
    "=", "RED", "label", ":", "String", "=", "'q'", "}", "type", "Query", "{",
    "f", "(", "box", ":", "Box", "=", "{", "size", ":", "{", "x", ":", "2",
    "}", "}", "cs", ":", "[", "Color", "]", "=", "[", "RED", "]", "d", ":",
    "Date", "=", "1", "c", ":", "Color", "=", "BLUE", "s", ":", "String", "!",
    "=", "'s'", "id", ":", "ID", "=", "1", ")", ":", "String", "}">>

\* Lists of nulls: a literal that is no value of its type.
Holes ==
    <<"type", "Query", "{", "f", "(", "xs", ":", "[", "Int", "]", "=", "[",
    "'s'", "]", "y", ":", "Int", "=", "'s'", ")", ":", "Int", "@",
    "deprecated", "(", "reason", ":", "''", ")", "}">>

Reasons ==
    <<"type", "Query", "{", "a", ":", "String", "@", "deprecated", "(",
    "reason", ":", "'q'", ")", "b", ":", "Int", "@", "deprecated", "(",
    "reason", ":", "1", ")", "}">>

Marks ==
    <<"directive", "@", "mark", "(", "level", ":", "Int", "=", "2", "cs", ":",
    "[", "Int", "]", ")", "on", "FIELD", "|", "QUERY", "directive", "@",
    "skip", "(", "if", ":", "Boolean", ")", "on", "FIELD">>

Nowhere ==
    <<"directive", "@", "mark", "on", "NOWHERE">>

Deep ==
    <<"type", "Query", "{", "a", ":", "[", "[", "[", "[", "[", "[", "[",
    "String", "]", "]", "]", "]", "]", "]", "]", "b", ":", "Int", "}">>

Deeper ==
    <<"type", "Query", "{", "f", "(", "a", ":", "[", "[", "[", "[", "[", "[",
    "[", "String", "!", "]", "]", "]", "]", "]", "]", "]", ")", ":", "Int",
    "}">>

\* Refused: an overflow, an unknown type, a missing field, a wrong kind.
Endless ==
    <<"input", "In", "{", "x", ":", "In", "=", "{", "}", "}", "type", "Query",
    "{", "a", "(", "in", ":", "In", ")", ":", "Int", "}">>

Unknown ==
    <<"type", "Query", "{", "a", ":", "Nothing", "}">>

Nameless ==
    <<"interface", "Named", "{", "name", ":", "String", "}", "type", "Query",
    "implements", "Named", "{", "a", ":", "Int", "}">>

WrongKind ==
    <<"input", "In", "{", "x", ":", "Int", "}", "type", "Query", "{", "a",
    ":", "In", "}">>

Scalars2 ==
    <<"scalar", "Int", "type", "Query", "{", "a", ":", "Int", "b", "(", "x",
    ":", "Float", ")", ":", "ID", "}">>

MCDocuments ==
    {Roots \o QueryType, Roots \o QueryType \o Beings, Roots \o Inputs, Roots \o Inputs \o Marks,
     AllRoots \o QueryType \o Mutations, AllRoots \o Inputs \o Mutations \o Beings, Roots \o Holes,
     Roots \o Reasons, Roots \o QueryType \o Marks, Roots \o QueryType \o Nowhere, Roots \o Deep,
     Roots \o Deeper, Roots \o Endless, Roots \o Unknown, Roots \o Nameless, Roots \o WrongKind,
     Roots \o Scalars2, AllRoots \o QueryType, QueryType, Roots \o Roots \o QueryType}

NewField ==
    <<"extend", "type", "Query", "{", "z", "(", "c", ":", "Color", "=", "RED",
    ")", ":", "Int", "@", "deprecated", "}">>

TwoFields ==
    <<"extend", "type", "Query", "{", "z", ":", "Int", "}", "extend", "type",
    "Query", "{", "z", ":", "[", "String", "]", "y", ":", "Dog", "}">>

OldField ==
    <<"extend", "type", "Query", "{", "a", ":", "Int", "}">>

NewTypes ==
    <<"scalar", "Date", "interface", "Named", "{", "name", ":", "String", "}",
    "type", "Dog", "implements", "Named", "{", "name", ":", "String", "}",
    "extend", "type", "Query", "{", "dog", ":", "Dog", "}">>

NewMember ==
    <<"extend", "type", "Dog", "implements", "Aged", "{", "age", "(", "unit",
    ":", "Unit", "=", "YEAR", ")", ":", "Int", "}", "interface", "Aged", "{",
    "age", ":", "Int", "}", "enum", "Unit", "{", "YEAR", "@", "deprecated",
    "DAY", "}">>

Twice ==
    <<"extend", "type", "Dog", "implements", "Named", "{", "age", ":", "Int",
    "}">>

Broken ==
    <<"extend", "type", "Query", "implements", "Aged", "{", "b", ":", "Int",
    "}", "interface", "Aged", "{", "age", ":", "Int", "}">>

NoObject ==
    <<"extend", "type", "Named", "{", "b", ":", "Int", "}">>

NewUnion ==
    <<"union", "Any", "=", "Query", "|", "Rat", "type", "Rat", "{", "in", "(",
    "x", ":", "Extra", "=", "{", "box", ":", "1", "}", ")", ":", "Any", "}",
    "input", "Extra", "{", "box", ":", "Int", "=", "2", "}">>

UnknownField ==
    <<"extend", "type", "Query", "{", "q", ":", "Nothing", "}">>

OnlyDirective ==
    <<"directive", "@", "other", "on", "FIELD">>

MCExtensions ==
    {NewField, TwoFields, OldField, NewTypes, NewMember, Twice,
     Broken, NoObject, NewUnion, UnknownField, OnlyDirective}

=============================================================================
