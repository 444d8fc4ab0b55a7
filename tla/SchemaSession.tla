--------------------------- MODULE SchemaSession ---------------------------
(***************************************************************************)
(* A schema and what the library's utilities make of it: it is built from  *)
(* a document, extended, printed and built again, or fetched by a client   *)
(* through the introspection query, one after the other.                   *)
(***************************************************************************)
EXTENDS SchemaTools

CONSTANTS Documents,       \* the texts a schema is built from
          Extensions,      \* the texts it is extended with
          MaxSteps         \* bound: the utilities called after the first

VARIABLES schema,          \* the schema, or NoSchema
          source,          \* a document that defines it
          steps

vars == <<schema, source, steps>>

Ast(text)       == parse(text).node
Definitions     == {Ast(t) : t \in Documents}
NewDefinitions  == {Ast(t) : t \in Extensions}

-----------------------------------------------------------------------------
(* The definitions of a document with those of an extension added to them.   *)

MergedType(def, ext) ==
    IF def.kind # "ObjectTypeDefinition" THEN def
    ELSE [def EXCEPT !.fields = @ \o Undeprecated(NewFields(ext, def.name)),
                     !.interfaces = @ \o NewInterfaces(ext, def.name)]
PlainType(def) ==
    CASE def.kind \in {"ObjectTypeDefinition", "InterfaceTypeDefinition"} ->
            [def EXCEPT !.fields = Undeprecated(@)]
      [] def.kind = "EnumTypeDefinition" -> [def EXCEPT !.values = Undeprecated(@)]
      [] OTHER -> def
Merged(ast, ext) ==
    LET new == Sorted(ext, DOMAIN DefinedKind)
    IN  [i \in DOMAIN ast |-> MergedType(ast[i], ext)]
        \o [i \in DOMAIN new |-> PlainType(new[i])]

-----------------------------------------------------------------------------

Init == /\ \E ast \in Definitions : source = ast /\ schema = buildASTSchema(ast)
        /\ steps = 0

Count == schema.ok /\ steps < MaxSteps /\ steps' = steps + 1

\* A refusal is an exception: the schema stays as it is.
Extend == /\ Count
          /\ \E ext \in NewDefinitions : \E new \in {extendSchema(schema, ext)} :
                /\ new.ok
                /\ schema' = new
                /\ source' = IF new = schema THEN source ELSE Merged(source, ext)

Reprint == /\ Count /\ IsPrintable(schema)
           /\ source' = Ast(printSchema(schema))
           /\ schema' = buildASTSchema(source')

Fetch == /\ Count
         /\ \E withSubscriptions \in BOOLEAN :
              \E client \in {buildClientSchema(introspect(schema, withSubscriptions))} :
                /\ client.ok /\ IsPrintable(client)
                /\ schema' = client
                /\ source' = Ast(printSchema(client))

Next == Extend \/ Reprint \/ Fetch

Spec == Init /\ [][Next]_vars

-----------------------------------------------------------------------------
(* Schemas that are alike, but for their default values and reasons.         *)

OwnDirectives(s) == SelectSeq(s.directives, LAMBDA d : ~isSpecDirective(d.name))

AlikeArgs(a, b, Like(_, _, _)) ==
    /\ DOMAIN a = DOMAIN b
    /\ \A n \in DOMAIN a : a[n].type = b[n].type /\ Like(a[n].default, a[n].type, b[n].default)
AlikeFields(a, b, Like(_, _, _), Told(_, _)) ==
    /\ DOMAIN a = DOMAIN b
    /\ \A n \in DOMAIN a : /\ a[n].type = b[n].type
                           /\ Told(a[n].deprecated, b[n].deprecated)
                           /\ AlikeArgs(a[n].args, b[n].args, Like)
AlikeType(a, b, Like(_, _, _), Told(_, _)) ==
    CASE a.kind = "Object" ->
            /\ b.kind = a.kind /\ a.interfaces = b.interfaces
            /\ AlikeFields(a.fields, b.fields, Like, Told)
      [] a.kind = "Interface" -> b.kind = a.kind /\ AlikeFields(a.fields, b.fields, Like, Told)
      [] a.kind = "InputObject" -> b.kind = a.kind /\ AlikeArgs(a.fields, b.fields, Like)
      [] a.kind = "Enum" ->
            /\ b.kind = a.kind /\ a.values = b.values
            /\ \A v \in a.values : Told(a.deprecated[v], b.deprecated[v])
      [] OTHER -> a = b
AlikeDirectives(a, b, Like(_, _, _)) ==
    /\ Len(a) = Len(b)
    /\ \A i \in DOMAIN a : /\ a[i].name = b[i].name /\ a[i].locations = b[i].locations
                           /\ AlikeArgs(a[i].args, b[i].args, Like)
Alike(s, t, Like(_, _, _), Told(_, _)) ==
    /\ t.ok /\ DOMAIN s.types = DOMAIN t.types
    /\ \A n \in DOMAIN s.types : AlikeType(s.types[n], t.types[n], Like, Told)
    /\ AlikeDirectives(OwnDirectives(s), OwnDirectives(t), Like)

\* A string is quoted twice on its way to the text, and unquoted once.
RECURSIVE IsQuoted(_, _, _)
IsQuoted(v, t, w) ==
    CASE v.is = "string" -> w = JS("string", Escaped(v.value))
      [] v.is = "array"  -> /\ w.is = "array" /\ Len(v.items) = Len(w.items)
                            /\ \A i \in DOMAIN v.items : IsQuoted(v.items[i], t, w.items[i])
      [] v.is = "object" -> /\ w.is = "object" /\ DOMAIN v.members = DOMAIN w.members
                            /\ \A n \in DOMAIN v.members :
                                  IsQuoted(v.members[n], t, w.members[n])
      [] OTHER -> v = w
IsReprinted(reason, again) ==
    again = IF reason = <<>> THEN reason
            ELSE IF reason[1] = "" THEN <<"No longer supported">> ELSE <<Escaped(reason[1])>>

(* The text printSchema makes of a schema can be parsed, and the schema built *)
(* of it is the one printed: no type, field, argument, default value,         *)
(* interface, deprecation or directive of its own is lost or changed, but for *)
(* an empty reason and for strings with characters to escape.                 *)
PrintedSchemasBuildBack ==
    schema.ok /\ IsPrintable(schema) =>
        \A text \in {printSchema(schema)} :
            /\ parse(text).ok
            /\ \A again \in {buildASTSchema(Ast(text))} :
                  /\ Alike(schema, again, IsQuoted, IsReprinted)
                  /\ again.roots = schema.roots

-----------------------------------------------------------------------------

ObjectsOf(s) == {n \in DOMAIN s.types : s.types[n].kind = "Object"}
Clash(s, ext) ==
    \/ Names(Sorted(ext, DOMAIN DefinedKind)) \intersect DOMAIN s.types # {}
    \/ \E i \in DOMAIN ext :
         /\ ext[i].kind = "TypeExtensionDefinition"
         /\ \/ ext[i].definition.name \notin ObjectsOf(s)
            \/ ext[i].definition.name \in ObjectsOf(s)
               /\ LET type == s.types[ext[i].definition.name]
                      interfaces == NewInterfaces(ext, ext[i].definition.name)
                  IN  \/ Names(ext[i].definition.fields) \intersect DOMAIN type.fields # {}
                      \/ Range(interfaces) \intersect type.interfaces # {}
                      \/ ~IsInjective(interfaces)
\* A source that was printed once differs from its schema in that.
IsSame(v, t, w) == v = w \/ IsQuoted(v, t, w)
IsSameReason(reason, again) == again = reason \/ IsReprinted(reason, again)

(* To extend the schema built of a document is to build one of the document   *)
(* and the extension together: neither types that lead to the extended ones,  *)
(* nor interfaces, defaults or the checks of a schema get lost on the way.     *)
(* An extension is refused exactly if that document would be, or if it        *)
(* defines again what is there already.                                       *)
ExtendingIsMerging ==
    schema.ok => \A ext \in NewDefinitions :
        \A extended \in {extendSchema(schema, ext)}, merged \in {buildASTSchema(Merged(source, ext))} :
            /\ extended.ok <=> merged.ok /\ ~Clash(schema, ext)
            /\ extended.ok => /\ Alike(extended, merged, IsSame, IsSameReason)
                              /\ extended.roots = merged.roots

-----------------------------------------------------------------------------

RECURSIVE HasHole(_)
HasHole(v) == \/ v.is = "array"  /\ \E i \in DOMAIN v.items : v.items[i] = Null \/ HasHole(v.items[i])
              \/ v.is = "object" /\ \E n \in DOMAIN v.members : HasHole(v.members[n])

\* What the client makes of a default value that the server printed untyped.
RECURSIVE Known(_, _)
Known(v, t) ==
    IF v = Null THEN Null
    ELSE IF IsNonNull(t) THEN Known(v, t.type)
    ELSE IF IsList(t)
    THEN [is |-> "array", items |-> [i \in DOMAIN v.items |-> Known(v.items[i], t.type)]]
    ELSE LET type == (schema.types @@ Scalars)[t.name]
             Members == {n \in DOMAIN v.members :
                            Known(v.members[n], type.fields[n].type) # Null}
    IN  CASE type.kind = "Enum" -> Null
          [] type.kind = "InputObject" ->
                [is |-> "object",
                 members |-> [n \in Members |-> Known(v.members[n], type.fields[n].type)]]
          [] v.is = "string" -> JS("string", Escaped(v.value))
          [] OTHER -> v
IsKnown(v, t, w) == w = IF HasHole(v) THEN Null ELSE Known(v, t)

IsTold(reason, known) == known = reason

RECURSIVE Wrappers(_)
Wrappers(t) == IF t.kind = "NamedType" THEN 0 ELSE 1 + Wrappers(t.type)
DeepArgs(args) == \E a \in DOMAIN args : Wrappers(args[a].type) > 7
IsDeep(type) ==
    CASE type.kind \in {"Object", "Interface"} ->
            \E f \in DOMAIN type.fields :
                Wrappers(type.fields[f].type) > 7 \/ DeepArgs(type.fields[f].args)
      [] type.kind = "InputObject" -> DeepArgs(type.fields)
      [] OTHER -> FALSE

(* The client's schema is the server's, deprecated parts and all, except that *)
(* default values lose their enum values, escape sequences are doubled, and a  *)
(* list with a null in it is lost.  There is none exactly if some type is     *)
(* wrapped more than seven times or a directive has an unknown location; the   *)
(* query without subscriptions loses nothing but the root.                    *)
ClientKnowsTheServer ==
    schema.ok => \A withSubscriptions \in BOOLEAN :
        \A client \in {buildClientSchema(introspect(schema, withSubscriptions))} :
            /\ client.ok <=>
                 /\ \A n \in DOMAIN schema.types : ~IsDeep(schema.types[n])
                 /\ \A i \in DOMAIN schema.directives :
                      /\ Range(schema.directives[i].locations) \subseteq Locations
                      /\ ~DeepArgs(schema.directives[i].args)
            /\ client.ok =>
                 /\ Alike(schema, client, IsKnown, IsTold)
                 /\ client.roots.query = schema.roots.query
                 /\ client.roots.mutation = schema.roots.mutation
                 /\ client.roots.subscription
                        = IF withSubscriptions THEN schema.roots.subscription ELSE ""

=============================================================================
