--------------------------- MODULE TypeReferences ---------------------------
(***************************************************************************)
(* References to types, and the JavaScript values of the language library. *)
(*                                                                         *)
(* A reference is a node of the syntax: a named type, or one in a list or   *)
(* marked as not null.  A value is a record: what it is, and its value,    *)
(* items or members.                                                       *)
(***************************************************************************)
EXTENDS GraphQLSyntax

NoType     == [kind |-> "none"]
Named(n)   == [kind |-> "NamedType", name |-> n]
NonNull(t) == [kind |-> "NonNullType", type |-> t]

IsNonNull(t) == t.kind = "NonNullType"
IsList(t)    == t.kind = "ListType"

RECURSIVE getNamedType(_)
getNamedType(t) == IF IsNonNull(t) \/ IsList(t) THEN getNamedType(t.type) ELSE t
getNullableType(t) == IF IsNonNull(t) THEN t.type ELSE t

Null == [is |-> "null"]
JS(what, v) == [is |-> what, value |-> v]

=============================================================================
