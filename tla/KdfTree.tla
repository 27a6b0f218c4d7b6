------------------------------- MODULE KdfTree -------------------------------
(***************************************************************************)
(* Documents as trees of records, for the two formats: a plain value has a *)
(* type and a payload, a container [type, name, version, members], where   *)
(* members is a sequence of [key, value], or NULL if the container was     *)
(* never allocated.  The members of an array have no keys.                 *)
(***************************************************************************)
EXTENDS Integers, SequencesExt

CONSTANTS
  Values,          \* the values that documents are made of
  Depth,           \* how deep a value is nested
  Contents,        \* the contents of keys and type names
  NULL

ObjectTypes == {"object", "subresource"}
Containers  == ObjectTypes \cup {"array"}

Members(v)  == IF v.type \in Containers /\ v.members # NULL THEN v.members ELSE <<>>
KeyOf(v, i) == Members(v)[i].key
Child(v, i) == Members(v)[i].value

\* Trees have any finite depth.
ContainerOK(v) ==
  /\ v = [type |-> v.type, name |-> v.name, version |-> v.version, members |-> v.members]
  /\ v.name \in Contents \cup {NULL}
  /\ v.members # NULL => v.members \in Seq([key : Contents \cup {NULL}, value : Values])
  /\ v.members = NULL \/ v.type = "array" => v.name = NULL /\ v.version = 0
  /\ v.type = "array" => \A i \in DOMAIN Members(v) : Members(v)[i].key = NULL
  /\ \A i \in DOMAIN Members(v) : Depth[Members(v)[i].value] < Depth[v]

\* kdf__object_init and kdf__array_init.
Blank(type) == [type |-> type, name |-> NULL, version |-> 0, members |-> <<>>]

\* kdf_obj_set_*, kdf_obj_add_*, kdf__object_insert, and kdf__arr_push_value.
Put(members, key, v) ==
  IF \E i \in DOMAIN members : members[i].key = key
  THEN [i \in DOMAIN members |->
          IF members[i].key = key THEN [key |-> key, value |-> v] ELSE members[i]]
  ELSE Append(members, [key |-> key, value |-> v])
With(node, key, v) ==
  [node EXCEPT !.members = IF node.type = "array" THEN Append(@, [key |-> NULL, value |-> v])
                           ELSE Put(@, key, v)]
=============================================================================
