----------------------------- MODULE KdfStrings -----------------------------
(***************************************************************************)
(* A property of an object beside the string pool of its document: the     *)
(* string setter interns its value (src/src/kdf_object.c:196-203), a       *)
(* string property is the pointer that came of it, and the string getter   *)
(* gives away the text behind that pointer (400-407), which the caller     *)
(* keeps while the property is set again or removed.                       *)
(*                                                                         *)
(* The pool is KdfStringPool, the property and its getters are KdfGetters, *)
(* and each step here is a step of either or of both.  That the entry of   *)
(* the property can be allocated and its key is in the pool already is     *)
(* assumed (KdfObject has both fail).                                      *)
(***************************************************************************)
EXTENDS KdfStringPool, KdfGetters

VARIABLES
  node,            \* the kdf_string the property points to, or NULL
  kept             \* the text a getter gave last, and the kdf_string it is of

stringsVars == <<vars, prop, node, kept>>

ASSUME StringsAssumption == Texts = Contents /\ Missing = NULL

StringsInit == Init /\ GettersInit /\ node = NULL /\ kept = [text |-> NULL, of |-> NULL]

\* kdf__intern, of any outcome.
Intern(s) == InternAgain(s) \/ InternNoMemory(s) \/ InternNew(s)

\* kdf_obj_set_string: the value is reset first, so that it is NULL when the
\* string cannot be interned.  Mutated form: it is not.
PointerNotReset == IF answer'.node = NULL THEN node ELSE answer'.node
Pointer == answer'.node
SetString(s) ==
  /\ Intern(s)
  /\ node' = Pointer
  /\ Set([type |-> "string", as |-> IF answer'.node = NULL THEN Missing ELSE s])
  /\ UNCHANGED kept

\* The other setters, and the string setter without a string.
SetOther(v) ==
  /\ open
  /\ v.type = "string" => v.as = Missing
  /\ Set(v) /\ node' = NULL
  /\ UNCHANGED <<vars, kept>>

\* Keys, type names and the strings of other properties.
InternOther(s) == Intern(s) /\ UNCHANGED <<prop, node, kept>>

RemoveProperty == open /\ Unset /\ node' = NULL /\ UNCHANGED <<vars, kept>>

\* kdf_obj_get_string, when it answers with the text of the property and not
\* with the caller's fallback.
GetString ==
  /\ open /\ prop # Missing /\ prop.type = "string" /\ node # NULL
  /\ kept' = [text |-> str[node], of |-> node]
  /\ UNCHANGED <<vars, prop, node>>

\* kdf_doc_destroy: the object goes before the pool.
DestroyDocument == Destroy /\ Unset /\ node' = NULL /\ UNCHANGED kept

StringsNext ==
  \/ \E s \in Contents : SetString(s) \/ InternOther(s)
  \/ \E v \in Values : SetOther(v)
  \/ RemoveProperty \/ GetString \/ DestroyDocument

StringsSpec == StringsInit /\ [][StringsNext]_stringsVars

-----------------------------------------------------------------------------
\* A string property points to a node of the pool that has the text it was set
\* to, or to nothing if that could not be interned; and a text that a getter
\* gave stays where it is until the document is destroyed, whatever becomes of
\* the property in between (kdf_object.c:84-92, 196-203, 400-407; nobody counts
\* who uses a string).
StringsStand ==
  open =>
    /\ prop # Missing /\ prop.type = "string" =>
         IF node = NULL THEN prop.as = Missing ELSE node \in nodes /\ str[node] = prop.as
    /\ kept.of # NULL => kept.of \in nodes /\ str[kept.of] = kept.text
=============================================================================
