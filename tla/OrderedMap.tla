------------------------------ MODULE OrderedMap ------------------------------
(***************************************************************************)
(* What a kdf_object promises its caller (src/include/kdf/kdf_object.h):   *)
(* a map that is iterated in insertion order.  Writing a key that is       *)
(* present keeps its place, removing a key and writing it again moves it   *)
(* to the end, and a child container belongs to one property only.         *)
(***************************************************************************)
EXTENDS Naturals, SequencesExt

CONSTANTS Keys, Values, Metas, NoMeta, Owned(_)

VARIABLES items,   \* the properties in iteration order
          meta,    \* type name and version
          open     \* FALSE once the object was destroyed
mapVars == <<items, meta, open>>

Initial == items = <<>> /\ meta = NoMeta /\ open = TRUE

PlaceOf(s, k) == {i \in 1 .. Len(s) : s[i].key = k}
\* The child of v, if it owns one, is not the child of a property of s.
FreshChild(s, v) == \A i \in 1 .. Len(s) : Owned(v) \cap Owned(s[i].val) = {}

Put(s, k, v) ==
  IF PlaceOf(s, k) = {} THEN Append(s, [key |-> k, val |-> v])
  ELSE [i \in 1 .. Len(s) |-> IF s[i].key = k THEN [key |-> k, val |-> v] ELSE s[i]]

\* Write one of the values V under k.
Write(k, V) ==
  /\ open = TRUE
  /\ LET old == items IN
     items' \in {Put(old, k, v) : v \in {w \in V : FreshChild(old, w)}}
  /\ UNCHANGED <<meta, open>>

Delete(k) ==
  /\ open = TRUE
  /\ LET old == items IN \E i \in PlaceOf(old, k) : items' = RemoveAt(old, i)
  /\ UNCHANGED <<meta, open>>

Empty   == open = TRUE /\ items' = <<>> /\ UNCHANGED <<meta, open>>
Close   == open = TRUE /\ items' = <<>> /\ open' = FALSE /\ UNCHANGED meta
Describe == open = TRUE /\ meta' \in Metas /\ UNCHANGED <<items, open>>

MapNext ==
  \/ \E k \in Keys : Write(k, Values) \/ Delete(k)
  \/ Empty \/ Close \/ Describe

MapSpec == Initial /\ [][MapNext]_mapVars
=============================================================================
