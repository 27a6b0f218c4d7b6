------------------------------ MODULE KdfArray ------------------------------
(***************************************************************************)
(* kdf_array (src/src/kdf_array.c): a vector of values in one block that   *)
(* the user's allocator resizes.  Child containers are opaque blocks, as   *)
(* in KdfObject; blocks are numbered in allocation order and no number is  *)
(* used twice.                                                             *)
(*                                                                         *)
(* Every array of the library is given its document's string pool, so the  *)
(* pushes that allocate a string of their own when there is none           *)
(* (kdf_array.c:117-135, 198-216) are never taken.                         *)
(***************************************************************************)
EXTENDS Integers, FiniteSets

CONSTANTS
  Scalars,         \* values stored inline
  Strings,         \* contents of string and asset reference values
  Containers,      \* the value types that own a child block
  NULL,            \* the null pointer
  Junk,            \* what an uninitialised slot holds
  InitCap,         \* KDF_ARRAY_INIT_CAP
  AllocFails,      \* may the user's allocator return NULL?
  MaxBlocks,       \* bound: buffers and children allocated over a behaviour
  MaxItems         \* bound: values in the array

ASSUME ArrayAssumption ==
  /\ InitCap \in Nat \ {0} /\ MaxBlocks \in Nat /\ MaxItems \in Nat
  /\ AllocFails \in BOOLEAN
  /\ NULL \notin Int
  /\ {"null", "scalar", "string"} \cap Containers = {}

VARIABLES
  status,          \* "ok", "destroyed", or "fault" once memory that is not
                   \*   the array's was written
  buffer,          \* arr->items
  size,            \* how many values the allocator gave room for
  capacity, count,
  items,           \* what the buffer holds, on 0 .. size - 1
  children,        \* child blocks that are allocated
  allocs           \* blocks allocated so far

vars == <<status, buffer, size, capacity, count, items, children, allocs>>

Blocks    == 1 .. MaxBlocks
Outcomes  == IF AllocFails THEN BOOLEAN ELSE {TRUE}
NullValue == [type |-> "null", as |-> NULL]
Values == {NullValue} \cup [type : {"scalar"}, as : Scalars]
            \cup [type : {"string"}, as : Strings \cup {NULL}]
            \cup [type : Containers, as : Blocks \cup {NULL}]
ASSUME JunkAssumption == Junk \notin Values

OwnedBy(v) == IF v.type \in Containers /\ v.as # NULL THEN {v.as} ELSE {}

\* kdf__value_destroy: the child goes and the slot becomes a null value.
\* Mutated form: no child is freed.
FreedNone(v) == {}
Freed(v) == OwnedBy(v)
Destroyed(v) == NullValue
FreedIn(I) == UNION {Freed(items[i]) : i \in I}

Used == 0 .. count - 1

-----------------------------------------------------------------------------
(* kdf__array_grow *)
Full == count >= capacity

NewCap == IF capacity = 0 THEN InitCap ELSE 2 * capacity

\* A buffer, the room in it, and the capacity the array records for it.
Area(b, n, c) == [buffer |-> b, size |-> n, capacity |-> c]

\* Where the next value is written: the allocator may move the buffer or
\* extend it; if it fails, everything stays as it was.
\* Mutated form: the new capacity is not recorded.
AreasForgotten ==
  IF ~Full THEN {Area(buffer, size, capacity)}
  ELSE {Area(b, NewCap, capacity) : b \in {allocs + 1, buffer} \ {NULL}}
Areas ==
  IF ~Full THEN {Area(buffer, size, capacity)}
  ELSE {Area(b, NewCap, NewCap) : b \in {allocs + 1, buffer} \ {NULL}}
         \cup {Area(buffer, size, capacity) : ok \in Outcomes \ {TRUE}}

NewBlocks(a) == IF a.buffer = buffer THEN 0 ELSE 1

\* A value written behind the last one.
\* Mutated form: a buffer that moved is not given the old values.
StoreUncopied(a, v) ==
  /\ count < a.size /\ count < MaxItems
  /\ buffer' = a.buffer /\ size' = a.size /\ capacity' = a.capacity
  /\ items' = [i \in 0 .. a.size - 1 |->
                 IF i = count THEN v
                 ELSE IF a.buffer = buffer /\ i < size THEN items[i] ELSE Junk]
  /\ count' = count + 1
Store(a, v) ==
  /\ count < a.size /\ count < MaxItems
  /\ buffer' = a.buffer /\ size' = a.size /\ capacity' = a.capacity
  /\ items' = [i \in 0 .. a.size - 1 |-> IF i = count THEN v
                                         ELSE IF i < size THEN items[i] ELSE Junk]
  /\ count' = count + 1

\* What a push of this type can leave in its slot: a string that cannot be
\* interned and a child that cannot be allocated are NULL.
Payloads(type, arg, id) ==
  LET missing == {NULL : ok \in Outcomes \ {TRUE}} IN
  IF type \in {"null", "scalar"} THEN {arg}
  ELSE IF type = "string" THEN {arg} \cup missing
  ELSE {id} \cup missing

ChildBlocks(type) == IF type \in Containers THEN 1 ELSE 0

-----------------------------------------------------------------------------
Init ==
  /\ status = "ok"
  /\ buffer = NULL /\ size = 0 /\ capacity = 0 /\ count = 0
  /\ items = [i \in 0 .. -1 |-> Junk]
  /\ children = {} /\ allocs = 0

\* The kdf_arr_push_* family: the slot is there before the payload is obtained.
Push(type, arg) ==
  /\ status = "ok"
  /\ \E a \in Areas :
     LET id == allocs + NewBlocks(a) + 1 IN
     \E p \in Payloads(type, arg, id) :
       LET v == [type |-> type, as |-> p] IN
       /\ allocs' = allocs + NewBlocks(a) + ChildBlocks(type)
       /\ allocs' <= MaxBlocks
       /\ Store(a, v)
       /\ children' = children \cup OwnedBy(v)
  /\ UNCHANGED status

\* kdf__arr_push_value, by which the readers hand over a complete value: its
\* child was allocated before the array grew.
PushValue(type, arg) ==
  LET v == [type |-> type, as |-> IF type \in Containers THEN allocs + 1 ELSE arg] IN
  /\ status = "ok"
  /\ \E a \in Areas :
       LET moved == NewBlocks(a) IN
       /\ allocs' = allocs + moved + ChildBlocks(type)
       /\ allocs' <= MaxBlocks
       /\ Store([a EXCEPT !.buffer = IF moved = 1 THEN allocs' ELSE buffer], v)
       /\ children' = children \cup OwnedBy(v)
  /\ UNCHANGED status

\* Both write behind the buffer when it could not be made larger.
PushTraps ==
  /\ status = "ok"
  /\ \E a \in Areas : count >= a.size
  /\ status' = "fault"
  /\ UNCHANGED <<buffer, size, capacity, count, items, children, allocs>>

\* The buffer after element i was taken out: the elements behind it move up
\* and the slot that is left is zeroed.
\* Mutated forms: the slot is left as it is; the last element is not moved.
ClosedUpStale(i) ==
  [j \in DOMAIN items |-> IF j >= i /\ j < count - 1 THEN items[j + 1] ELSE items[j]]
ClosedUpShort(i) ==
  [j \in DOMAIN items |-> IF j = count - 1 THEN NullValue
                          ELSE IF j >= i /\ j < count - 2 THEN items[j + 1] ELSE items[j]]
ClosedUp(i) ==
  [j \in DOMAIN items |-> IF j = count - 1 THEN NullValue
                          ELSE IF j >= i /\ j < count - 1 THEN items[j + 1] ELSE items[j]]

Remove(i) ==
  /\ status = "ok" /\ i \in Used
  /\ children' = children \ Freed(items[i])
  /\ items' = ClosedUp(i)
  /\ count' = count - 1
  /\ UNCHANGED <<status, buffer, size, capacity, allocs>>

Clear ==
  /\ status = "ok"
  /\ children' = children \ FreedIn(Used)
  /\ items' = [i \in DOMAIN items |-> IF i < count THEN Destroyed(items[i]) ELSE items[i]]
  /\ count' = 0
  /\ UNCHANGED <<status, buffer, size, capacity, allocs>>

\* kdf__array_destroy, when the value that owns the array goes.
Destroy ==
  /\ status = "ok" /\ status' = "destroyed"
  /\ children' = children \ FreedIn(Used)
  /\ buffer' = NULL /\ size' = 0 /\ capacity' = 0 /\ count' = 0
  /\ items' = [i \in 0 .. -1 |-> Junk]
  /\ UNCHANGED allocs

\* What the callers pass.
Arguments == {<<"null", NULL>>} \cup ({"scalar"} \X Scalars)
               \cup ({"string"} \X (Strings \cup {NULL})) \cup (Containers \X {NULL})

Next ==
  \/ \E a \in Arguments : Push(a[1], a[2]) \/ PushValue(a[1], a[2])
  \/ PushTraps
  \/ \E i \in Used : Remove(i)
  \/ Clear \/ Destroy

Spec == Init /\ [][Next]_vars

-----------------------------------------------------------------------------
\* Types of the variables; the buffer holds what its size says.
TypeOK ==
  /\ status \in {"ok", "destroyed", "fault"}
  /\ buffer \in Blocks \cup {NULL}
  /\ size \in Nat /\ capacity \in Nat /\ count \in 0 .. size
  /\ items \in [0 .. size - 1 -> Values \cup {Junk}]
  /\ children \subseteq Blocks
  /\ allocs \in 0 .. MaxBlocks

\* The size the library passes when it resizes or frees the buffer is the size
\* it was given: allocators that keep no records rely on it
\* (kdf_array.c:21, 34; docs/USAGE.md:51).
SizeKnown == capacity = size /\ (buffer = NULL <=> size = 0)

\* No call reads a slot before it is written (kdf_array.c:31-40, 48-54).
NoJunkInUse == \A i \in Used : items[i] # Junk

\* Every child has one element that owns it, and goes when the element goes.
ChildrenOwnedOnce ==
  /\ children = UNION {OwnedBy(items[i]) : i \in Used}
  /\ \A i, j \in Used : i # j => OwnedBy(items[i]) \cap OwnedBy(items[j]) = {}

\* No slot behind the elements still names a child, so that a slot that is
\* used again drops no child and destroying the array frees none twice
\* (kdf_array.c:267-281, kdf_value.c:187).
NoStaleOwner == \A i \in (0 .. size - 1) \ Used : items[i] \in {Junk, NullValue}

\* While the allocator answers, no push writes behind its buffer.
NoFault == status # "fault"

\* A pointer from kdf_arr_get stays good until the array is full and grows, or
\* an element up to it is removed: a push moves the buffer only if there is no
\* room left, and neither pushes nor removals change the elements before.
HandlesStable ==
  [][/\ buffer' # buffer => count = capacity \/ status' = "destroyed"
     /\ count' >= count => \A i \in Used : items'[i] = items[i]
     /\ \A i \in Used : Remove(i) => \A j \in 0 .. i - 1 : items'[j] = items[j]]_vars

-----------------------------------------------------------------------------
\* The inductive invariant.
IndInv ==
  /\ TypeOK /\ SizeKnown /\ NoJunkInUse /\ ChildrenOwnedOnce /\ NoStaleOwner
  /\ children \subseteq 1 .. allocs
  /\ buffer # NULL => buffer \in 1 .. allocs

\* The sequence a caller sees.
Sequence == INSTANCE ValueSequence WITH
              list <- [i \in 1 .. count |-> items[i - 1]],
              open <- (status # "destroyed"), Owned <- OwnedBy

\* The buffer implements the sequence.
ImplementsSequence == Sequence!SequenceSpec
=============================================================================
