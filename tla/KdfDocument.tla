----------------------------- MODULE KdfDocument -----------------------------
(***************************************************************************)
(* A document: the tree of containers below its root object, as the calls  *)
(* of a caller or a reader build it, take it apart and destroy it          *)
(* (src/src/kdf_document.c, and the calls of kdf_object.c, kdf_array.c and *)
(* both readers that pass a container from one owner to another).          *)
(*                                                                         *)
(* Each container is one block.  What it holds is a sequence of members: a *)
(* key and the child container, NULL for any other value and for a child   *)
(* that could not be allocated.  KdfObject and KdfArray model how members  *)
(* are stored and reached, and how a failed allocation of theirs traps:    *)
(* here a call that traps is not made.  Blocks are numbered in allocation  *)
(* order and no number is used twice.                                      *)
(***************************************************************************)
EXTENDS Integers, FiniteSets, SequencesExt

CONSTANTS
  Keys,
  NULL,
  AllocFails,      \* may the user's allocator return NULL?
  MaxBlocks,       \* bound: containers allocated over a behaviour
  MaxMembers       \* bound: members of a container

ASSUME DocumentAssumption ==
  /\ MaxBlocks \in Nat /\ MaxMembers \in Nat /\ AllocFails \in BOOLEAN
  /\ NULL \notin Int /\ NULL \notin Keys

VARIABLES
  status,          \* "none", "reading", "open", or "gone" after kdf_doc_destroy
  kind,            \* the containers that are allocated: "object" or "array"
  members,         \* what each of them, and the root object, holds
  path,            \* the containers a reader is in, outermost first
  lost,            \* containers allocated that nothing refers to any more
  allocs           \* blocks allocated so far

vars == <<status, kind, members, path, lost, allocs>>

Root   == 0
Blocks == 1 .. MaxBlocks
Live   == DOMAIN kind
Kinds  == {"object", "array"}
Member(key, child) == [key |-> key, child |-> child]
Failures == IF AllocFails THEN {NULL} ELSE {}

-----------------------------------------------------------------------------
ChildrenIn(ms) == {ms[i].child : i \in DOMAIN ms} \ {NULL}
Children(c) == ChildrenIn(members[c])

\* kdf__value_destroy, kdf__object_destroy and kdf__array_destroy call each
\* other: the containers and all that is below them.  Mutated form: an array
\* goes without what it holds.
BelowButArrays(S) ==
  {b \in Live : \A T \in SUBSET Live :
     S \subseteq T /\ (\A c \in T : kind[c] = "object" => Children(c) \subseteq T) => b \in T}
Below(S) ==
  {b \in Live : \A T \in SUBSET Live :
     S \subseteq T /\ (\A c \in T : Children(c) \subseteq T) => b \in T}

\* c holds ms from now on, and the containers it no longer holds are destroyed.
\* Only then is the new child (or NULL) allocated, if there is one.
Holds(c, ms, k, child) ==
  LET freed == Below(Children(c) \ ChildrenIn(ms))
      kept  == Live \ freed
      new   == {child} \ (kept \cup {NULL}) IN
  /\ members' = [b \in kept \cup new \cup {Root} |->
                   IF b = c THEN ms ELSE IF b \in new THEN <<>> ELSE members[b]]
  /\ kind' = [b \in kept \cup new |-> IF b \in new THEN k ELSE kind[b]]
  /\ allocs' = IF new = {} THEN allocs ELSE child
NoNew == NULL

Fresh == IF allocs < MaxBlocks THEN {allocs + 1} ELSE {}
IsObject(c) == c = Root \/ (c \in Live /\ kind[c] = "object")
IsArray(c)  == c \in Live /\ kind[c] = "array"

\* kdf__object_insert.  Mutated form: an entry is added without looking for
\* the key first.
PutAgain(ms, key, child) == Append(ms, Member(key, child))
Put(ms, key, child) ==
  IF \E i \in DOMAIN ms : ms[i].key = key
  THEN [i \in DOMAIN ms |-> IF ms[i].key = key THEN Member(key, child) ELSE ms[i]]
  ELSE Append(ms, Member(key, child))

\* kdf_arr_remove.  Mutated form: the last element is there twice afterwards.
RemovedAll(ms, i) == [j \in DOMAIN ms |-> IF j < i \/ j = Len(ms) THEN ms[j] ELSE ms[j + 1]]
Removed(ms, i) == RemoveAt(ms, i)

-----------------------------------------------------------------------------
\* kdf_doc_create_alloc, by the caller or at the beginning of a reader.
Init ==
  /\ status = "none" /\ kind = <<>> /\ members = [b \in {Root} |-> <<>>]
  /\ path = <<>> /\ lost = {} /\ allocs = 0

Create ==
  /\ status = "none" /\ status' \in {"open", "reading"}
  /\ UNCHANGED <<kind, members, path, lost, allocs>>

\* What calls do to the object or array c.  kdf_obj_set_*, kdf_obj_add_* and
\* kdf_arr_push_*; k is the kind of the new child, or NULL for no container.
SetIn(c, key, k) ==
  /\ IsObject(c)
  /\ \E child \in IF k = NULL THEN {NULL} ELSE Fresh \cup Failures :
       /\ Len(Put(members[c], key, child)) <= MaxMembers
       /\ Holds(c, Put(members[c], key, child), k, child)
  /\ UNCHANGED lost

PushIn(c, k) ==
  /\ IsArray(c) /\ Len(members[c]) < MaxMembers
  /\ \E child \in IF k = NULL THEN {NULL} ELSE Fresh \cup Failures :
       Holds(c, Append(members[c], Member(NULL, child)), k, child)
  /\ UNCHANGED lost

\* The calls of the caller on a container of its document.
Handles == {Root} \cup (Live \ lost)
Set ==
  /\ status = "open"
  /\ \E c \in Handles, k \in Kinds \cup {NULL} :
       (\E key \in Keys : SetIn(c, key, k)) \/ PushIn(c, k)
  /\ UNCHANGED <<status, path>>

\* kdf_obj_remove, kdf_arr_remove.
RemoveMember ==
  /\ status = "open"
  /\ \E c \in Handles : \E i \in DOMAIN members[c] :
       Holds(c, Removed(members[c], i), NULL, NoNew)
  /\ UNCHANGED <<status, path, lost>>

\* kdf_obj_clear, kdf_arr_clear.
Clear ==
  /\ status = "open"
  /\ \E c \in Handles : Holds(c, <<>>, NULL, NoNew)
  /\ UNCHANGED <<status, path, lost>>

\* kdf_doc_destroy: the root object, and with it all below, then the pool.
Destroy ==
  /\ status = "open" /\ status' = "gone"
  /\ Holds(Root, <<>>, NULL, NoNew)
  /\ UNCHANGED <<path, lost>>

-----------------------------------------------------------------------------
\* The readers.  A container is held by a local variable of the reader until
\* it is complete; the object of the text form's shorthand key { ... } by the
\* object around it from the beginning.
Step(c, key, held) == [c |-> c, key |-> key, held |-> held]
Current == IF path = <<>> THEN Root ELSE Last(path).c
Held    == {s.c : s \in {s \in Range(path) : s.held}}
KeyFor(c) == IF IsArray(c) THEN {NULL} ELSE Keys

ReadPlain ==
  /\ status = "reading"
  /\ (\E key \in Keys : SetIn(Current, key, NULL)) \/ PushIn(Current, NULL)
  /\ UNCHANGED <<status, path>>

\* br_read_value, parser_parse_value.
OpenContainer ==
  /\ status = "reading"
  /\ \E b \in Fresh, key \in KeyFor(Current), k \in Kinds :
       /\ path' = Append(path, Step(b, key, TRUE))
       /\ kind' = [x \in Live \cup {b} |-> IF x = b THEN k ELSE kind[x]]
       /\ members' = [x \in DOMAIN members \cup {b} |-> IF x = b THEN <<>> ELSE members[x]]
       /\ allocs' = b
  /\ UNCHANGED <<status, lost>>

\* parser_parse_object_body, shorthand.
OpenShorthand ==
  /\ status = "reading" /\ Fresh # {}
  /\ \E key \in Keys :
       /\ SetIn(Current, key, "object")
       /\ allocs' # allocs
       /\ path' = Append(path, Step(allocs', key, FALSE))
  /\ UNCHANGED status

\* The end of a container.  kdf__object_insert or kdf__arr_push_value puts a
\* held one in its place, which destroys what a member of the same key held.
\* Mutated form: it is put into itself.
OuterItself == Last(path).c
Outer == IF Len(path) = 1 THEN Root ELSE path[Len(path) - 1].c
With(c, key, b) ==
  IF IsArray(c) THEN Append(members[c], Member(NULL, b)) ELSE Put(members[c], key, b)
CloseContainer ==
  /\ status = "reading" /\ path # <<>>
  /\ IF Last(path).held
     THEN /\ Len(With(Outer, Last(path).key, Last(path).c)) <= MaxMembers
          /\ Holds(Outer, With(Outer, Last(path).key, Last(path).c), NULL, Last(path).c)
     ELSE UNCHANGED <<kind, members, allocs>>
  /\ path' = Front(path)
  /\ UNCHANGED <<status, lost>>

\* The entry for a container that is complete cannot be allocated: the reader
\* goes on, and its variable goes out of scope.
CloseNoMemory ==
  /\ status = "reading" /\ path # <<>> /\ Last(path).held /\ AllocFails
  /\ ~IsArray(Outer) /\ \A i \in DOMAIN members[Outer] : members[Outer][i].key # Last(path).key
  /\ lost' = lost \cup Below({Last(path).c})
  /\ path' = Front(path)
  /\ UNCHANGED <<status, kind, members, allocs>>

\* Mutated form: the document is returned from within a container.
ReturnDocumentAnywhere ==
  /\ status = "reading" /\ status' = "open"
  /\ UNCHANGED <<kind, members, path, lost, allocs>>
ReturnDocument ==
  /\ status = "reading" /\ path = <<>> /\ status' = "open"
  /\ UNCHANGED <<kind, members, path, lost, allocs>>

\* A read or an allocation failed, or the stream is malformed: the variables of
\* all calls go out of scope and the document is destroyed.
ReturnNull ==
  /\ status = "reading" /\ status' = "gone"
  /\ Holds(Root, <<>>, NULL, NoNew)
  /\ lost' = lost \cup Below(Held) /\ path' = <<>>

Next ==
  \/ Create \/ Set \/ RemoveMember \/ Clear \/ Destroy
  \/ ReadPlain \/ OpenContainer \/ OpenShorthand \/ CloseContainer \/ CloseNoMemory
  \/ ReturnDocument \/ ReturnNull

Spec == Init /\ [][Next]_vars

-----------------------------------------------------------------------------
\* Types; in particular no member refers to a container that was freed.
TypeOK ==
  /\ status \in {"none", "reading", "open", "gone"}
  /\ Live \subseteq 1 .. allocs /\ allocs \in 0 .. MaxBlocks
  /\ kind \in [Live -> Kinds]
  /\ DOMAIN members = Live \cup {Root}
  /\ \A c \in DOMAIN members : \A i \in DOMAIN members[c] :
       /\ members[c][i].child \in Live \cup {NULL}
       /\ members[c][i].key \in KeyFor(c)
  /\ \A i \in DOMAIN path : path[i].c \in Live
  /\ lost \subseteq Live /\ (path # <<>> => status = "reading")

\* The keys of an object are unique, and each container belongs to one place:
\* one member of one container, one local variable of a reader, or nobody.
\* Otherwise destroying the document would free it twice.
Places(b) == {p \in (DOMAIN members) \X (1 .. MaxMembers) :
                p[2] \in DOMAIN members[p[1]] /\ members[p[1]][p[2]].child = b}
OwnedOnce ==
  /\ \A c \in DOMAIN members : IsObject(c) =>
       \A i, j \in DOMAIN members[c] : members[c][i].key = members[c][j].key => i = j
  /\ \A b \in Live :
       /\ Cardinality(Places(b)) <= 1
       /\ Places(b) = {} <=> b \in Held \/ (b \in lost /\ \A l \in lost : b \notin Children(l))
       /\ b \in Held => b \notin lost

\* Everything allocated can be reached from the root object or from a reader,
\* or was lost when a reader gave up on it: among any containers there is one
\* that something else holds, so that no sequence of calls leaves a container,
\* or a circle of them, behind.
AllReached ==
  \A S \in SUBSET (Live \ lost) : S # {} =>
    \E b \in S : b \in Held \/ \E o \in DOMAIN members \ S : b \in Children(o)

\* A document that was destroyed has freed every container that was not lost
\* to a reader that failed, at any depth and of both kinds.
DestroyFreesAll == status = "gone" => Live = lost

\* kdf_doc_destroy does not "free all associated memory" (kdf_document.h:18)
\* where a reader gave up: a container leaks, that is, it is not freed and can no
\* longer be reached, exactly if a local variable of a reader that returns NULL,
\* or finds no entry for it, held it or one around it.  What is in the tree by
\* then, the object of a shorthand among it, does not leak, nor does anything in
\* a call of the caller.
Reached == Below(Children(Root) \cup Held)
Dropped == IF status' = "gone" THEN Held
           ELSE IF members' = members THEN Held \ Held' ELSE {}
OnlyReadersLeak ==
  [][Reached \cap (DOMAIN kind' \ Reached') = Below(Dropped)]_vars

\* A call changes one container, and frees exactly the children it dropped from
\* there and what containers that are freed hold: pointers to all other
\* containers stay valid, and so does what these hold, anywhere in the tree.
HandlesStable ==
  [][\E c \in DOMAIN members \cap DOMAIN members' :
       LET freed == Live \ DOMAIN kind' IN
       /\ \A b \in DOMAIN members \ (freed \cup {c}) : members'[b] = members[b]
       /\ \A b \in Live : b \in freed <=>
            \E o \in DOMAIN members : b \in Children(o) /\
              (o \in freed \/ (o = c /\ b \notin ChildrenIn(members'[c])))]_vars

-----------------------------------------------------------------------------
\* No container is in two slots, and what is below was allocated later: what a
\* call destroys is below the container it is called on, never around it.
MemberSet == [key : Keys \cup {NULL}, child : Live \cup {NULL}]
OneOwner ==
  \A c, d \in DOMAIN members : \A i \in DOMAIN members[c], j \in DOMAIN members[d] :
    members[c][i].child = members[d][j].child /\ members[c][i].child # NULL => c = d /\ i = j
TreeOK ==
  /\ \A c \in DOMAIN members : /\ members[c] \in Seq(MemberSet) /\ Len(members[c]) <= MaxMembers
                               /\ \A b \in Children(c) : c < b
  /\ OneOwner

\* A reader is in containers that are not lost, each allocated after those
\* around it; those it holds are in no other's members.
Around(i) == IF i = 1 THEN Root ELSE path[i - 1].c
PathOK ==
  /\ path \in Seq([c : Live \ lost, key : Keys \cup {NULL}, held : BOOLEAN])
  /\ \A i \in 1 .. Len(path) : path[i].key \in KeyFor(Around(i))
  /\ \A i, j \in 1 .. Len(path) : i < j => path[i].c < path[j].c
  /\ \A b \in Held, o \in DOMAIN members : b \notin Children(o)

\* What is lost is lost with all that is below it, and everything else belongs
\* to someone.
LostOK ==
  /\ \A c \in DOMAIN members : \A b \in Children(c) : b \in lost <=> c \in lost
  /\ \A b \in Live : b \in Held \cup lost \/ \E o \in DOMAIN members : b \in Children(o)

KeysUnique ==
  \A c \in DOMAIN members : IsObject(c) =>
    \A i, j \in DOMAIN members[c] : members[c][i].key = members[c][j].key => i = j

\* The inductive invariant.
IndInv == TypeOK /\ TreeOK /\ PathOK /\ LostOK /\ KeysUnique /\ DestroyFreesAll
=============================================================================
