------------------------------ MODULE KdfObject ------------------------------
(***************************************************************************)
(* kdf_object at pointer level (src/src/kdf_object.c): a chained hash      *)
(* table whose entries are also threaded on a doubly linked list in        *)
(* insertion order.  One action is one call of the C API; the library has  *)
(* no threads, so a call is atomic.                                        *)
(*                                                                         *)
(* Blocks obtained from the allocator are numbered in allocation order and *)
(* a number is never used twice, so a pointer to a freed block is          *)
(* recognisable: it is outside the domain of the field functions, which is *)
(* the set of entries that are allocated.  Children (nested objects and    *)
(* arrays) are opaque blocks here.                                         *)
(***************************************************************************)
EXTENDS Integers, FiniteSets, LinkedList

CONSTANTS
  Keys,            \* property names
  Hash,            \* kdf__fnv1a, as a function on Keys
  Scalars,         \* values stored inline: null, bool, int, float, vec, ...
  Strings,         \* contents of string and reference values, type names
  Containers,      \* the value types that own a child block
  Versions,        \* values passed to kdf_obj_set_version
  NULL,            \* the null pointer
  InitBuckets,     \* KDF_OBJECT_INIT_BUCKETS
  AllocFails,      \* may the user's allocator return NULL?
  MaxBlocks        \* bound: entries and children allocated over a behaviour

ASSUME SizeAssumption ==
  /\ InitBuckets \in Nat /\ InitBuckets >= 2
  /\ MaxBlocks \in Nat
  /\ AllocFails \in BOOLEAN
ASSUME HashAssumption == Hash \in [Keys -> Nat]
ASSUME NullAssumption == NULL \notin Int /\ NULL \notin Strings /\ NULL \notin Keys
ASSUME TypeAssumption == {"scalar", "string"} \cap Containers = {}

VARIABLES
  status,          \* "ok", "destroyed", or "fault" once the C program trapped
  live,            \* the kdf_entry blocks that are allocated
  key, val,        \* fields of a live entry
  keyless,         \* entries whose key pointer is NULL; their key[e] is only
                   \*   the name the caller asked for, which no code reads
  hashNext, orderNext, orderPrev,
  buckets,         \* the bucket array, a function on 0 .. bucketCount - 1
  bucketCount, count, first, last,
  meta,            \* type_name and version
  pool,            \* contents in the document's string pool
  children,        \* child blocks that are allocated
  allocs           \* blocks allocated so far

links  == <<orderNext, orderPrev, first, last>>
table  == <<hashNext, buckets, bucketCount>>
vars   == <<status, live, key, val, keyless, links, table, count, meta, pool,
            children, allocs>>

Blocks == 1 .. MaxBlocks
EmptyFcn == [x \in {} |-> NULL]
Fresh  == allocs + 1
Values == [type : {"scalar"}, as : Scalars]
            \cup [type : {"string"}, as : Strings \cup {NULL}]
            \cup [type : Containers, as : Blocks \cup {NULL}]

\* What a call of the allocator can answer.
Outcomes == IF AllocFails THEN BOOLEAN ELSE {TRUE}
\* The string pools that interning s into p can leave: a content that is
\* pooled already needs no allocation, a new one is lost if memory runs out.
AfterIntern(s, p) ==
  IF s = NULL \/ s \in p THEN {p}
  ELSE {IF ok THEN p \cup {s} ELSE p : ok \in Outcomes}

-----------------------------------------------------------------------------
Slot(k, n) == Hash[k] % n

HeadOf(k) == IF bucketCount = 0 THEN NULL ELSE buckets[Slot(k, bucketCount)]

\* kdf__object_find: walk the chain of k until an entry matches.  Comparing
\* with an entry whose key pointer is NULL traps.
Matching(k) == {e \in live \ keyless : key[e] = k}
Probe(k)    == Visited(live, HeadOf(k), hashNext, Matching(k) \cup keyless)
Traps(k)    == Probe(k) \cap keyless # {}
\* Mutated form: the first node is taken without comparing keys.
FindAnyKey(k)  == {HeadOf(k)} \cap live
Find(k)     == Probe(k) \cap Matching(k)

\* The insertion-order list, and the order in which it is walked.
\* Mutated form: the walk stops before the last node.
OrderButLast == Visited(live, first, orderNext, {}) \ {last}
Order        == Visited(live, first, orderNext, {})
Before(e, f) == f \in Visited(live, orderNext[e], orderNext, {})

\* The node of S that the walk reaches last.
Latest(S) == IF S = {} THEN NULL
             ELSE CHOOSE e \in S : \A f \in S \ {e} : Before(f, e)

-----------------------------------------------------------------------------
(* kdf__object_grow *)
\* Mutated forms: off by one, and off by one without the test for an empty table.
NeedGrowLate  == count > (bucketCount * 3) \div 4 \/ bucketCount = 0
NeedGrowNever == count > (bucketCount * 3) \div 4
NeedGrow == count >= (bucketCount * 3) \div 4 \/ bucketCount = 0

NewSize == IF bucketCount = 0 THEN InitBuckets ELSE 2 * bucketCount

\* The new table: the order list is walked from the oldest entry and each
\* entry is pushed at the head of its new chain.
GrownHeads(n) ==
  [b \in 0 .. n - 1 |-> Latest({e \in Order : Slot(key[e], n) = b})]
\* Mutated form: the old chain links are kept.
GrownNextStale(n) == hashNext
GrownNext(n) ==
  [e \in live |-> Latest({f \in Order : /\ Before(f, e)
                                        /\ Slot(key[f], n) = Slot(key[e], n)})]

-----------------------------------------------------------------------------
(* The payload a setter stores, and kdf__value_destroy *)
OwnedBy(v) == IF v.type \in Containers /\ v.as # NULL THEN {v.as} ELSE {}

\* The child that destroying v frees, the one it owns.
Freed(v) == OwnedBy(v)

\* What a setter of this type can leave in its entry, with the pool after it:
\* a string that cannot be interned and a child that cannot be allocated are
\* NULL.  For a container arg is the type name given to a new subresource.
Payloads(type, arg, id, p) ==
  IF type = "scalar" THEN {[as |-> arg, pool |-> p]}
  ELSE IF type = "string"
  THEN {[as |-> IF arg \in q THEN arg ELSE NULL, pool |-> q] : q \in AfterIntern(arg, p)}
  ELSE {[as |-> id, pool |-> q] : q \in AfterIntern(arg, p)}
         \cup {[as |-> NULL, pool |-> p] : ok \in Outcomes \ {TRUE}}

\* MaxBlocks: the model has room for n more blocks.
Room(n) == allocs + n <= MaxBlocks
ChildBlocks(type) == IF type \in Containers THEN 1 ELSE 0

-----------------------------------------------------------------------------
Init ==
  /\ status = "ok"
  /\ live = {} /\ keyless = {} /\ children = {} /\ pool = {} /\ allocs = 0
  /\ key = EmptyFcn /\ val = EmptyFcn
  /\ hashNext = EmptyFcn /\ orderNext = EmptyFcn /\ orderPrev = EmptyFcn
  /\ buckets = EmptyFcn /\ bucketCount = 0
  /\ count = 0 /\ first = NULL /\ last = NULL
  /\ meta = [type |-> NULL, version |-> 0]

\* The C program traps: nothing the library promised is left.
Trap ==
  /\ status' = "fault"
  /\ UNCHANGED <<live, key, val, keyless, links, table, count, meta, pool,
                 children, allocs>>

\* A setter on a key that has an entry: the old value is destroyed first, the
\* entry keeps its place, then the new payload is stored.
Replace(k, type, arg) ==
  /\ status = "ok" /\ ~Traps(k) /\ Room(ChildBlocks(type))
  /\ \E e \in Find(k), r \in Payloads(type, arg, Fresh, pool) :
       LET v == [type |-> type, as |-> r.as] IN
       /\ val' = [val EXCEPT ![e] = v]
       /\ children' = (children \ Freed(val[e])) \cup OwnedBy(v)
       /\ pool' = r.pool
       /\ allocs' = allocs + ChildBlocks(type)
  /\ UNCHANGED <<status, live, key, keyless, links, table, count, meta>>

\* The table kdf__object_insert goes on with: rehashed if the larger bucket
\* array was obtained, as it was if not.
GrowOutcomes      == IF NeedGrow THEN Outcomes ELSE {FALSE}
TableSize(grown)  == IF grown THEN NewSize ELSE bucketCount
TableHeads(grown) == IF grown THEN GrownHeads(NewSize) ELSE buckets
TableNext(grown)  == IF grown THEN GrownNext(NewSize) ELSE hashNext

\* A setter on a new key whose entry cannot be allocated: the table may have
\* grown, and nothing else happens.
InsertNoMemory(k) ==
  /\ status = "ok" /\ ~Traps(k) /\ Find(k) = {}
  /\ FALSE \in Outcomes
  /\ \E grown \in GrowOutcomes :
       /\ grown => keyless = {}
       /\ buckets' = TableHeads(grown)
       /\ hashNext' = TableNext(grown)
       /\ bucketCount' = TableSize(grown)
  /\ UNCHANGED <<status, live, key, val, keyless, links, count, meta, pool,
                 children, allocs>>

\* The head of the order list once e is appended, and its tail once e is taken
\* out.  Mutated forms: the head always moves, the tail never does.
FirstMoved(e)   == e
FirstWith(e)    == IF last = NULL THEN e ELSE first
LastKept(e)     == last
LastWithout(e)  == IF orderNext[e] = NULL THEN orderPrev[e] ELSE last

\* A new entry goes to the head of its chain and to the tail of the order list.
Link(k, v, n, heads, next) ==
  LET e   == Fresh
      all == live \cup {e}
  IN
  /\ live' = all
  /\ key' = [f \in all |-> IF f = e THEN k ELSE key[f]]
  /\ val' = [f \in all |-> IF f = e THEN v ELSE val[f]]
  /\ bucketCount' = n
  /\ buckets' = [heads EXCEPT ![Slot(k, n)] = e]
  /\ hashNext' = [f \in all |-> IF f = e THEN heads[Slot(k, n)] ELSE next[f]]
  /\ orderPrev' = [f \in all |-> IF f = e THEN last ELSE orderPrev[f]]
  /\ orderNext' = [f \in all |-> IF f = e THEN NULL
                                 ELSE IF f = last THEN e ELSE orderNext[f]]
  /\ first' = FirstWith(e)
  /\ last' = e
  /\ count' = count + 1

\* A setter on a new key: the entry is linked even if its key could not be
\* interned, and before its payload is obtained.
InsertNew(k, type, arg) ==
  /\ status = "ok" /\ ~Traps(k) /\ Find(k) = {}
  /\ Room(1 + ChildBlocks(type))
  /\ \E grown \in GrowOutcomes, named \in AfterIntern(k, pool) :
     \E r \in Payloads(type, arg, Fresh + 1, named) :
       LET v == [type |-> type, as |-> r.as] IN
       /\ grown => keyless = {}
       /\ TableSize(grown) # 0
       /\ Link(k, v, TableSize(grown), TableHeads(grown), TableNext(grown))
       /\ keyless' = IF k \in named THEN keyless ELSE keyless \cup {Fresh}
       /\ children' = children \cup OwnedBy(v)
       /\ pool' = r.pool
  /\ allocs' = allocs + 1 + ChildBlocks(type)
  /\ UNCHANGED <<status, meta>>

\* kdf__object_insert divides by a bucket count of zero when the first bucket
\* array cannot be allocated but the entry can, and kdf__object_grow reads the
\* key of every entry.
InsertTraps(k) ==
  /\ status = "ok" /\ ~Traps(k) /\ Find(k) = {}
  /\ \E grown \in GrowOutcomes : TableSize(grown) = 0 \/ (grown /\ keyless # {})
  /\ Trap

\* Every lookup by name, whether it gets, sets or removes.
LookupTraps(k) == status = "ok" /\ Traps(k) /\ Trap

\* kdf_obj_remove: unlink from the chain through the node visited before it,
\* then from the order list through its neighbours.
RemoveKey(k) ==
  /\ status = "ok" /\ ~Traps(k)
  /\ \E e \in Find(k) :
       LET rest == live \ {e}
           prev == {f \in Probe(k) : hashNext[f] = e}
       IN
       /\ buckets' = IF prev = {}
                     THEN [buckets EXCEPT ![Slot(k, bucketCount)] = hashNext[e]]
                     ELSE buckets
       /\ hashNext' = [f \in rest |-> IF f \in prev THEN hashNext[e] ELSE hashNext[f]]
       /\ orderNext' = [f \in rest |-> IF f = orderPrev[e] THEN orderNext[e]
                                       ELSE orderNext[f]]
       /\ orderPrev' = [f \in rest |-> IF f = orderNext[e] THEN orderPrev[e]
                                       ELSE orderPrev[f]]
       /\ first' = IF orderPrev[e] = NULL THEN orderNext[e] ELSE first
       /\ last' = LastWithout(e)
       /\ children' = children \ Freed(val[e])
       /\ live' = rest
       /\ key' = [f \in rest |-> key[f]]
       /\ val' = [f \in rest |-> val[f]]
  /\ count' = count - 1
  /\ UNCHANGED <<status, keyless, bucketCount, meta, pool, allocs>>

\* What kdf_obj_clear and kdf__object_destroy share: every entry reached over
\* the order list is freed with the child it owns.
FreeEntries ==
  LET rest == live \ Order IN
  /\ live' = rest
  /\ keyless' = keyless \cap rest
  /\ key' = [f \in rest |-> key[f]]
  /\ val' = [f \in rest |-> val[f]]
  /\ hashNext' = [f \in rest |-> hashNext[f]]
  /\ orderNext' = [f \in rest |-> orderNext[f]]
  /\ orderPrev' = [f \in rest |-> orderPrev[f]]
  /\ children' = children \ UNION {Freed(val[e]) : e \in Order}
  /\ count' = 0 /\ first' = NULL /\ last' = NULL
  /\ UNCHANGED <<meta, pool, allocs>>

Clear ==
  /\ status = "ok"
  /\ FreeEntries
  /\ buckets' = [b \in 0 .. bucketCount - 1 |-> NULL]
  /\ UNCHANGED <<status, bucketCount>>

Destroy ==
  /\ status = "ok"
  /\ FreeEntries
  /\ buckets' = EmptyFcn /\ bucketCount' = 0
  /\ status' = "destroyed"

SetType(t) ==
  /\ status = "ok"
  /\ \E q \in AfterIntern(t, pool) :
       /\ pool' = q
       /\ meta' = [meta EXCEPT !.type = IF t \in q THEN t ELSE NULL]
  /\ UNCHANGED <<status, live, key, val, keyless, links, table, count, children,
                 allocs>>

SetVersion(n) ==
  /\ status = "ok"
  /\ meta' = [meta EXCEPT !.version = n]
  /\ UNCHANGED <<status, live, key, val, keyless, links, table, count, pool,
                 children, allocs>>

\* The arguments of each family of setters.
SetScalar(k)    == \E s \in Scalars :
                     Replace(k, "scalar", s) \/ InsertNew(k, "scalar", s)
SetString(k)    == \E s \in Strings \cup {NULL} :
                     Replace(k, "string", s) \/ InsertNew(k, "string", s)
AddContainer(k) == \E t \in Containers, s \in Strings \cup {NULL} :
                     /\ t # "subresource" => s = NULL
                     /\ Replace(k, t, s) \/ InsertNew(k, t, s)

Next ==
  \/ \E k \in Keys : \/ SetScalar(k) \/ SetString(k) \/ AddContainer(k)
                     \/ InsertNoMemory(k) \/ InsertTraps(k)
                     \/ LookupTraps(k) \/ RemoveKey(k)
  \/ Clear \/ Destroy
  \/ \E t \in Strings \cup {NULL} : SetType(t)
  \/ \E n \in Versions : SetVersion(n)

Spec == Init /\ [][Next]_vars

-----------------------------------------------------------------------------
Pointers(S) == S \cup {NULL}

\* Types of the variables.  The field functions live on the allocated entries
\* and point to allocated entries: no pointer dangles.
TypeOK ==
  /\ status \in {"ok", "destroyed", "fault"}
  /\ live \subseteq Blocks /\ keyless \subseteq live /\ children \subseteq Blocks
  /\ key \in [live -> Keys] /\ val \in [live -> Values]
  /\ hashNext \in [live -> Pointers(live)]
  /\ orderNext \in [live -> Pointers(live)]
  /\ orderPrev \in [live -> Pointers(live)]
  /\ bucketCount \in Nat /\ buckets \in [0 .. bucketCount - 1 -> Pointers(live)]
  /\ count \in Nat
  /\ first \in Pointers(live) /\ last \in Pointers(live)
  /\ meta \in [type : Strings \cup {NULL}, version : Versions \cup {0}]
  /\ pool \subseteq Keys \cup Strings
  /\ allocs \in 0 .. MaxBlocks

\* The order list reaches every allocated entry, its back links mirror its
\* forward links, and the counter is its length: what remove's unlinking and
\* insert's appending must keep true together (kdf_object.c:114-126, 461-480).
OrderListSound ==
  /\ Order = live
  /\ count = Cardinality(live)
  /\ last = Latest(live)
  /\ \A e \in live : /\ orderNext[e] # NULL => orderPrev[orderNext[e]] = e
                     /\ orderPrev[e] = NULL <=> e = first

\* Each chain holds exactly the entries that hash to its slot, before and
\* after a rehash: find, which looks in one chain, misses no entry that the
\* iteration shows, and shows none that it does not (kdf_object.c:49-54, 110-112).
\* An entry whose key was lost sits where its key would have put it.
ChainsSound ==
  \A b \in DOMAIN buckets :
     Visited(live, buckets[b], hashNext, {}) = {e \in live : Slot(key[e], bucketCount) = b}

\* No two entries have the same key, so a key is overwritten and never
\* shadowed: every other property rests on insert finding the entry that is
\* there (kdf_object.c:84-92).
KeysUnique == \A e, f \in live \ keyless : key[e] = key[f] => e = f

\* A child block is freed exactly when the value that owns it goes: every
\* allocated child has one owner, and no value points to a freed child
\* (kdf_value.c:163-188, kdf_object.c:88, 301-306).
ChildrenOwnedOnce ==
  /\ children = UNION {OwnedBy(val[e]) : e \in live}
  /\ \A e, f \in live : e # f => OwnedBy(val[e]) \cap OwnedBy(val[f]) = {}

\* Destroying an object leaves no block of it allocated.
DestroyFreesAll == status = "destroyed" => live = {} /\ children = {}

\* While the allocator answers, no call traps.
NoFault == status # "fault"

\* While the allocator answers, a chain is never more loaded than three
\* entries for four buckets (the test at kdf_object.c:95 runs before the
\* entry is counted).
LoadBounded == bucketCount # 0 => count <= (bucketCount * 3) \div 4

\* A kdf_value or kdf_entry pointer that a caller holds stays valid, and its
\* value unchanged, whatever is done to other keys: a call disturbs one entry
\* at most, and no rehash moves any (unlike kdf_arr_get, whose pointers a push
\* invalidates); only emptying the object frees more.
HandlesStable ==
  [][\/ live' = {}
     \/ \E d \in live \cup live' : \A e \in live \ {d} :
           e \in live' /\ key'[e] = key[e] /\ val'[e] = val[e]]_vars

-----------------------------------------------------------------------------
\* The chains of a table of n buckets, each read from its newest entry.
ChainsDescend(n, heads, next) ==
  \A b \in 0 .. n - 1 :
     Descending({e \in live : Slot(key[e], n) = b}, heads[b], next, NULL)

\* The inductive invariant: the order list threads the entries from the
\* oldest to the newest and back, and every chain threads the entries of its
\* slot from the newest to the oldest - also after a rehash, which reads the
\* order list forwards and pushes at the heads (kdf_object.c:41-129, 438-507).
IndInv ==
  /\ TypeOK
  /\ live \cup children \subseteq 1 .. allocs
  /\ Ascending(live, first, orderNext, NULL)
  /\ Descending(live, last, orderPrev, NULL)
  /\ ChainsDescend(bucketCount, buckets, hashNext)
  /\ live # {} => bucketCount # 0
  /\ count = Cardinality(live)
  /\ KeysUnique /\ ChildrenOwnedOnce /\ DestroyFreesAll

-----------------------------------------------------------------------------
\* The map a caller sees: the entries that have a key, in list order.
Items ==
  LET named == Order \ keyless
      rank  == [e \in named |-> Cardinality({f \in named : Before(f, e)}) + 1]
  IN  [i \in 1 .. Cardinality(named) |->
         LET e == CHOOSE f \in named : rank[f] = i
         IN  [key |-> key[e], val |-> val[e]]]

Map == INSTANCE OrderedMap WITH
         items <- Items, open <- (status # "destroyed"), Owned <- OwnedBy,
         Metas <- [type : Strings \cup {NULL}, version : Versions \cup {0}],
         NoMeta <- [type |-> NULL, version |-> 0]

\* The pointer structure implements the ordered map.
ImplementsMap == Map!MapSpec

\* While the allocator answers, each call has the effect its name promises on
\* the map: a setter stores its own value under its own key, a removal takes
\* out its key and no other, a clear empties the map.
CallsImplementTheirNames ==
  [][/\ \A k \in Keys :
          /\ SetScalar(k) => Map!Write(k, [type : {"scalar"}, as : Scalars])
          /\ SetString(k) => Map!Write(k, [type : {"string"}, as : Strings \cup {NULL}])
          /\ AddContainer(k) => Map!Write(k, [type : Containers, as : Blocks])
          /\ RemoveKey(k) => Map!Delete(k)
     /\ Clear => Map!Empty]_vars
=============================================================================
