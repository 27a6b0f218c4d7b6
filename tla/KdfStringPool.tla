---------------------------- MODULE KdfStringPool ----------------------------
(***************************************************************************)
(* The string pool of a document (src/src/kdf_document.c:22-84): a fixed   *)
(* array of chains of kdf_string nodes, each with a separately allocated   *)
(* copy of its text.  KdfObject sees this pool as the set of its contents  *)
(* (its AfterIntern); here is the pointer structure behind that.           *)
(*                                                                         *)
(* Blocks are numbered in allocation order and no number is used twice.    *)
(***************************************************************************)
EXTENDS Integers, FiniteSets, LinkedList

CONSTANTS
  Contents,        \* byte strings, as (pointer, length) pairs name them
  Hash,            \* kdf__fnv1a, as a function on Contents
  NULL,            \* the null pointer
  PoolBuckets,     \* KDF_STRING_POOL_BUCKETS
  AllocFails,      \* may the user's allocator return NULL?
  MaxBlocks        \* bound: blocks allocated over a behaviour

ASSUME PoolAssumption ==
  /\ Hash \in [Contents -> Nat]
  /\ PoolBuckets \in Nat \ {0}
  /\ MaxBlocks \in Nat
  /\ AllocFails \in BOOLEAN
  /\ NULL \notin Int /\ NULL \notin Contents

VARIABLES
  open,            \* FALSE once the pool was destroyed
  nodes,           \* the kdf_string blocks that are linked
  str, data, next, \* fields of a linked node: its text, the block with it
  buckets,
  blocks,          \* every block that is allocated
  answer,          \* what the last call asked for, and the node it returned
  allocs           \* blocks allocated so far

vars == <<open, nodes, str, data, next, buckets, blocks, answer, allocs>>

Blocks   == 1 .. MaxBlocks
EmptyFcn == [x \in {} |-> NULL]
Slots    == 0 .. PoolBuckets - 1

-----------------------------------------------------------------------------
Slot(s) == Hash[s] % PoolBuckets

\* The loop of kdf__intern_len: hash, length and bytes must all agree.
\* Mutated form: the bytes are not compared.
MatchingHash(s) == {n \in nodes : Hash[str[n]] = Hash[s]}
Matching(s) == {n \in nodes : str[n] = s}
Find(s) == Visited(nodes, buckets[Slot(s)], next, Matching(s)) \cap Matching(s)

\* Every node that kdf__string_pool_destroy comes across.
Reachable == UNION {Visited(nodes, buckets[b], next, {}) : b \in Slots}

Init ==
  /\ open = TRUE
  /\ nodes = {} /\ str = EmptyFcn /\ data = EmptyFcn /\ next = EmptyFcn
  /\ buckets = [b \in Slots |-> NULL]
  /\ blocks = {}
  /\ answer = [asked |-> NULL, node |-> NULL]
  /\ allocs = 0

\* The content is pooled already.
InternAgain(s) ==
  /\ open
  /\ \E n \in Find(s) : answer' = [asked |-> s, node |-> n]
  /\ UNCHANGED <<open, nodes, str, data, next, buckets, blocks, allocs>>

\* The node cannot be allocated, or it can and its text cannot: then the node
\* is freed again.
\* Mutated form: the node is not freed.
InternKeepsNode(s) ==
  /\ open /\ Find(s) = {} /\ AllocFails
  /\ \E n \in 0 .. 1 : /\ allocs + n <= MaxBlocks
                       /\ allocs' = allocs + n
                       /\ blocks' = blocks \cup (allocs + 1 .. allocs + n)
  /\ answer' = [asked |-> s, node |-> NULL]
  /\ UNCHANGED <<open, nodes, str, data, next, buckets>>
\* Mutated form: the head of the chain is taken for the new node and unlinked.
InternPopsHead(s) ==
  LET b    == Slot(s)
      rest == nodes \ {buckets[b]}
  IN
  /\ open /\ Find(s) = {} /\ AllocFails
  /\ buckets[b] # NULL /\ buckets' = [buckets EXCEPT ![b] = next[buckets[b]]]
  /\ nodes' = rest
  /\ str' = [m \in rest |-> str[m]]
  /\ data' = [m \in rest |-> data[m]]
  /\ next' = [m \in rest |-> next[m]]
  /\ blocks' = blocks \ {buckets[b], data[buckets[b]]}
  /\ answer' = [asked |-> s, node |-> NULL]
  /\ UNCHANGED <<open, allocs>>
InternNoMemory(s) ==
  /\ open /\ Find(s) = {} /\ AllocFails
  /\ \E n \in 0 .. 1 : allocs + n <= MaxBlocks /\ allocs' = allocs + n
  /\ answer' = [asked |-> s, node |-> NULL]
  /\ UNCHANGED <<open, nodes, str, data, next, buckets, blocks>>

\* A new node goes to the head of its chain.
\* Mutated form: the rest of the chain is dropped.
LinkAlone(b) == NULL
LinkTo(b) == buckets[b]
InternNew(s) ==
  LET n   == allocs + 1
      all == nodes \cup {n}
  IN
  /\ open /\ Find(s) = {}
  /\ allocs + 2 <= MaxBlocks
  /\ allocs' = allocs + 2
  /\ blocks' = blocks \cup {n, n + 1}
  /\ nodes' = all
  /\ str' = [m \in all |-> IF m = n THEN s ELSE str[m]]
  /\ data' = [m \in all |-> IF m = n THEN n + 1 ELSE data[m]]
  /\ next' = [m \in all |-> IF m = n THEN LinkTo(Slot(s)) ELSE next[m]]
  /\ buckets' = [buckets EXCEPT ![Slot(s)] = n]
  /\ answer' = [asked |-> s, node |-> n]
  /\ open' = open

\* kdf__string_pool_destroy, when the document goes.
Destroy ==
  LET rest == nodes \ Reachable IN
  /\ open /\ open' = FALSE
  /\ nodes' = rest
  /\ str' = [m \in rest |-> str[m]]
  /\ data' = [m \in rest |-> data[m]]
  /\ next' = [m \in rest |-> next[m]]
  /\ blocks' = blocks \ (Reachable \cup {data[m] : m \in Reachable})
  /\ buckets' = [b \in Slots |-> NULL]
  /\ UNCHANGED <<answer, allocs>>

Next == \/ \E s \in Contents : InternAgain(s) \/ InternNoMemory(s) \/ InternNew(s)
        \/ Destroy

Spec == Init /\ [][Next]_vars

-----------------------------------------------------------------------------
Links(S) == S \cup {NULL}

\* Types of the variables; links and buckets never lead to a freed node.
TypeOK ==
  /\ open \in BOOLEAN
  /\ nodes \subseteq blocks /\ blocks \subseteq Blocks
  /\ str \in [nodes -> Contents]
  /\ data \in [nodes -> Blocks]
  /\ next \in [nodes -> Links(nodes)]
  /\ buckets \in [Slots -> Links(nodes)]
  /\ answer \in [asked : Links(Contents), node : Links(Blocks)]
  /\ allocs \in 0 .. MaxBlocks

\* Two nodes never hold the same text, so that comparing two pointers compares
\* the texts, as the binary writer's string table does
\* (kdf_document.c:51-58, kdf_binary_writer.c:104-108).
OneNodePerContent == \A m, n \in nodes : str[m] = str[n] => m = n

\* The pool holds its nodes and their texts and no other block: an interning
\* that runs out of memory half-way keeps nothing, and a destroyed pool holds
\* nothing (kdf_document.c:30-44, 66-70).
NoBlockLost ==
  /\ blocks = nodes \cup {data[n] : n \in nodes}
  /\ ~open => nodes = {}

\* A pointer that interning returned leads to the same text for as long as the
\* pool lives: keys and values of every object keep such pointers, and nothing
\* counts them (kdf_internal.h:79 "returns a stable pointer").
PointersStable ==
  [][open' => \A n \in nodes : n \in nodes' /\ str'[n] = str[n] /\ data'[n] = data[n]]_vars

-----------------------------------------------------------------------------
\* The inductive invariant: each chain threads the nodes of its slot from the
\* newest to the oldest, and texts are blocks of their own.
IndInv ==
  /\ TypeOK
  /\ blocks \subseteq 1 .. allocs
  /\ \A b \in Slots : Descending({n \in nodes : Slot(str[n]) = b}, buckets[b], next, NULL)
  /\ \A n \in nodes : data[n] \notin nodes
  /\ \A m, n \in nodes : data[m] = data[n] => m = n
  /\ OneNodePerContent /\ NoBlockLost

\* The pointer each content was given.
Given == [s \in Contents |-> IF \E n \in nodes : str[n] = s
                             THEN CHOOSE n \in nodes : str[n] = s ELSE NULL]

Table == INSTANCE InternTable WITH table <- Given, Pointers <- Blocks

\* The chains implement the table.
ImplementsTable == Table!TableSpec
=============================================================================
