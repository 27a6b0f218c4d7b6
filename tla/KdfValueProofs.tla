--------------------------- MODULE KdfValueProofs ---------------------------
(***************************************************************************)
(* What the payload of a value is made of: strings in the pool of the      *)
(* document, and the numbers that the coercions of kdf_value.c make of     *)
(* each other.                                                             *)
(*                                                                         *)
(* The string pool is sound for every set of contents, every hash function *)
(* and every number of buckets, and it implements the table it stands for, *)
(* however the allocator behaves.  The coercions agree with each other,    *)
(* for integers of any width and any set of floats that has 0, 1 and -1.   *)
(***************************************************************************)
EXTENDS KdfStrings, CommonProofs

\* The nodes of slot b.
Chain(b) == {n \in nodes : Slot(str[n]) = b}

LEMMA NodesAreFinite ==
  ASSUME TypeOK
  PROVE  IsFiniteSet(nodes) /\ nodes \in SUBSET Int /\ NULL \notin nodes
<1>1. nodes \in SUBSET (1 .. MaxBlocks)
  BY DEF TypeOK, Blocks
<1>2. IsFiniteSet(1 .. MaxBlocks)
  BY PoolAssumption, FS_Interval
<1>3. nodes \in SUBSET Int
  BY <1>1, PoolAssumption
<1> QED BY <1>1, <1>2, <1>3, FS_Subset, PoolAssumption

LEMMA SlotInRange ==
  ASSUME NEW s \in Contents
  PROVE  Slot(s) \in Slots
<1>1. Hash[s] \in Nat /\ PoolBuckets \in Nat \ {0}
  BY PoolAssumption
<1> QED BY <1>1 DEF Slot, Slots

\* The lookup finds the node that holds the text, if any does.
LEMMA FindIsMatching ==
  ASSUME IndInv, NEW s \in Contents
  PROVE  Find(s) = Matching(s)
<1>1. SUFFICES ASSUME NEW m \in Matching(s)
               PROVE  m \in Visited(nodes, buckets[Slot(s)], next, Matching(s))
  BY DEF Find
<1> DEFINE D == {n \in nodes : Slot(str[n]) = Slot(s)}
<1>2. m \in D /\ D \in SUBSET nodes
  BY DEF Matching
<1>3. Descending(D, buckets[Slot(s)], next, NULL)
  BY SlotInRange DEF IndInv
<1>4. Matching(s) \subseteq {m}
  BY DEF IndInv, OneNodePerContent, Matching
<1>5. IsFiniteSet(nodes) /\ nodes \in SUBSET Int /\ NULL \notin nodes
  BY NodesAreFinite DEF IndInv
<1> HIDE DEF D
<1> QED BY <1>2, <1>3, <1>4, <1>5, DescendingSearch

\* Destroying the pool comes across every node.
LEMMA AllReachable ==
  ASSUME IndInv
  PROVE  Reachable = nodes
<1>1. ASSUME NEW b \in Slots  PROVE Visited(nodes, buckets[b], next, {}) = Chain(b)
  <2>1. Descending(Chain(b), buckets[b], next, NULL) /\ Chain(b) \in SUBSET nodes
    BY DEF IndInv, Chain
  <2> QED BY <2>1, NodesAreFinite, DescendingWalk DEF IndInv
<1>2. \A n \in nodes : Slot(str[n]) \in Slots
  BY SlotInRange DEF IndInv, TypeOK
<1> QED BY <1>1, <1>2 DEF Reachable, Chain

-----------------------------------------------------------------------------
LEMMA InitIsSound == Init => IndInv
<1> SUFFICES ASSUME Init  PROVE IndInv
  OBVIOUS
<1>1. nodes = {} /\ blocks = {} /\ allocs = 0 /\ buckets = [b \in Slots |-> NULL]
  BY DEF Init
<1>2. TypeOK
  BY PoolAssumption DEF Init, TypeOK, EmptyFcn, Links
<1>3. \A b \in Slots : Descending({n \in nodes : Slot(str[n]) = b}, buckets[b], next, NULL)
  BY <1>1 DEF Descending
<1> QED BY <1>1, <1>2, <1>3 DEF IndInv, OneNodePerContent, NoBlockLost

\* A call that leaves the chains alone.
LEMMA QuietKeeps ==
  ASSUME IndInv, UNCHANGED <<open, nodes, str, data, next, buckets, blocks>>,
         allocs' \in allocs .. MaxBlocks,
         answer' \in [asked : Links(Contents), node : Links(Blocks)]
  PROVE  IndInv'
<1>1. allocs \in 0 .. MaxBlocks /\ MaxBlocks \in Nat
  BY PoolAssumption DEF IndInv, TypeOK
<1>2. TypeOK'
  BY <1>1 DEF IndInv, TypeOK, Links
<1>3. blocks' \subseteq 1 .. allocs'
  BY <1>1 DEF IndInv
<1>4. \A b \in Slots : Descending({n \in nodes' : Slot(str'[n]) = b}, buckets'[b], next', NULL)
  BY DEF IndInv
<1> QED BY <1>2, <1>3, <1>4 DEF IndInv, OneNodePerContent, NoBlockLost

LEMMA InternNewKeeps ==
  ASSUME IndInv, NEW s \in Contents, InternNew(s)
  PROVE  IndInv'
<1> DEFINE n   == allocs + 1
           all == nodes \cup {n}
           b   == Slot(s)
<1>1. /\ allocs + 2 <= MaxBlocks
      /\ allocs' = allocs + 2
      /\ blocks' = blocks \cup {n, n + 1}
      /\ nodes' = all
      /\ str' = [m \in all |-> IF m = n THEN s ELSE str[m]]
      /\ data' = [m \in all |-> IF m = n THEN n + 1 ELSE data[m]]
      /\ next' = [m \in all |-> IF m = n THEN buckets[b] ELSE next[m]]
      /\ buckets' = [buckets EXCEPT ![b] = n]
      /\ answer' = [asked |-> s, node |-> n]
      /\ open /\ open' = open
  BY DEF InternNew, LinkTo
<1>2. /\ allocs \in Nat /\ MaxBlocks \in Nat /\ n \in Blocks /\ n + 1 \in Blocks
      /\ n \in Int /\ n + 1 # n
  BY <1>1, PoolAssumption DEF IndInv, TypeOK, Blocks
<1>3. /\ n \notin blocks /\ n + 1 \notin blocks
      /\ \A m \in nodes : m \in Int /\ m < n
  BY <1>2 DEF IndInv, TypeOK
<1>4. n \notin nodes /\ \A m \in nodes : data[m] \in blocks /\ data[m] # n /\ data[m] # n + 1
  BY <1>3 DEF IndInv, TypeOK, NoBlockLost
<1>5. b \in Slots
  BY SlotInRange
<1> HIDE DEF n
<1>6. TypeOK'
  <2>1. nodes' \subseteq blocks' /\ blocks' \subseteq Blocks /\ open' \in BOOLEAN
    BY <1>1, <1>2 DEF IndInv, TypeOK
  <2>2. str' \in [nodes' -> Contents] /\ data' \in [nodes' -> Blocks]
    BY <1>1, <1>2, <1>4 DEF IndInv, TypeOK
  <2>3. next' \in [nodes' -> Links(nodes')] /\ buckets' \in [Slots -> Links(nodes')]
    BY <1>1, <1>4, <1>5 DEF IndInv, TypeOK, Links
  <2>4. answer' \in [asked : Links(Contents), node : Links(Blocks)]
    BY <1>1, <1>2 DEF Links
  <2>5. allocs' \in 0 .. MaxBlocks
    BY <1>1, <1>2
  <2> QED BY <2>1, <2>2, <2>3, <2>4, <2>5 DEF TypeOK
<1>7. blocks' \subseteq 1 .. allocs'
  <2>1. n = allocs + 1 /\ blocks \subseteq 1 .. allocs
    BY DEF n, IndInv
  <2> QED BY <1>1, <1>2, <2>1
<1>8. ASSUME NEW c \in Slots
      PROVE  Descending({m \in nodes' : Slot(str'[m]) = c}, buckets'[c], next', NULL)
  <2> DEFINE D == {m \in nodes : Slot(str[m]) = c}
  <2>1. Descending(D, buckets[c], next, NULL)
    BY DEF IndInv
  <2>2. \A m \in D : m \in nodes /\ m # n /\ next'[m] = next[m]
    BY <1>1, <1>4
  <2>3. D \in SUBSET Int /\ NULL \notin Int
    BY <1>3, PoolAssumption
  <2>4. {m \in nodes' : Slot(str'[m]) = c} = IF c = b THEN D \cup {n} ELSE D
    BY <1>1, <1>4
  <2>5. CASE c = b
    <3>1. next'[n] = buckets[c] /\ buckets'[c] = n
      BY <1>1, <1>5, <2>5 DEF IndInv, TypeOK
    <3>2. \A m \in D : m < n
      BY <1>3
    <3> HIDE DEF D
    <3>3. Descending(D \cup {n}, n, next', NULL)
      BY <1>2, <2>1, <2>2, <2>3, <3>1, <3>2, DescendingPush
    <3> QED BY <2>4, <2>5, <3>1, <3>3
  <2>6. CASE c # b
    <3>1. buckets'[c] = buckets[c]
      BY <1>1, <1>5, <2>6 DEF IndInv, TypeOK
    <3> HIDE DEF D
    <3>2. Descending(D, buckets[c], next', NULL)
      BY <2>1, <2>2, DescendingAgree
    <3> QED BY <2>4, <2>6, <3>1, <3>2
  <2> QED BY <2>5, <2>6
<1>9. OneNodePerContent'
  <2>1. \A m \in nodes : str[m] # s
    BY FindIsMatching DEF InternNew, Matching
  <2> QED BY <1>1, <1>4, <2>1 DEF IndInv, OneNodePerContent
<1>10. /\ \A m \in nodes' : data'[m] \notin nodes'
       /\ \A m, o \in nodes' : data'[m] = data'[o] => m = o
  <2>1. n + 1 \notin nodes /\ \A m \in nodes : data[m] \notin nodes
    BY <1>3 DEF IndInv, TypeOK
  <2>2. /\ data'[n] = n + 1
        /\ \A m \in nodes : data'[m] = data[m]
    BY <1>1, <1>4
  <2>3. \A m, o \in nodes : data[m] = data[o] => m = o
    BY DEF IndInv
  <2> QED BY <1>1, <1>2, <1>4, <2>1, <2>2, <2>3
<1>11. NoBlockLost'
  <2>1. blocks = nodes \cup {data[m] : m \in nodes}
    BY DEF IndInv, NoBlockLost
  <2>2. {data'[m] : m \in nodes'} = {data[m] : m \in nodes} \cup {n + 1}
    BY <1>1, <1>4
  <2> QED BY <1>1, <2>1, <2>2 DEF NoBlockLost
<1> QED BY <1>6, <1>7, <1>8, <1>9, <1>10, <1>11 DEF IndInv

LEMMA DestroyKeeps ==
  ASSUME IndInv, Destroy
  PROVE  IndInv'
<1>1. nodes' = {} /\ open' = FALSE /\ buckets' = [b \in Slots |-> NULL]
  BY AllReachable DEF Destroy
<1>2. blocks' = {}
  BY AllReachable DEF Destroy, IndInv, NoBlockLost
<1>3. TypeOK'
  <2>1. str' \in [nodes' -> Contents] /\ data' \in [nodes' -> Blocks]
        /\ next' \in [nodes' -> Links(nodes')]
    BY <1>1 DEF Destroy
  <2> QED BY <1>1, <1>2, <2>1 DEF Destroy, IndInv, TypeOK, Links
<1>4. \A b \in Slots : Descending({n \in nodes' : Slot(str'[n]) = b}, buckets'[b], next', NULL)
  BY <1>1 DEF Descending
<1> QED BY <1>1, <1>2, <1>3, <1>4 DEF IndInv, OneNodePerContent, NoBlockLost

LEMMA NextKeepsSound ==
  ASSUME IndInv, [Next]_vars
  PROVE  IndInv'
<1>1. ASSUME NEW s \in Contents, InternAgain(s)  PROVE IndInv'
  <2>1. \E n \in nodes : answer' = [asked |-> s, node |-> n]
    BY <1>1 DEF InternAgain, Find, Matching
  <2>2. answer' \in [asked : Links(Contents), node : Links(Blocks)]
    BY <2>1 DEF IndInv, TypeOK, Links
  <2>3. allocs' \in allocs .. MaxBlocks
    BY <1>1, PoolAssumption DEF InternAgain, IndInv, TypeOK
  <2> QED BY <1>1, <2>2, <2>3, QuietKeeps DEF InternAgain
<1>2. ASSUME NEW s \in Contents, InternNoMemory(s)  PROVE IndInv'
  <2>1. answer' \in [asked : Links(Contents), node : Links(Blocks)]
    BY <1>2 DEF InternNoMemory, Links
  <2>2. allocs' \in allocs .. MaxBlocks
    BY <1>2, PoolAssumption DEF InternNoMemory, IndInv, TypeOK
  <2> QED BY <1>2, <2>1, <2>2, QuietKeeps DEF InternNoMemory
<1>3. ASSUME UNCHANGED vars  PROVE IndInv'
  BY <1>3, PoolAssumption, QuietKeeps DEF vars, IndInv, TypeOK
<1> QED BY <1>1, <1>2, <1>3, InternNewKeeps, DestroyKeeps DEF Next

\* The inductive invariant holds in every reachable state of every pool.
THEOREM PoolIsSound == Spec => []IndInv
<1>1. Init => IndInv
  BY InitIsSound
<1>2. IndInv /\ [Next]_vars => IndInv'
  BY NextKeepsSound
<1> QED BY <1>1, <1>2, PTL DEF Spec

\* Interning never makes a second node for a text (kdf_document.c:51-58).
THEOREM NodesAreUnique == Spec => []OneNodePerContent
<1>1. IndInv => OneNodePerContent
  BY DEF IndInv
<1> QED BY <1>1, PoolIsSound, PTL

\* The pool neither leaks nor loses a block (kdf_document.c:30-44, 66-70).
THEOREM BlocksAccountedFor == Spec => []NoBlockLost
<1>1. IndInv => NoBlockLost
  BY DEF IndInv
<1> QED BY <1>1, PoolIsSound, PTL

\* What interning returned stays valid until the pool goes (kdf_internal.h:79).
THEOREM PointersStayStable == Spec => PointersStable
<1> DEFINE Stable == open' => \A n \in nodes : n \in nodes' /\ str'[n] = str[n]
                                               /\ data'[n] = data[n]
<1>1. ASSUME IndInv, Next  PROVE Stable
  <2>1. ASSUME NEW s \in Contents, InternAgain(s) \/ InternNoMemory(s)  PROVE Stable
    BY <2>1 DEF InternAgain, InternNoMemory
  <2>2. ASSUME NEW s \in Contents, InternNew(s)  PROVE Stable
    <3>1. allocs + 1 \notin nodes
      BY <1>1, PoolAssumption DEF IndInv, TypeOK
    <3> QED BY <2>2, <3>1 DEF InternNew
  <2>3. ASSUME Destroy  PROVE Stable
    BY <2>3 DEF Destroy
  <2> HIDE DEF Stable
  <2> QED BY <1>1, <2>1, <2>2, <2>3 DEF Next
<1>2. IndInv /\ [Next]_vars => [Stable]_vars
  BY <1>1
<1> QED BY <1>2, PoolIsSound, PTL DEF Spec, PointersStable

-----------------------------------------------------------------------------
\* The pointer a content was given is the node that holds it.
LEMMA GivenIsNode ==
  ASSUME IndInv, NEW s \in Contents
  PROVE  /\ Given[s] = NULL <=> Find(s) = {}
         /\ \A n \in Find(s) : Given[s] = n
         /\ \A n \in nodes : str[n] = s => Given[s] = n
         /\ Given[s] # NULL => Given[s] \in nodes /\ str[Given[s]] = s
<1>1. Find(s) = {n \in nodes : str[n] = s}
  BY FindIsMatching DEF Matching
<1>2. NULL \notin nodes
  BY NodesAreFinite DEF IndInv
<1>3. \A m, n \in nodes : str[m] = s /\ str[n] = s => m = n
  BY DEF IndInv, OneNodePerContent
<1> QED BY <1>1, <1>2, <1>3 DEF Given

\* A call that leaves the nodes alone gives no content another pointer.
LEMMA GivenUnchanged ==
  ASSUME UNCHANGED <<nodes, str>>
  PROVE  Given' = Given
BY DEF Given

\* The pool implements the table: a content is answered with one pointer for
\* as long as the pool lives (kdf_document.c:46-79).
THEOREM PoolImplementsTable == Spec => ImplementsTable
<1>1. Init => Table!Initial
  BY DEF Init, Table!Initial, Table!Nothing, Given
<1>2. ASSUME IndInv, IndInv', [Next]_vars  PROVE [Table!TableNext]_(Table!tableVars)
  <2>1. ASSUME NEW s \in Contents, InternAgain(s)  PROVE Table!Repeat(s)
    <3>1. Given' = Given
      BY <2>1, GivenUnchanged DEF InternAgain
    <3> QED BY <1>2, <2>1, <3>1, GivenIsNode DEF InternAgain, Table!Repeat
  <2>2. ASSUME NEW s \in Contents, InternNoMemory(s)  PROVE Table!Refuse(s)
    <3>1. Given' = Given
      BY <2>2, GivenUnchanged DEF InternNoMemory
    <3> QED BY <1>2, <2>2, <3>1, GivenIsNode DEF InternNoMemory, Table!Refuse
  <2>3. ASSUME NEW s \in Contents, InternNew(s)  PROVE Table!Give(s)
    <3> DEFINE n == allocs + 1
    <3>1. /\ open /\ open' = open
          /\ answer' = [asked |-> s, node |-> n]
          /\ nodes' = nodes \cup {n}
          /\ str' = [m \in nodes \cup {n} |-> IF m = n THEN s ELSE str[m]]
          /\ Find(s) = {}
      BY <2>3 DEF InternNew
    <3>2. n \in Blocks /\ n \notin nodes
      BY <1>2, <2>3, PoolAssumption DEF InternNew, IndInv, TypeOK, Blocks
    <3> HIDE DEF n
    <3>3. Given[s] = NULL
      BY <1>2, <3>1, GivenIsNode
    <3>4. \A r \in Contents : Given[r] # n
      BY <1>2, <3>2, GivenIsNode, PoolAssumption DEF Blocks
    <3>5. Given' = [Given EXCEPT ![s] = n]
      <4>1. \A r \in Contents \ {s} : Given'[r] = Given[r]
        BY <3>1, <3>2 DEF Given
      <4>2. \A m \in nodes' : str'[m] = s <=> m = n
        <5>1. \A m \in nodes : str[m] # s
          BY <1>2, <3>1, FindIsMatching DEF Matching
        <5> QED BY <3>1, <3>2, <5>1
      <4>3. Given'[s] = n
        BY <3>1, <4>2 DEF Given
      <4>4. /\ Given = [r \in Contents |-> Given[r]]
            /\ Given' = [r \in Contents |-> Given'[r]]
        BY DEF Given
      <4> QED BY <4>1, <4>3, <4>4
    <3> QED BY <3>1, <3>2, <3>3, <3>4, <3>5 DEF Table!Give
  <2>4. ASSUME Destroy  PROVE Table!Close
    <3>1. nodes' = {} /\ open /\ open' = FALSE /\ answer' = answer
      BY <1>2, <2>4, AllReachable DEF Destroy
    <3>2. Given' = [s \in Contents |-> NULL]
      BY <3>1 DEF Given
    <3> QED BY <3>1, <3>2 DEF Table!Close, Table!Nothing
  <2>5. ASSUME UNCHANGED vars  PROVE UNCHANGED Table!tableVars
    BY <2>5, GivenUnchanged DEF vars, Table!tableVars
  <2> QED BY <1>2, <2>1, <2>2, <2>3, <2>4, <2>5 DEF Next, Table!TableNext
<1>3. IndInv /\ IndInv' /\ [Next]_vars => [Table!TableNext]_(Table!tableVars)
  BY <1>2
<1> QED BY <1>1, <1>3, PoolIsSound, PTL DEF Spec, ImplementsTable, Table!TableSpec

-----------------------------------------------------------------------------
(* The machine's integers. *)

\* What a remainder is, next to its divisor.
LEMMA Remainders ==
  ASSUME NEW m \in Nat \ {0}, NEW x \in Int
  PROVE  /\ 0 <= x /\ x < m => x % m = x
         /\ -m <= x /\ x < 0 => x % m = x + m
OBVIOUS

\* Both types count in steps of one, which is 2 halves.
LEMMA MachineIntegers ==
  /\ Modulus \in Nat /\ Modulus >= 4
  /\ \A x : x \in Ints <=> x \in Int /\ x % 2 = 0 /\ -Modulus <= x /\ x < Modulus
  /\ \A x : x \in Uints <=> x \in Int /\ x % 2 = 0 /\ 0 <= x /\ x < 2 * Modulus
<1> DEFINE H == Modulus \div 2
<1>1. /\ Modulus \in Nat /\ Modulus >= 4 /\ H \in Int /\ Modulus = 2 * H
  BY GettersAssumption
<1> HIDE DEF H
<1>2. /\ Ints = {2 * i : i \in -H .. H - 1}
      /\ Uints = {2 * i : i \in 0 .. Modulus - 1}
  BY DEF Ints, Uints, H
<1>3. ASSUME NEW x
      PROVE  x \in Ints <=> x \in Int /\ x % 2 = 0 /\ -Modulus <= x /\ x < Modulus
  <2>1. ASSUME NEW i \in -H .. H - 1, x = 2 * i
        PROVE  x \in Int /\ x % 2 = 0 /\ -Modulus <= x /\ x < Modulus
    BY <1>1, <2>1
  <2>2. ASSUME x \in Int, x % 2 = 0, -Modulus <= x, x < Modulus
        PROVE  x \div 2 \in -H .. H - 1 /\ x = 2 * (x \div 2)
    BY <1>1, <2>2
  <2> QED BY <1>2, <2>1, <2>2
<1>4. ASSUME NEW x
      PROVE  x \in Uints <=> x \in Int /\ x % 2 = 0 /\ 0 <= x /\ x < 2 * Modulus
  <2>1. ASSUME NEW i \in 0 .. Modulus - 1, x = 2 * i
        PROVE  x \in Int /\ x % 2 = 0 /\ 0 <= x /\ x < 2 * Modulus
    BY <1>1, <2>1
  <2>2. ASSUME x \in Int, x % 2 = 0, 0 <= x, x < 2 * Modulus
        PROVE  x \div 2 \in 0 .. Modulus - 1 /\ x = 2 * (x \div 2)
    BY <1>1, <2>2
  <2> QED BY <1>2, <2>1, <2>2
<1> QED BY <1>1, <1>3, <1>4

\* The conversion to the other integer type and back gives the integer that
\* was converted (kdf_value.c:43, 62).
LEMMA WordsComeBack ==
  /\ \A x \in Ints : Wrapped(x) \in Uints /\ Signed(Wrapped(x)) = x
  /\ \A x \in Uints : Signed(x) \in Ints /\ Wrapped(Signed(x)) = x
<1> DEFINE m == 2 * Modulus
<1>1. m \in Nat \ {0} /\ m % 2 = 0 /\ Modulus \in Nat
  BY MachineIntegers
<1>2. \A x \in Int : Wrapped(x) = x % m
  BY DEF Wrapped
<1>3. \A x \in Int : Signed(x) = IF (x % m) >= Modulus THEN (x % m) - m ELSE x % m
  BY DEF Signed, Wrapped
<1>4. ASSUME NEW x \in Ints  PROVE Wrapped(x) \in Uints /\ Signed(Wrapped(x)) = x
  <2>1. x \in Int /\ x % 2 = 0 /\ -Modulus <= x /\ x < Modulus
    BY <1>4, MachineIntegers
  <2>2. CASE 0 <= x
    <3>1. x % m = x
      BY <1>1, <2>1, <2>2, Remainders
    <3> QED BY <1>1, <1>2, <1>3, <2>1, <2>2, <3>1, MachineIntegers
  <2>3. CASE x < 0
    <3>1. x % m = x + m /\ x + m \in Int /\ (x + m) % 2 = 0
          /\ Modulus <= x + m /\ x + m < m
      <4>1. x % m = x + m
        <5>1. -m <= x
          BY <1>1, <2>1
        <5> QED BY <1>1, <2>1, <2>3, <5>1, Remainders
      <4> QED BY <1>1, <2>1, <2>3, <4>1
    <3>2. (x + m) % m = x + m
      BY <1>1, <3>1, Remainders
    <3>3. Wrapped(x) = x + m /\ Wrapped(x) \in Uints
      <4>1. Wrapped(x) = x + m
        BY <1>2, <2>1, <3>1
      <4>2. 0 <= x + m
        BY <1>1, <3>1
      <4> QED BY <3>1, <4>1, <4>2, MachineIntegers
    <3>4. Signed(x + m) = x
      BY <1>1, <1>3, <2>1, <3>1, <3>2
    <3> QED BY <3>3, <3>4
  <2> QED BY <2>1, <2>2, <2>3
<1>5. ASSUME NEW x \in Uints  PROVE Signed(x) \in Ints /\ Wrapped(Signed(x)) = x
  <2>1. x \in Int /\ x % 2 = 0 /\ 0 <= x /\ x < m
    BY <1>5, MachineIntegers
  <2>2. x % m = x
    BY <1>1, <2>1, Remainders
  <2>3. CASE x < Modulus
    BY <1>1, <1>2, <1>3, <2>1, <2>2, <2>3, MachineIntegers
  <2>4. CASE Modulus <= x
    <3>1. /\ x - m \in Int /\ (x - m) % 2 = 0 /\ -Modulus <= x - m /\ x - m < 0
          /\ -m <= x - m /\ x - m + m = x
      BY <1>1, <2>1, <2>4
    <3>2. (x - m) % m = x
      BY <1>1, <3>1, Remainders
    <3>3. Signed(x) = x - m /\ Signed(x) \in Ints
      <4>1. Signed(x) = x - m
        BY <1>1, <1>3, <2>1, <2>2, <2>4
      <4>2. x - m < Modulus
        BY <1>1, <3>1
      <4> QED BY <3>1, <4>1, <4>2, MachineIntegers
    <3>4. Wrapped(x - m) = x
      BY <1>2, <3>1, <3>2
    <3> QED BY <3>3, <3>4
  <2> QED BY <1>1, <2>1, <2>3, <2>4
<1> QED BY <1>4, <1>5

-----------------------------------------------------------------------------
(* The properties. *)

\* No integer but zero is rounded to zero: 1.0 or -1.0 is nearer to it.
LEMMA NearestIsNoZero ==
  ASSUME NEW x \in Ints \cup Uints, NEW f \in Nearest(x)
  PROVE  f = 0 <=> x = 0
<1>1. x \in Int /\ x % 2 = 0
  BY MachineIntegers
<1>2. f \in Int /\ f \in Floats /\ \A g \in {0, 2, -2} : Gap(f, x) <= Gap(g, x)
  BY GettersAssumption DEF Nearest
<1>3. CASE x = 0
  BY <1>1, <1>2, <1>3 DEF Gap
<1>4. CASE x # 0
  <2>1. x >= 2 \/ x <= -2
    BY <1>1, <1>4
  <2>2. f # 0
    BY <1>1, <1>2, <2>1 DEF Gap
  <2> QED BY <1>4, <2>2
<1> QED BY <1>3, <1>4

\* The property is of one of the types the setters have.
PropOK == prop \in Values \cup {Missing}

LEMMA SettersFit == GettersSpec => []PropOK
<1>1. GettersInit => PropOK
  BY DEF GettersInit, PropOK
<1>2. PropOK /\ [GettersNext]_prop => PropOK'
  BY DEF GettersNext, Set, Unset, PropOK
<1> QED BY <1>1, <1>2, PTL DEF GettersSpec

\* What a property is.
LEMMA PropertyTypes ==
  ASSUME PropOK, prop # Missing
  PROVE  \/ (prop.type = "bool" /\ prop.as \in BOOLEAN) \/ (prop.type = "int" /\ prop.as \in Ints)
         \/ (prop.type = "uint" /\ prop.as \in Uints) \/ (prop.type = "float" /\ prop.as \in Int)
         \/ prop.type \notin {"bool", "int", "uint", "float"}
BY GettersAssumption DEF PropOK, Values

\* A property is true exactly if its number is not zero (kdf_value.c:15-32,
\* 72-89).
THEOREM TruthStaysNonZero == GettersSpec => []TruthIsNonZero
<1>1. ASSUME PropOK  PROVE TruthIsNonZero
  <2> SUFFICES ASSUME prop # Missing, NEW b \in AsBool(prop), NEW f \in AsFloat(prop)
               PROVE  b <=> f # 0
    BY DEF TruthIsNonZero
  <2>1. \/ (prop.type = "bool" /\ prop.as \in BOOLEAN) \/ (prop.type = "int" /\ prop.as \in Ints)
        \/ (prop.type = "uint" /\ prop.as \in Uints) \/ prop.type = "float"
        \/ prop.type = "string" \/ prop.type \in Opaque
    BY <1>1 DEF PropOK, Values
  <2>2. CASE prop.type = "bool"
    BY <2>1, <2>2, GettersAssumption DEF AsBool, AsFloat, FromBool
  <2>3. CASE prop.type \in {"int", "uint"}
    <3>1. prop.as \in Ints \cup Uints /\ f \in Nearest(prop.as) /\ b = (prop.as # 0)
      BY <2>1, <2>3, GettersAssumption DEF AsBool, AsFloat
    <3> QED BY <3>1, NearestIsNoZero
  <2>4. CASE prop.type = "float"
    BY <2>4 DEF AsBool, AsFloat
  <2>5. CASE prop.type \notin {"bool", "int", "uint", "float"}
    BY <2>5 DEF AsBool, AsFloat
  <2> QED BY <2>2, <2>3, <2>4, <2>5
<1> QED BY <1>1, SettersFit, PTL

\* The two integer coercions make the same machine word of a value, whatever
\* its type, unless a float is beyond one of their ranges (kdf_value.c:34-70).
THEOREM IntegersStayEqual == GettersSpec => []IntegersAgree
<1>1. ASSUME PropOK  PROVE IntegersAgree
  <2> SUFFICES ASSUME prop # Missing, prop.type = "float" => Whole(prop.as) \in Ints \cap Uints,
                      NEW i \in AsInt(prop), NEW u \in AsUint(prop)
               PROVE  Wrapped(i) = u
    BY DEF IntegersAgree
  <2>1. \A x \in Uints : Wrapped(x) = x
    <3> SUFFICES ASSUME NEW x \in Uints  PROVE x % (2 * Modulus) = x
      BY DEF Wrapped
    <3>1. x \in Int /\ 0 <= x /\ x < 2 * Modulus /\ 2 * Modulus \in Nat \ {0}
      BY MachineIntegers
    <3> QED BY <3>1, Remainders
  <2>2. 0 \in Uints /\ 2 \in Uints
    BY MachineIntegers
  <2>3. CASE prop.type = "bool"
    BY <2>1, <2>2, <2>3 DEF AsInt, AsUint, FromBool
  <2>4. CASE prop.type = "int"
    BY <2>4 DEF AsInt, AsUint
  <2>5. CASE prop.type = "uint"
    BY <1>1, <2>5, PropertyTypes, WordsComeBack DEF AsInt, AsUint
  <2>6. CASE prop.type = "float"
    BY <2>1, <2>6 DEF AsInt, AsUint, TruncatedTo
  <2>7. CASE prop.type \notin {"bool", "int", "uint", "float"}
    BY <2>1, <2>2, <2>7 DEF AsInt, AsUint
  <2> QED BY <2>3, <2>4, <2>5, <2>6, <2>7
<1> QED BY <1>1, SettersFit, PTL

-----------------------------------------------------------------------------
(* Properties and the pool together. *)

LEMMA StringsStep == [StringsNext]_stringsVars => [Next]_vars
<1>1. ASSUME NEW s \in Contents, SetString(s) \/ InternOther(s)  PROVE Next
  BY <1>1 DEF SetString, InternOther, Intern, Next
<1>2. ASSUME NEW v \in Values, SetOther(v)  PROVE UNCHANGED vars
  BY <1>2 DEF SetOther
<1>3. ASSUME RemoveProperty \/ GetString  PROVE UNCHANGED vars
  BY <1>3 DEF RemoveProperty, GetString
<1>4. ASSUME DestroyDocument  PROVE Next
  BY <1>4 DEF DestroyDocument, Next
<1>5. ASSUME UNCHANGED stringsVars  PROVE UNCHANGED vars
  BY <1>5 DEF stringsVars
<1> QED BY <1>1, <1>2, <1>3, <1>4, <1>5 DEF StringsNext

\* Every call on the object is a step of the pool or none at all, so that all
\* that was proved of the pool holds while strings are set and read.
THEOREM StringsUseThePool == StringsSpec => Spec
<1>1. StringsInit => Init
  BY DEF StringsInit
<1> QED BY <1>1, StringsStep, PTL DEF StringsSpec, Spec

\* And it is a step of a setter, or none at all, for the property.
THEOREM StringsAreProperties == StringsSpec => GettersSpec
<1>1. StringsInit => GettersInit
  BY DEF StringsInit
<1>2. [StringsNext]_stringsVars => [GettersNext]_prop
  <2>1. ASSUME NEW s \in Contents, SetString(s)  PROVE GettersNext
    <3> DEFINE text == IF answer'.node = NULL THEN Missing ELSE s
    <3>1. [type |-> "string", as |-> text] \in Values
      BY StringsAssumption DEF Values
    <3>2. Set([type |-> "string", as |-> text])
      BY <2>1 DEF SetString
    <3> QED BY <3>1, <3>2 DEF GettersNext
  <2>2. ASSUME NEW s \in Contents, InternOther(s)  PROVE UNCHANGED prop
    BY <2>2 DEF InternOther
  <2>3. ASSUME NEW v \in Values, SetOther(v)  PROVE GettersNext
    BY <2>3 DEF SetOther, GettersNext
  <2>4. ASSUME RemoveProperty \/ DestroyDocument  PROVE GettersNext
    BY <2>4 DEF RemoveProperty, DestroyDocument, GettersNext
  <2>5. ASSUME GetString \/ UNCHANGED stringsVars  PROVE UNCHANGED prop
    BY <2>5 DEF GetString, stringsVars
  <2> QED BY <2>1, <2>2, <2>3, <2>4, <2>5 DEF StringsNext
<1> QED BY <1>1, <1>2, PTL DEF StringsSpec, GettersSpec

\* What interning answers is a node that has the text asked for; and as long as
\* the pool lives, no node goes or changes its text.
LEMMA InternAnswers ==
  ASSUME IndInv, NEW s \in Contents, Intern(s), answer'.node # NULL
  PROVE  answer'.node \in nodes' /\ str'[answer'.node] = s
<1>1. CASE InternAgain(s)
  BY <1>1 DEF InternAgain, Find, Matching
<1>2. CASE InternNoMemory(s)
  BY <1>2 DEF InternNoMemory
<1>3. CASE InternNew(s)
  BY <1>3 DEF InternNew
<1> QED BY <1>1, <1>2, <1>3 DEF Intern

LEMMA NodesStay ==
  ASSUME IndInv, [Next]_vars, open'
  PROVE  open /\ \A n \in nodes : n \in nodes' /\ str'[n] = str[n]
<1>1. ASSUME NEW s \in Contents, InternAgain(s) \/ InternNoMemory(s)
      PROVE  open /\ \A n \in nodes : n \in nodes' /\ str'[n] = str[n]
  BY <1>1 DEF InternAgain, InternNoMemory
<1>2. ASSUME NEW s \in Contents, InternNew(s)
      PROVE  open /\ \A n \in nodes : n \in nodes' /\ str'[n] = str[n]
  <2>1. allocs + 1 \notin nodes
    BY DEF IndInv, TypeOK
  <2> QED BY <1>2, <2>1 DEF InternNew
<1>3. ~ Destroy
  BY DEF Destroy
<1> QED BY <1>1, <1>2, <1>3 DEF Next, vars

\* A string property leads to the text it was set to or to nothing, and a text
\* that a getter gave stays until the document is destroyed, however the
\* property is set and removed in between and whatever fails
\* (kdf_object.c:196-203, 400-407).
THEOREM StringsStayValid == StringsSpec => []StringsStand
<1>1. StringsInit => StringsStand
  BY StringsAssumption DEF StringsInit, GettersInit, StringsStand
<1>2. ASSUME IndInv, StringsStand, PropOK, PropOK', [StringsNext]_stringsVars, [Next]_vars
      PROVE  StringsStand'
  <2> SUFFICES ASSUME open'
               PROVE  /\ prop' # Missing /\ prop'.type = "string" =>
                           IF node' = NULL THEN prop'.as = Missing
                           ELSE node' \in nodes' /\ str'[node'] = prop'.as
                      /\ kept'.of # NULL => kept'.of \in nodes' /\ str'[kept'.of] = kept'.text
    BY DEF StringsStand
  <2>1. /\ open /\ \A n \in nodes : n \in nodes' /\ str'[n] = str[n]
        /\ prop # Missing /\ prop.type = "string" =>
             IF node = NULL THEN prop.as = Missing ELSE node \in nodes /\ str[node] = prop.as
        /\ kept.of # NULL => kept.of \in nodes /\ str[kept.of] = kept.text
    BY <1>2, NodesStay DEF StringsStand
  <2>2. ASSUME NEW s \in Contents, SetString(s)  PROVE StringsStand'
    <3>1. /\ Intern(s) /\ node' = answer'.node /\ kept' = kept
          /\ prop'.as = (IF answer'.node = NULL THEN Missing ELSE s)
      BY <2>2 DEF SetString, Pointer, Set
    <3>2. answer'.node # NULL => answer'.node \in nodes' /\ str'[answer'.node] = s
      BY <1>2, <3>1, InternAnswers
    <3> QED BY <2>1, <3>1, <3>2 DEF StringsStand
  <2>3. ASSUME NEW v \in Values, SetOther(v)  PROVE StringsStand'
    BY <2>1, <2>3 DEF SetOther, Set, StringsStand, vars
  <2>4. ASSUME RemoveProperty  PROVE StringsStand'
    BY <2>1, <2>4 DEF RemoveProperty, Unset, StringsStand, vars
  <2>5. ASSUME GetString  PROVE StringsStand'
    BY <2>1, <2>5 DEF GetString, StringsStand, vars
  <2>6. ASSUME prop' = prop /\ node' = node /\ kept' = kept  PROVE StringsStand'
    BY <2>1, <2>6 DEF StringsStand
  <2>7. ~ DestroyDocument
    BY DEF DestroyDocument, Destroy
  <2>8. ASSUME (\E s \in Contents : InternOther(s)) \/ UNCHANGED stringsVars  PROVE StringsStand'
    BY <2>6, <2>8 DEF InternOther, stringsVars
  <2>9. StringsStand'
    BY <1>2, <2>2, <2>3, <2>4, <2>5, <2>7, <2>8 DEF StringsNext
  <2> QED BY <2>9 DEF StringsStand
<1>3. StringsSpec => [](IndInv /\ PropOK)
  BY StringsUseThePool, StringsAreProperties, PoolIsSound, SettersFit, PTL
<1> QED BY <1>1, <1>2, <1>3, StringsStep, PTL DEF StringsSpec
=============================================================================
