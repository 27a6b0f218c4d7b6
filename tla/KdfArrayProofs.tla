--------------------------- MODULE KdfArrayProofs ---------------------------
(***************************************************************************)
(* kdf_array keeps its buffer, its children and the sequence it stands for *)
(* right for every initial capacity and every behaviour of the allocator.  *)
(***************************************************************************)
EXTENDS KdfArray, SequenceTheorems, TLAPS

\* The variables as numbers, for the arithmetic below.
LEMMA Counts ==
  ASSUME IndInv
  PROVE  /\ count \in Nat /\ size \in Nat /\ allocs \in Nat /\ count <= size
         /\ capacity = size /\ allocs <= MaxBlocks /\ MaxBlocks \in Nat
         /\ InitCap \in Nat /\ InitCap > 0 /\ NULL \notin Int
BY ArrayAssumption DEF IndInv, TypeOK, SizeKnown

\* An area has the old size, or it is larger and its buffer is known or fresh.
LEMMA AreaIsSound ==
  ASSUME IndInv, NEW a \in Areas
  PROVE  /\ a.size \in Nat /\ a.size >= size /\ a.capacity = a.size
         /\ a.buffer \in {buffer, allocs + 1}
         /\ a.size > 0 => a.buffer # NULL
         /\ a.buffer = NULL => a.size = 0
         /\ a.buffer # buffer => count >= capacity
<1>1. CASE a = Area(buffer, size, capacity)
  <2>1. a.buffer = buffer /\ a.size = size /\ a.capacity = capacity
    BY <1>1 DEF Area
  <2> QED BY <2>1, Counts DEF IndInv, SizeKnown
<1>2. CASE Full /\ \E b \in {allocs + 1, buffer} \ {NULL} : a = Area(b, NewCap, NewCap)
  <2>1. PICK b \in {allocs + 1, buffer} \ {NULL} : a = Area(b, NewCap, NewCap)
    BY <1>2
  <2>2. a.buffer = b /\ a.size = NewCap /\ a.capacity = NewCap
    BY <2>1 DEF Area
  <2>3. NewCap \in Nat /\ NewCap > size
    BY Counts DEF NewCap
  <2> QED BY <1>2, <2>1, <2>2, <2>3, Counts DEF Full
<1> QED BY <1>1, <1>2 DEF Areas

-----------------------------------------------------------------------------
\* Writing a value that brings its own child keeps the invariant.
LEMMA StoreKeeps ==
  ASSUME IndInv, NEW v \in Values, NEW b \in Blocks, NEW n \in Nat,
         status' = status, count < n, n >= size,
         buffer' = b, size' = n, capacity' = n, count' = count + 1,
         items' = [i \in 0 .. n - 1 |-> IF i = count THEN v
                                        ELSE IF i < size THEN items[i] ELSE Junk],
         children' = children \cup OwnedBy(v),
         allocs' \in allocs .. MaxBlocks,
         OwnedBy(v) \subseteq (allocs + 1) .. allocs',
         b \in 1 .. allocs'
  PROVE  IndInv'
<1>0. /\ allocs \in Nat /\ allocs' \in Nat /\ allocs <= allocs' /\ allocs' <= MaxBlocks
      /\ MaxBlocks \in Nat
  BY Counts
<1>1. items'[count] = v /\ \A i \in Used : items'[i] = items[i]
  BY Counts DEF Used
<1>2. Used' = Used \cup {count} /\ count \notin Used
  BY Counts DEF Used
<1>3. TypeOK'
  <2>1. items' \in [0 .. size' - 1 -> Values \cup {Junk}]
    BY Counts DEF IndInv, TypeOK
  <2>2. children' \subseteq Blocks
    <3>1. \A c \in OwnedBy(v) : c \in Blocks
      BY <1>0 DEF Blocks
    <3> QED BY <3>1 DEF IndInv, TypeOK
  <2>3. count' \in 0 .. size' /\ allocs' \in 0 .. MaxBlocks
    BY Counts
  <2> QED BY <2>1, <2>2, <2>3, Counts DEF IndInv, TypeOK
<1>4. SizeKnown'
  BY Counts DEF SizeKnown, Blocks
<1>5. NoJunkInUse'
  BY <1>1, <1>2, JunkAssumption DEF IndInv, NoJunkInUse
<1>6. ChildrenOwnedOnce'
  <2>1. \A i \in Used : OwnedBy(items[i]) \subseteq children
    BY DEF IndInv, ChildrenOwnedOnce
  <2>2. children \cap OwnedBy(v) = {}
    BY Counts DEF IndInv
  <2>3. children' = UNION {OwnedBy(items'[i]) : i \in Used'}
    BY <1>1, <1>2 DEF IndInv, ChildrenOwnedOnce
  <2>4. ASSUME NEW i \in Used', NEW j \in Used', i # j
        PROVE  OwnedBy(items'[i]) \cap OwnedBy(items'[j]) = {}
    <3>1. CASE i \in Used /\ j \in Used
      BY <1>1, <2>4, <3>1 DEF IndInv, ChildrenOwnedOnce
    <3>2. CASE i = count /\ j \in Used
      BY <1>1, <2>1, <2>2, <3>2
    <3>3. CASE i \in Used /\ j = count
      BY <1>1, <2>1, <2>2, <3>3
    <3> QED BY <1>2, <2>4, <3>1, <3>2, <3>3
  <2> QED BY <2>3, <2>4 DEF ChildrenOwnedOnce
<1>7. NoStaleOwner'
  <2>1. ASSUME NEW i \in (0 .. n - 1) \ Used'  PROVE items'[i] \in {Junk, NullValue}
    <3>1. CASE i < size
      <4>1. i \in (0 .. size - 1) \ Used /\ items'[i] = items[i]
        BY SMTT(60), <1>2, <2>1, <3>1, Counts DEF Used
      <4> QED BY <4>1 DEF IndInv, NoStaleOwner
    <3>2. CASE ~(i < size)
      BY <1>2, <2>1, <3>2, Counts DEF Used
    <3> QED BY <3>1, <3>2
  <2> QED BY <2>1 DEF NoStaleOwner
<1>8. children' \subseteq 1 .. allocs' /\ buffer' \in 1 .. allocs'
  <2>1. \A c \in OwnedBy(v) : c \in 1 .. allocs'
    BY <1>0
  <2>2. \A c \in children : c \in 1 .. allocs'
    BY <1>0 DEF IndInv
  <2> QED BY <2>1, <2>2
<1> QED BY <1>3, <1>4, <1>5, <1>6, <1>7, <1>8 DEF IndInv

\* The values that pushes store, and the children they bring.
LEMMA PayloadIsTyped ==
  ASSUME NEW arg, NEW type, <<type, arg>> \in Arguments, NEW id \in Blocks,
         NEW p \in Payloads(type, arg, id) \cup {IF type \in Containers THEN id ELSE arg}
  PROVE  LET v == [type |-> type, as |-> p] IN
         /\ v \in Values
         /\ OwnedBy(v) \subseteq {id}
         /\ type \notin Containers => OwnedBy(v) = {}
<1> DEFINE v == [type |-> type, as |-> p]
<1>1. v.type = type /\ v.as = p
  OBVIOUS
<1>2. CASE type = "null" /\ arg = NULL
  <2>1. p = NULL /\ type \notin Containers
    BY <1>2, ArrayAssumption DEF Payloads
  <2> QED BY <1>1, <1>2, <2>1 DEF Values, NullValue, OwnedBy
<1>3. CASE type = "scalar" /\ arg \in Scalars
  <2>1. p = arg /\ type \notin Containers
    BY <1>3, ArrayAssumption DEF Payloads
  <2> QED BY <1>1, <1>3, <2>1 DEF Values, OwnedBy
<1>4. CASE type = "string" /\ arg \in Strings \cup {NULL}
  <2>1. p \in {arg, NULL} /\ type \notin Containers
    BY <1>4, ArrayAssumption DEF Payloads
  <2> QED BY <1>1, <1>4, <2>1 DEF Values, OwnedBy
<1>5. CASE type \in Containers
  <2>1. type \notin {"null", "scalar", "string"}
    BY <1>5, ArrayAssumption
  <2>2. p \in {id, NULL}
    BY <1>5, <2>1 DEF Payloads
  <2> QED BY <1>1, <1>5, <2>2 DEF Values, OwnedBy
<1> QED BY <1>2, <1>3, <1>4, <1>5 DEF Arguments

\* What both kinds of push do.
Pushes(type, p) ==
  LET v == [type |-> type, as |-> p] IN
  /\ v \in Values /\ status' = status
  /\ \E b \in Blocks, n \in Nat :
       /\ n > count /\ n >= size /\ n >= count + 1
       /\ b # buffer => count >= capacity
       /\ buffer' = b /\ size' = n /\ capacity' = n
       /\ b \in 1 .. allocs'
       /\ items' = [i \in 0 .. n - 1 |-> IF i = count THEN v
                                         ELSE IF i < size THEN items[i] ELSE Junk]
  /\ count' = count + 1
  /\ children' = children \cup OwnedBy(v)
  /\ allocs' \in allocs .. MaxBlocks
  /\ OwnedBy(v) \subseteq (allocs + 1) .. allocs'

LEMMA PushIsPush ==
  ASSUME IndInv, NEW type, NEW arg, <<type, arg>> \in Arguments,
         Push(type, arg) \/ PushValue(type, arg)
  PROVE  \E p : Pushes(type, p)
<1>1. CASE Push(type, arg)
  <2>1. PICK a \in Areas :
          \E p \in Payloads(type, arg, allocs + NewBlocks(a) + 1) :
            /\ allocs' = allocs + NewBlocks(a) + ChildBlocks(type)
            /\ allocs' <= MaxBlocks
            /\ Store(a, [type |-> type, as |-> p])
            /\ children' = children \cup OwnedBy([type |-> type, as |-> p])
    BY <1>1 DEF Push
  <2> DEFINE id == allocs + NewBlocks(a) + 1
  <2>2. PICK p \in Payloads(type, arg, id) :
            /\ allocs' = allocs + NewBlocks(a) + ChildBlocks(type)
            /\ allocs' <= MaxBlocks
            /\ Store(a, [type |-> type, as |-> p])
            /\ children' = children \cup OwnedBy([type |-> type, as |-> p])
    BY <2>1
  <2> DEFINE v == [type |-> type, as |-> p]
  <2>3. NewBlocks(a) \in {0, 1} /\ ChildBlocks(type) \in {0, 1}
    BY DEF NewBlocks, ChildBlocks
  <2>4. a.size > count
    BY <2>2, AreaIsSound, Counts DEF Store
  <2>5. a.buffer \in Blocks /\ a.buffer \in 1 .. allocs'
    <3>1. a.buffer # NULL
      BY <2>4, AreaIsSound, Counts
    <3>2. CASE a.buffer = buffer
      BY <2>2, <2>3, <3>1, <3>2, Counts DEF IndInv, Blocks
    <3>3. CASE a.buffer # buffer
      <4>1. a.buffer = allocs + 1 /\ NewBlocks(a) = 1
        BY <3>3, AreaIsSound DEF NewBlocks
      <4> QED BY <2>2, <2>3, <4>1, Counts DEF Blocks
    <3> QED BY <3>2, <3>3
  <2>6. v \in Values /\ OwnedBy(v) \subseteq (allocs + 1) .. allocs'
    <3>1. CASE type \in Containers
      <4>1. id \in Blocks /\ id \in (allocs + 1) .. allocs'
        BY <2>2, <2>3, <3>1, Counts DEF ChildBlocks, Blocks
      <4> QED BY <2>2, <4>1, PayloadIsTyped
    <3>2. CASE type \notin Containers
      <4>1. PICK one \in Blocks : one = a.buffer
        BY <2>5
      <4>2. p \in Payloads(type, arg, one)
        <5>1. type \in {"null", "scalar", "string"}
          BY <3>2 DEF Arguments
        <5> QED BY <2>2, <5>1 DEF Payloads
      <4> QED BY <3>2, <4>2, PayloadIsTyped
    <3> QED BY <3>1, <3>2
  <2>7. /\ a.size \in Nat /\ a.size >= size /\ a.capacity = a.size
        /\ a.buffer # buffer => count >= capacity
    BY AreaIsSound
  <2>8. allocs' \in allocs .. MaxBlocks
    BY <2>2, <2>3, Counts
  <2>9. /\ buffer' = a.buffer /\ size' = a.size /\ capacity' = a.size
        /\ items' = [i \in 0 .. a.size - 1 |-> IF i = count THEN v
                                               ELSE IF i < size THEN items[i] ELSE Junk]
        /\ count' = count + 1 /\ status' = status
    BY <1>1, <2>2, <2>7 DEF Store, Push
  <2> HIDE DEF v, id
  <2>10. /\ a.size > count /\ a.size >= count + 1
    BY <2>4, <2>7, Counts
  <2>11. Pushes(type, p)
    BY <2>2, <2>5, <2>6, <2>7, <2>8, <2>9, <2>10 DEF Pushes, v
  <2> QED BY <2>11
<1>2. CASE PushValue(type, arg)
  <2> DEFINE p == IF type \in Containers THEN allocs + 1 ELSE arg
             v == [type |-> type, as |-> p]
  <2>1. PICK a \in Areas :
          /\ allocs' = allocs + NewBlocks(a) + ChildBlocks(type)
          /\ allocs' <= MaxBlocks
          /\ Store([a EXCEPT !.buffer = IF NewBlocks(a) = 1 THEN allocs' ELSE buffer], v)
          /\ children' = children \cup OwnedBy(v)
    BY <1>2 DEF PushValue
  <2> DEFINE c == [a EXCEPT !.buffer = IF NewBlocks(a) = 1 THEN allocs' ELSE buffer]
  <2>2. c.size = a.size /\ c.capacity = a.capacity
        /\ c.buffer = IF NewBlocks(a) = 1 THEN allocs' ELSE buffer
    <3>1. \E b, n, k : a = [buffer |-> b, size |-> n, capacity |-> k]
      BY DEF Areas, Area
    <3> QED BY <3>1
  <2>3. NewBlocks(a) \in {0, 1} /\ ChildBlocks(type) \in {0, 1}
    BY DEF NewBlocks, ChildBlocks
  <2>4. a.size > count
    BY <2>1, <2>2, AreaIsSound, Counts DEF Store
  <2>5. c.buffer \in Blocks /\ c.buffer \in 1 .. allocs'
    <3>1. a.buffer # NULL
      BY <2>4, AreaIsSound, Counts
    <3>2. CASE NewBlocks(a) = 0
      <4>1. a.buffer = buffer /\ c.buffer = buffer
        BY <2>2, <3>2 DEF NewBlocks
      <4> QED BY <2>1, <2>3, <3>1, <4>1, Counts DEF IndInv, Blocks
    <3>3. CASE NewBlocks(a) = 1
      <4>1. c.buffer = allocs' /\ allocs' \in Nat /\ allocs' >= 1
        BY <2>1, <2>2, <2>3, <3>3, Counts
      <4> QED BY <2>1, <4>1, Counts DEF Blocks
    <3> QED BY <2>3, <3>2, <3>3
  <2>6. v \in Values /\ OwnedBy(v) \subseteq (allocs + 1) .. allocs'
    <3>1. CASE type \in Containers
      <4>1. allocs + 1 \in Blocks /\ allocs + 1 \in (allocs + 1) .. allocs'
        BY <2>1, <2>3, <3>1, Counts DEF ChildBlocks, Blocks
      <4> QED BY <4>1, PayloadIsTyped
    <3>2. CASE type \notin Containers
      <4>1. PICK one \in Blocks : one = c.buffer
        BY <2>5
      <4>2. p \in {IF type \in Containers THEN one ELSE arg}
        BY <3>2
      <4> HIDE DEF p
      <4> QED BY <3>2, <4>2, PayloadIsTyped
    <3> QED BY <3>1, <3>2
  <2>7. /\ a.size \in Nat /\ a.size >= size /\ a.capacity = a.size
        /\ c.buffer # buffer => count >= capacity
    BY <2>2, <2>3, AreaIsSound DEF NewBlocks
  <2>8. allocs' \in allocs .. MaxBlocks
    BY <2>1, <2>3, Counts
  <2>9. /\ buffer' = c.buffer /\ size' = a.size /\ capacity' = a.size
        /\ items' = [i \in 0 .. a.size - 1 |-> IF i = count THEN v
                                               ELSE IF i < size THEN items[i] ELSE Junk]
        /\ count' = count + 1 /\ status' = status
    BY <1>2, <2>1, <2>2, <2>7 DEF Store, PushValue
  <2>10. children' = children \cup OwnedBy(v)
    BY <2>1
  <2> HIDE DEF c, p
  <2>11. /\ a.size > count /\ a.size >= count + 1
    BY <2>4, <2>7, Counts
  <2>12. Pushes(type, p)
    BY <2>5, <2>6, <2>7, <2>8, <2>9, <2>10, <2>11 DEF Pushes
  <2> QED BY <2>12
<1> QED BY <1>1, <1>2

LEMMA PushKeeps ==
  ASSUME IndInv, NEW type, NEW p, Pushes(type, p)
  PROVE  IndInv'
<1>1. PICK b \in Blocks, n \in Nat :
       /\ n > count /\ n >= size
       /\ buffer' = b /\ size' = n /\ capacity' = n
       /\ b \in 1 .. allocs'
       /\ items' = [i \in 0 .. n - 1 |-> IF i = count THEN [type |-> type, as |-> p]
                                         ELSE IF i < size THEN items[i] ELSE Junk]
  BY DEF Pushes
<1>2. count < n
  BY <1>1, Counts
<1> QED BY <1>1, <1>2, StoreKeeps DEF Pushes

\* What removing, clearing and destroying share: some elements and their
\* children go, the others are renumbered by f.
LEMMA ShrinkKeepsChildren ==
  ASSUME IndInv, NEW gone \in SUBSET Used, NEW rest, NEW f \in [rest -> Used],
         NEW after, \A j \in rest : after[j] = items[f[j]],
         \A i \in Used \ gone : \E j \in rest : f[j] = i,
         \A j \in rest : f[j] \notin gone,
         \A i, j \in rest : i # j => f[i] # f[j]
  PROVE  /\ children \ FreedIn(gone) = UNION {OwnedBy(after[j]) : j \in rest}
         /\ \A i, j \in rest : i # j => OwnedBy(after[i]) \cap OwnedBy(after[j]) = {}
<1>1. /\ children = UNION {OwnedBy(items[i]) : i \in Used}
      /\ \A i, j \in Used : i # j => OwnedBy(items[i]) \cap OwnedBy(items[j]) = {}
  BY DEF IndInv, ChildrenOwnedOnce
<1>2. FreedIn(gone) = UNION {OwnedBy(items[i]) : i \in gone}
  BY DEF FreedIn, Freed
<1>3. children \ FreedIn(gone) = UNION {OwnedBy(items[i]) : i \in Used \ gone}
  BY <1>1, <1>2
<1>4. \A j \in rest : f[j] \in Used \ gone /\ after[j] = items[f[j]]
  OBVIOUS
<1>5. UNION {OwnedBy(items[i]) : i \in Used \ gone} = UNION {OwnedBy(after[j]) : j \in rest}
  BY <1>4
<1>6. \A i, j \in rest : i # j => OwnedBy(after[i]) \cap OwnedBy(after[j]) = {}
  BY <1>1, <1>4
<1> QED BY <1>3, <1>5, <1>6

LEMMA RemoveKeeps ==
  ASSUME IndInv, NEW i \in Used, Remove(i)
  PROVE  IndInv'
<1>1. /\ items' = ClosedUp(i) /\ count' = count - 1
      /\ children' = children \ Freed(items[i])
      /\ UNCHANGED <<status, buffer, size, capacity, allocs>>
  BY DEF Remove
<1>2. count > 0 /\ i \in Nat /\ i < count
  BY Counts DEF Used
<1>3. items \in [0 .. size - 1 -> Values \cup {Junk}] /\ DOMAIN items = 0 .. size - 1
  BY DEF IndInv, TypeOK
<1> DEFINE f == [j \in Used' |-> IF j < i THEN j ELSE j + 1]
<1>4. /\ f \in [Used' -> Used]
      /\ \A j \in Used' : items'[j] = items[f[j]]
      /\ \A j \in Used' : f[j] # i
      /\ \A j, k \in Used' : j # k => f[j] # f[k]
  BY SMTT(60), <1>1, <1>2, <1>3, Counts DEF Used, ClosedUp
<1>5. ASSUME NEW j \in Used \ {i}  PROVE \E k \in Used' : f[k] = j
  <2>1. CASE j < i
    BY <1>1, <1>2, <2>1, Counts DEF Used
  <2>2. CASE ~(j < i)
    <3>1. j - 1 \in Used' /\ f[j - 1] = j
      BY <1>1, <1>2, <1>5, <2>2, Counts DEF Used
    <3> QED BY <3>1
  <2> QED BY <2>1, <2>2
<1>6. FreedIn({i}) = Freed(items[i])
  BY DEF FreedIn
<1> HIDE DEF f
<1>7. ChildrenOwnedOnce'
  BY SMTT(60), <1>1, <1>4, <1>5, <1>6, ShrinkKeepsChildren DEF ChildrenOwnedOnce
<1>8. TypeOK'
  <2>1. items' \in [0 .. size - 1 -> Values \cup {Junk}]
    <3>1. ASSUME NEW j \in 0 .. size - 1  PROVE items'[j] \in Values \cup {Junk}
      <4>1. j \in Used /\ j < count - 1 => j + 1 \in 0 .. size - 1
        BY Counts DEF Used
      <4>2. j >= i /\ j < count - 1 => j \in Used
        BY <1>2, Counts DEF Used
      <4> QED BY <1>1, <1>3, <4>1, <4>2 DEF ClosedUp, Values
    <3>2. items' = [j \in 0 .. size - 1 |-> items'[j]]
      BY <1>1, <1>3 DEF ClosedUp
    <3> QED BY <3>1, <3>2
  <2>2. count' \in 0 .. size
    BY <1>1, <1>2, Counts
  <2>3. children' \subseteq Blocks
    BY <1>1 DEF IndInv, TypeOK
  <2> QED BY <1>1, <2>1, <2>2, <2>3 DEF IndInv, TypeOK
<1>9. NoJunkInUse'
  BY <1>4 DEF IndInv, NoJunkInUse
<1>10. NoStaleOwner'
  <2>1. ASSUME NEW j \in (0 .. size - 1) \ Used'  PROVE items'[j] \in {Junk, NullValue}
    <3>1. CASE j = count - 1
      BY <1>1, <1>3, <3>1 DEF ClosedUp
    <3>2. CASE j # count - 1
      <4>1. j \in (0 .. size - 1) \ Used /\ ~(j < count - 1)
        BY <1>1, <2>1, <3>2, Counts DEF Used
      <4> QED BY <1>1, <1>3, <3>2, <4>1 DEF ClosedUp, IndInv, NoStaleOwner
    <3> QED BY <3>1, <3>2
  <2> QED BY <1>1, <2>1 DEF NoStaleOwner
<1>11. SizeKnown' /\ children' \subseteq 1 .. allocs' /\ (buffer' # NULL => buffer' \in 1 .. allocs')
  BY <1>1 DEF IndInv, SizeKnown
<1> QED BY <1>7, <1>8, <1>9, <1>10, <1>11 DEF IndInv

\* Clearing and destroying leave no child.
LEMMA AllFreed ==
  ASSUME IndInv
  PROVE  children \ FreedIn(Used) = {}
BY DEF IndInv, ChildrenOwnedOnce, FreedIn, Freed

LEMMA ClearKeeps ==
  ASSUME IndInv, Clear
  PROVE  IndInv'
<1>1. /\ count' = 0 /\ children' = {}
      /\ items' = [i \in DOMAIN items |-> IF i < count THEN NullValue ELSE items[i]]
      /\ UNCHANGED <<status, buffer, size, capacity, allocs>>
  BY AllFreed DEF Clear, Destroyed
<1>2. Used' = {}
  BY <1>1 DEF Used
<1>3. items \in [0 .. size - 1 -> Values \cup {Junk}] /\ DOMAIN items = 0 .. size - 1
  BY DEF IndInv, TypeOK
<1>4. NoStaleOwner'
  <2>1. \A i \in 0 .. size - 1 : ~(i < count) => i \notin Used
    BY Counts DEF Used
  <2> QED BY <1>1, <1>3, <2>1 DEF NoStaleOwner, IndInv
<1>5. TypeOK'
  BY <1>1, <1>3, Counts DEF IndInv, TypeOK, Values
<1> QED BY <1>1, <1>2, <1>4, <1>5 DEF IndInv, SizeKnown, NoJunkInUse, ChildrenOwnedOnce

LEMMA DestroyKeeps ==
  ASSUME IndInv, Destroy
  PROVE  IndInv'
<1>1. /\ count' = 0 /\ children' = {} /\ size' = 0 /\ capacity' = 0 /\ buffer' = NULL
      /\ items' = [i \in 0 .. -1 |-> Junk] /\ allocs' = allocs /\ status' = "destroyed"
  BY AllFreed DEF Destroy
<1>2. Used' = {} /\ 0 .. size' - 1 = {} /\ 0 .. -1 = {}
  BY <1>1 DEF Used
<1>3. TypeOK'
  BY <1>1, <1>2, Counts DEF IndInv, TypeOK
<1> QED BY <1>1, <1>2, <1>3 DEF IndInv, SizeKnown, NoJunkInUse, ChildrenOwnedOnce, NoStaleOwner

LEMMA InitIsSound == Init => IndInv
<1> SUFFICES ASSUME Init  PROVE IndInv
  OBVIOUS
<1>1. Used = {} /\ 0 .. size - 1 = {} /\ 0 .. -1 = {}
  BY DEF Init, Used
<1>2. TypeOK
  BY <1>1, ArrayAssumption DEF Init, TypeOK
<1> QED BY <1>1, <1>2 DEF Init, IndInv, SizeKnown, NoJunkInUse, ChildrenOwnedOnce, NoStaleOwner

\* A call that changes nothing but the status.
LEMMA QuietKeeps ==
  ASSUME IndInv, UNCHANGED <<buffer, size, capacity, count, items, children, allocs>>,
         status' \in {status, "fault"}
  PROVE  IndInv'
<1>1. Used' = Used
  BY DEF Used
<1>2. TypeOK'
  BY DEF IndInv, TypeOK
<1> QED BY <1>1, <1>2 DEF IndInv, SizeKnown, NoJunkInUse, ChildrenOwnedOnce, NoStaleOwner

LEMMA NextKeepsSound ==
  ASSUME IndInv, [Next]_vars
  PROVE  IndInv'
<1>1. ASSUME NEW a \in Arguments, Push(a[1], a[2]) \/ PushValue(a[1], a[2])
      PROVE  IndInv'
  <2>1. <<a[1], a[2]>> \in Arguments
    BY DEF Arguments
  <2> QED BY <1>1, <2>1, PushIsPush, PushKeeps
<1>2. ASSUME PushTraps \/ UNCHANGED vars  PROVE IndInv'
  BY <1>2, QuietKeeps DEF PushTraps, vars
<1> QED BY <1>1, <1>2, RemoveKeeps, ClearKeeps, DestroyKeeps DEF Next

-----------------------------------------------------------------------------
\* The inductive invariant holds in every reachable state of every array.
THEOREM ArrayIsSound == Spec => []IndInv
<1>1. Init => IndInv
  BY InitIsSound
<1>2. IndInv /\ [Next]_vars => IndInv'
  BY NextKeepsSound
<1> QED BY <1>1, <1>2, PTL DEF Spec

\* The size passed to the allocator is right (kdf_array.c:21, 34).
THEOREM SizeStaysKnown == Spec => []SizeKnown
<1>1. IndInv => SizeKnown
  BY DEF IndInv
<1> QED BY <1>1, ArrayIsSound, PTL

\* No element is uninitialised memory (kdf_array.c:48-54).
THEOREM ElementsInitialised == Spec => []NoJunkInUse
<1>1. IndInv => NoJunkInUse
  BY DEF IndInv
<1> QED BY <1>1, ArrayIsSound, PTL

\* No child leaks, none is freed twice (kdf_array.c:14-29, 260-282).
THEOREM ChildrenStayOwned == Spec => []ChildrenOwnedOnce
<1>1. IndInv => ChildrenOwnedOnce
  BY DEF IndInv
<1> QED BY <1>1, ArrayIsSound, PTL

\* No slot behind the elements names a child (kdf_array.c:267-281).
THEOREM SlotsBehindAreClean == Spec => []NoStaleOwner
<1>1. IndInv => NoStaleOwner
  BY DEF IndInv
<1> QED BY <1>1, ArrayIsSound, PTL

\* If the allocator never fails, no push writes behind its buffer
\* (kdf_array.c:48-52, 290-294).
THEOREM NothingTraps ==
  ASSUME ~AllocFails
  PROVE  Spec => []NoFault
<1>1. Init => NoFault
  BY DEF Init, NoFault
<1>2. ASSUME IndInv, NoFault, [Next]_vars  PROVE NoFault'
  <2>1. ~PushTraps
    <3>1. ASSUME NEW a \in Areas  PROVE ~(count >= a.size)
      <4>1. CASE ~Full
        BY <1>2, <4>1, Counts DEF Areas, Area, Full
      <4>2. CASE Full
        <5>1. a.size = NewCap
          <6>1. Outcomes \ {TRUE} = {}
            BY DEF Outcomes
          <6>2. \E b : a = Area(b, NewCap, NewCap)
            BY <4>2, <6>1 DEF Areas
          <6> QED BY <6>2 DEF Area
        <5>2. NewCap > count
          BY <1>2, Counts DEF NewCap
        <5>3. NewCap \in Nat
          BY <1>2, Counts DEF NewCap
        <5> QED BY <1>2, <5>1, <5>2, <5>3, Counts
      <4> QED BY <4>1, <4>2
    <3> QED BY <3>1 DEF PushTraps
  <2>2. status' \in {status, "destroyed"}
    BY <1>2, <2>1 DEF Next, Push, PushValue, Remove, Clear, Destroy, vars
  <2> QED BY <1>2, <2>2 DEF NoFault
<1>3. IndInv /\ NoFault /\ [Next]_vars => NoFault'
  BY <1>2
<1> QED BY <1>1, <1>3, ArrayIsSound, PTL DEF Spec

\* Pointers into the buffer stay good until it must grow or an element up to
\* theirs is removed (kdf_array.c:31-56, 271-282).
THEOREM HandlesStayStable == Spec => HandlesStable
<1> DEFINE Stable ==
      /\ buffer' # buffer => count = capacity \/ status' = "destroyed"
      /\ count' >= count => \A i \in Used : items'[i] = items[i]
      /\ \A i \in Used : Remove(i) => \A j \in 0 .. i - 1 : items'[j] = items[j]
<1>1. ASSUME IndInv, Next  PROVE Stable
  <2>0. \A i \in Used : Remove(i) => \A j \in 0 .. i - 1 : items'[j] = items[j]
    <3> SUFFICES ASSUME NEW i \in Used, Remove(i), NEW j \in 0 .. i - 1
                 PROVE  items'[j] = items[j]
      OBVIOUS
    <3>1. j \in DOMAIN items /\ j # count - 1 /\ ~(j >= i)
      BY <1>1, Counts DEF IndInv, TypeOK, Used
    <3> QED BY <3>1 DEF Remove, ClosedUp
  <2>1. ASSUME NEW type, NEW p, Pushes(type, p)  PROVE Stable
    <3>1. PICK b \in Blocks, n \in Nat :
            /\ n > count /\ n >= size
            /\ b # buffer => count >= capacity
            /\ buffer' = b
            /\ items' = [i \in 0 .. n - 1 |-> IF i = count THEN [type |-> type, as |-> p]
                                              ELSE IF i < size THEN items[i] ELSE Junk]
      BY <2>1 DEF Pushes
    <3>2. \A i \in Used : i \in 0 .. n - 1 /\ i # count /\ i < size
      BY <1>1, <3>1, Counts DEF Used
    <3>3. \A i \in Used : items'[i] = items[i]
      BY <3>1, <3>2
    <3>4. buffer' # buffer => count = capacity
      BY <1>1, <3>1, Counts
    <3> QED BY <2>0, <3>3, <3>4
  <2>2. ASSUME NEW a \in Arguments, Push(a[1], a[2]) \/ PushValue(a[1], a[2])
        PROVE  Stable
    <3>1. <<a[1], a[2]>> \in Arguments
      BY DEF Arguments
    <3> QED BY <1>1, <2>1, <2>2, <3>1, PushIsPush
  <2>3. ASSUME NEW i \in Used, Remove(i)  PROVE Stable
    BY <1>1, <2>0, <2>3, Counts DEF Remove
  <2>4. ASSUME Clear \/ Destroy  PROVE Stable
    <3>1. count' = 0 /\ (buffer' # buffer => status' = "destroyed")
      BY <2>4 DEF Clear, Destroy
    <3>2. count' >= count => Used = {}
      BY <1>1, <3>1, Counts DEF Used
    <3> QED BY <2>0, <3>1, <3>2
  <2>5. ASSUME PushTraps  PROVE Stable
    BY <2>0, <2>5 DEF PushTraps
  <2> HIDE DEF Stable
  <2> QED BY <1>1, <2>2, <2>3, <2>4, <2>5 DEF Next
<1>2. IndInv /\ [Next]_vars => [Stable]_vars
  BY <1>1
<1> QED BY <1>2, ArrayIsSound, PTL DEF Spec, HandlesStable

-----------------------------------------------------------------------------
\* The elements as a sequence.
List == [i \in 1 .. count |-> items[i - 1]]

LEMMA ListIsSeq ==
  ASSUME IndInv
  PROVE  /\ List \in Seq(Values) /\ Len(List) = count
         /\ \A i \in 1 .. count : List[i] = items[i - 1] /\ i - 1 \in Used
<1>1. \A i \in 1 .. count : i - 1 \in Used /\ items[i - 1] \in Values
  <2>1. \A i \in 1 .. count : i - 1 \in Used /\ i - 1 \in 0 .. size - 1
    BY Counts DEF Used
  <2> QED BY <2>1 DEF IndInv, TypeOK, NoJunkInUse
<1>2. List \in [1 .. count -> Values]
  BY <1>1 DEF List
<1> QED BY <1>1, <1>2, Counts DEF List

LEMMA PushAdds ==
  ASSUME IndInv, IndInv', NEW type, NEW p, Pushes(type, p), status = "ok"
  PROVE  Sequence!Add(Values)
<1> DEFINE v == [type |-> type, as |-> p]
<1>1. v \in Values /\ count' = count + 1 /\ status' = status
  BY DEF Pushes
<1>2. items'[count] = v /\ \A i \in Used : items'[i] = items[i]
  <2>1. PICK n \in Nat :
          /\ n > count /\ n >= size
          /\ items' = [i \in 0 .. n - 1 |-> IF i = count THEN v
                                            ELSE IF i < size THEN items[i] ELSE Junk]
    BY DEF Pushes
  <2>2. count \in 0 .. n - 1 /\ \A i \in Used : i \in 0 .. n - 1 /\ i # count /\ i < size
    BY <2>1, Counts DEF Used
  <2> QED BY <2>1, <2>2
<1>3. Sequence!FreshChild(List, v)
  <2>1. OwnedBy(v) \cap children = {}
    BY Counts DEF Pushes, IndInv
  <2>2. \A i \in Used : OwnedBy(items[i]) \subseteq children
    BY DEF IndInv, ChildrenOwnedOnce
  <2> QED BY <2>1, <2>2, ListIsSeq DEF Sequence!FreshChild
<1> HIDE DEF v
<1>4. List' = Append(List, v)
  <2>1. \A i \in 1 .. count : List'[i] = List[i]
    BY <1>1, <1>2, ListIsSeq, Counts DEF List
  <2>2. List'[count + 1] = v
    BY <1>1, <1>2, Counts DEF List
  <2>3. List' = [i \in 1 .. count + 1 |-> List'[i]]
    BY <1>1 DEF List
  <2>4. Append(List, v) = [i \in 1 .. count + 1 |-> IF i = count + 1 THEN v ELSE List[i]]
    <3> DEFINE s == List
    <3>1. s \in Seq(Values) /\ Len(s) = count /\ count \in Nat /\ v \in Values
      BY <1>1, ListIsSeq, Counts
    <3> HIDE DEF s
    <3>2. Append(s, v) = [i \in 1 .. count + 1 |-> IF i = count + 1 THEN v ELSE s[i]]
      <4> DEFINE t == Append(s, v)
      <4>1. t \in Seq(Values) /\ Len(t) = count + 1
        BY <3>1, AppendProperties
      <4>2. t[count + 1] = v /\ \A i \in 1 .. count : t[i] = s[i]
        BY <3>1, AppendProperties
      <4> HIDE DEF t
      <4>3. t = [i \in 1 .. count + 1 |-> t[i]]
        BY <3>1, <4>1
      <4>4. \A i \in 1 .. count + 1 : i = count + 1 \/ i \in 1 .. count
        BY <3>1
      <4>5. t = [i \in 1 .. count + 1 |-> IF i = count + 1 THEN v ELSE s[i]]
        BY <4>2, <4>3, <4>4
      <4> QED BY <4>5 DEF t
    <3> QED BY <3>2 DEF s
  <2>5. \A i \in 1 .. count + 1 : i = count + 1 \/ i \in 1 .. count
    BY Counts
  <2> QED BY <2>1, <2>2, <2>3, <2>4, <2>5
<1> QED BY <1>1, <1>3, <1>4 DEF Sequence!Add, List

LEMMA RemoveTakesOut ==
  ASSUME IndInv, IndInv', NEW i \in Used, Remove(i)
  PROVE  i + 1 \in 1 .. Len(List) /\ Sequence!TakeOut(i + 1)
<1>1. /\ items' = ClosedUp(i) /\ count' = count - 1
      /\ status = "ok" /\ status' = status
  BY DEF Remove
<1>2. count > 0 /\ i \in Nat /\ i < count
  BY Counts DEF Used
<1>3. i + 1 \in 1 .. Len(List)
  BY <1>2, ListIsSeq, Counts
<1>4. ASSUME NEW j \in 1 .. count - 1
      PROVE  List'[j] = IF j < i + 1 THEN List[j] ELSE List[j + 1]
  <2>1. /\ j - 1 \in DOMAIN items /\ j - 1 # count - 1 /\ j - 1 < count - 1
        /\ j \in 1 .. count /\ j + 1 \in 1 .. count /\ j \in 1 .. count'
        /\ j - 1 >= i <=> ~(j < i + 1)
        /\ (j - 1) + 1 = (j + 1) - 1
    BY <1>1, <1>2, <1>4, Counts DEF IndInv, TypeOK
  <2>2. List'[j] = items'[j - 1]
    BY <2>1 DEF List
  <2>3. items'[j - 1] = IF j - 1 >= i THEN items[(j - 1) + 1] ELSE items[j - 1]
    BY <1>1, <2>1 DEF ClosedUp
  <2>4. List[j] = items[j - 1] /\ List[j + 1] = items[(j + 1) - 1]
    BY <2>1 DEF List
  <2> QED BY <2>1, <2>2, <2>3, <2>4
<1>5. List' = [j \in 1 .. count - 1 |-> List'[j]]
  BY <1>1 DEF List
<1>6. List' = Sequence!Without(List, i + 1)
  BY <1>4, <1>5, ListIsSeq DEF Sequence!Without
<1> QED BY <1>1, <1>3, <1>6 DEF Sequence!TakeOut, List

\* The array implements the sequence it stands for: pushes add at the end,
\* removals close up, and nothing else changes it (kdf_array.c:44-295).
THEOREM ArrayImplementsSequence == Spec => ImplementsSequence
<1>1. Init => Sequence!Initial
  <2> SUFFICES ASSUME Init  PROVE Sequence!Initial
    OBVIOUS
  <2>1. List = <<>>
    BY DEF Init, List
  <2> QED BY <2>1 DEF Init, Sequence!Initial, List
<1>2. ASSUME IndInv, IndInv', [Next]_vars
      PROVE  [Sequence!SequenceNext]_(Sequence!sequenceVars)
  <2>1. ASSUME NEW a \in Arguments, Push(a[1], a[2]) \/ PushValue(a[1], a[2])
        PROVE  Sequence!Add(Values)
    <3>1. <<a[1], a[2]>> \in Arguments /\ status = "ok"
      BY <2>1 DEF Arguments, Push, PushValue
    <3> QED BY <1>2, <2>1, <3>1, PushIsPush, PushAdds
  <2>2. ASSUME NEW i \in Used, Remove(i)
        PROVE  \E j \in 1 .. Len(List) : Sequence!TakeOut(j)
    BY <1>2, <2>2, RemoveTakesOut
  <2>3. ASSUME Clear  PROVE Sequence!Empty
    <3>1. List' = <<>>
      BY <2>3 DEF Clear, List
    <3> QED BY <2>3, <3>1 DEF Clear, Sequence!Empty, List
  <2>4. ASSUME Destroy  PROVE Sequence!Close
    <3>1. List' = <<>>
      BY <2>4 DEF Destroy, List
    <3> QED BY <2>4, <3>1 DEF Destroy, Sequence!Close, List
  <2>5. ASSUME PushTraps \/ UNCHANGED vars  PROVE UNCHANGED Sequence!sequenceVars
    BY <2>5 DEF PushTraps, vars, Sequence!sequenceVars
  <2>6. \A j \in 1 .. Len(List) : Sequence!TakeOut(j) => Sequence!SequenceNext
    BY DEF Sequence!SequenceNext, List
  <2> QED BY <1>2, <2>1, <2>2, <2>3, <2>4, <2>5, <2>6 DEF Next, Sequence!SequenceNext
<1>3. IndInv /\ IndInv' /\ [Next]_vars => [Sequence!SequenceNext]_(Sequence!sequenceVars)
  BY <1>2
<1> QED BY <1>1, <1>3, ArrayIsSound, PTL DEF Spec, ImplementsSequence, Sequence!SequenceSpec
=============================================================================
