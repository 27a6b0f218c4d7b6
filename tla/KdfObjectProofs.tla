-------------------------- MODULE KdfObjectProofs --------------------------
(***************************************************************************)
(* Proofs that the pointer structure of KdfObject is sound for every set   *)
(* of keys, every hash function and every outcome of the allocator, and    *)
(* that its chains, its order list and its counter together implement the  *)
(* insertion-ordered map of OrderedMap.                                    *)
(***************************************************************************)
EXTENDS KdfObject, CommonProofs

\* Entries are a finite set of numbers, and NULL is not one of them.
LEMMA LiveIsFinite ==
  ASSUME TypeOK
  PROVE  IsFiniteSet(live) /\ live \in SUBSET Int /\ NULL \notin live
<1>1. live \in SUBSET (1 .. MaxBlocks)
  BY DEF TypeOK, Blocks
<1>2. IsFiniteSet(1 .. MaxBlocks)
  BY SizeAssumption, FS_Interval
<1>3. live \in SUBSET Int
  BY <1>1, SizeAssumption
<1> QED BY <1>1, <1>2, <1>3, FS_Subset, NullAssumption

\* Walking the order list visits every entry, the older before the newer.
LEMMA OrderIsLive ==
  ASSUME IndInv
  PROVE  Order = live /\ \A e, f \in live : Before(e, f) <=> f > e
<1>1. TypeOK /\ Ascending(live, first, orderNext, NULL)
  BY DEF IndInv
<1>2. IsFiniteSet(live) /\ live \in SUBSET Int /\ NULL \notin live
  BY <1>1, LiveIsFinite
<1>3. Visited(live, first, orderNext, {}) = live
  BY <1>1, <1>2, AscendingWalk
<1>4. \A e \in live : Visited(live, orderNext[e], orderNext, {}) = {f \in live : f > e}
  BY <1>1, <1>2, AscendingTail
<1> QED BY <1>3, <1>4 DEF Order, Before

\* The entry of S that the walk reaches last is the greatest.
LEMMA LatestIsGreatest ==
  ASSUME IndInv, NEW S \in SUBSET live
  PROVE  IF S = {} THEN Latest(S) = NULL
         ELSE Latest(S) \in S /\ \A f \in S : f <= Latest(S)
<1>1. CASE S = {}
  BY <1>1 DEF Latest
<1>2. CASE S # {}
  <2>1. IsFiniteSet(S) /\ S \in SUBSET Int
    BY LiveIsFinite, FS_Subset DEF IndInv
  <2>2. PICK x \in S : \A y \in S : y <= x
    BY <2>1, <1>2, HasMax
  <2>3. \A f \in S \ {x} : Before(f, x)
    <3>1. \A f \in S \ {x} : x > f
      BY <2>1, <2>2
    <3> QED BY <3>1, OrderIsLive
  <2>4. Latest(S) \in S /\ \A f \in S \ {Latest(S)} : Before(f, Latest(S))
    BY <1>2, <2>3 DEF Latest
  <2>5. \A f \in S \ {Latest(S)} : Latest(S) > f
    BY <2>4, OrderIsLive
  <2>6. Latest(S) \in Int /\ \A f \in S : f \in Int
    BY <2>1, <2>4
  <2>7. \A f \in S : f <= Latest(S)
    BY <2>5, <2>6
  <2> QED BY <1>2, <2>4, <2>7
<1> QED BY <1>1, <1>2

\* A larger table holds every entry in the chain of its new slot.
LEMMA GrowKeepsChains ==
  ASSUME IndInv, NEW n \in Nat \ {0}
  PROVE  /\ GrownHeads(n) \in [0 .. n - 1 -> Pointers(live)]
         /\ GrownNext(n) \in [live -> Pointers(live)]
         /\ ChainsDescend(n, GrownHeads(n), GrownNext(n))
<1> DEFINE D(b) == {e \in live : Slot(key[e], n) = b}
           Older(e) == {f \in live : e > f /\ Slot(key[f], n) = Slot(key[e], n)}
<1>1. GrownHeads(n) = [b \in 0 .. n - 1 |-> Latest(D(b))]
  BY OrderIsLive DEF GrownHeads
<1>2. GrownNext(n) = [e \in live |-> Latest(Older(e))]
  <2>1. \A e \in live : {f \in Order : Before(f, e) /\ Slot(key[f], n) = Slot(key[e], n)}
                          = Older(e)
    BY OrderIsLive
  <2> HIDE DEF Older
  <2> QED BY <2>1 DEF GrownNext
<1>3. \A b : IF D(b) = {} THEN Latest(D(b)) = NULL
             ELSE Latest(D(b)) \in D(b) /\ \A f \in D(b) : f <= Latest(D(b))
  <2>1. \A b : D(b) \in SUBSET live
    OBVIOUS
  <2> HIDE DEF D
  <2> QED BY <2>1, LatestIsGreatest
<1>4. \A e : IF Older(e) = {} THEN Latest(Older(e)) = NULL
             ELSE Latest(Older(e)) \in Older(e) /\ \A f \in Older(e) : f <= Latest(Older(e))
  <2>1. \A e : Older(e) \in SUBSET live
    OBVIOUS
  <2> HIDE DEF Older
  <2> QED BY <2>1, LatestIsGreatest
<1>5. GrownHeads(n) \in [0 .. n - 1 -> Pointers(live)]
  <2>1. \A b : Latest(D(b)) \in Pointers(live)
    BY <1>3 DEF Pointers
  <2> HIDE DEF D
  <2> QED BY <2>1, <1>1
<1>6. GrownNext(n) \in [live -> Pointers(live)]
  <2>1. \A e : Latest(Older(e)) \in Pointers(live)
    BY <1>4 DEF Pointers
  <2> HIDE DEF Older
  <2> QED BY <2>1, <1>2
<1>7. ASSUME NEW b \in 0 .. n - 1
      PROVE  Descending(D(b), GrownHeads(n)[b], GrownNext(n), NULL)
  <2>1. GrownHeads(n)[b] = Latest(D(b))
    <3> HIDE DEF D
    <3> QED BY <1>1
  <2>2. IF D(b) = {} THEN GrownHeads(n)[b] = NULL
        ELSE GrownHeads(n)[b] \in D(b) /\ \A f \in D(b) : f <= GrownHeads(n)[b]
    <3> HIDE DEF D
    <3> QED BY <2>1, <1>3
  <2>3. ASSUME NEW e \in D(b)
        PROVE  IF \A f \in D(b) : f >= e THEN GrownNext(n)[e] = NULL
               ELSE /\ GrownNext(n)[e] \in D(b) /\ GrownNext(n)[e] < e
                    /\ \A f \in D(b) : f < e => f <= GrownNext(n)[e]
    <3>1. GrownNext(n)[e] = Latest(Older(e))
      <4>1. e \in live
        OBVIOUS
      <4> HIDE DEF Older
      <4> QED BY <4>1, <1>2
    <3>2. \A f \in live : f \in Int
      BY LiveIsFinite DEF IndInv
    <3>3. Older(e) = {f \in D(b) : f < e}
      BY <3>2
    <3>4. (\A f \in D(b) : f >= e) <=> Older(e) = {}
      BY <3>2, <3>3
    <3> HIDE DEF D, Older
    <3> QED BY <3>1, <3>3, <3>4, <1>4
  <2> HIDE DEF D
  <2> QED BY <2>2, <2>3 DEF Descending
<1>8. ChainsDescend(n, GrownHeads(n), GrownNext(n))
  BY <1>7 DEF ChainsDescend
<1> QED BY <1>5, <1>6, <1>8

\* So does the table that insert goes on with, grown or not.
LEMMA TableIsSound ==
  ASSUME IndInv, NEW grown \in BOOLEAN
  PROVE  /\ TableSize(grown) \in Nat
         /\ TableHeads(grown) \in [0 .. TableSize(grown) - 1 -> Pointers(live)]
         /\ TableNext(grown) \in [live -> Pointers(live)]
         /\ ChainsDescend(TableSize(grown), TableHeads(grown), TableNext(grown))
         /\ live # {} => TableSize(grown) # 0
<1>1. bucketCount \in Nat /\ NewSize \in Nat \ {0}
  BY SizeAssumption DEF IndInv, TypeOK, NewSize
<1>2. CASE grown
  BY <1>1, <1>2, GrowKeepsChains DEF TableSize, TableHeads, TableNext
<1>3. CASE ~grown
  BY <1>1, <1>3 DEF TableSize, TableHeads, TableNext, IndInv, TypeOK
<1> QED BY <1>2, <1>3

\* A lookup that does not trap finds the entry that has the key, if any does.
LEMMA FindIsMatching ==
  ASSUME IndInv, NEW k \in Keys, ~Traps(k)
  PROVE  Find(k) = Matching(k)
<1>1. SUFFICES ASSUME NEW m \in Matching(k)  PROVE m \in Probe(k)
  BY DEF Find
<1>2. m \in live /\ m \notin keyless /\ key[m] = k /\ bucketCount \in Nat \ {0}
  BY DEF Matching, IndInv, TypeOK
<1> DEFINE b == Slot(k, bucketCount)
           D == {e \in live : Slot(key[e], bucketCount) = b}
<1>3. b \in 0 .. bucketCount - 1
  BY <1>2, HashAssumption DEF Slot
<1>4. Descending(D, HeadOf(k), hashNext, NULL)
  BY <1>2, <1>3 DEF IndInv, ChainsDescend, HeadOf
<1>5. m \in D /\ D \in SUBSET live
  BY <1>2
<1>6. Matching(k) = {m}
  BY DEF Matching, IndInv, KeysUnique
<1>7. Probe(k) \cap (Matching(k) \cup keyless) \subseteq {m}
  BY <1>6 DEF Traps
<1>8. IsFiniteSet(live) /\ live \in SUBSET Int /\ NULL \notin live
  BY LiveIsFinite DEF IndInv
<1> HIDE DEF D, b
<1> QED BY <1>4, <1>5, <1>7, <1>8, DescendingSearch DEF Probe

-----------------------------------------------------------------------------
\* The arguments that the setters of the API pass.
ArgOK(type, arg) ==
  \/ type = "scalar" /\ arg \in Scalars
  \/ type = "string" /\ arg \in Strings \cup {NULL}
  \/ type \in Containers /\ arg \in Strings \cup {NULL}

\* Interning adds at most the string it was given.
LEMMA InternGrowsPool ==
  ASSUME NEW s, NEW p, NEW q \in AfterIntern(s, p)
  PROVE  p \subseteq q /\ q \subseteq p \cup {s} /\ (s = NULL => q = p)
BY DEF AfterIntern

\* A setter leaves a value of its type, whose only possible child is the block
\* it has just obtained.
LEMMA PayloadIsTyped ==
  ASSUME NEW type, NEW arg, ArgOK(type, arg), NEW id \in Nat,
         type \in Containers => id \in Blocks,
         NEW p \in SUBSET (Keys \cup Strings), NEW r \in Payloads(type, arg, id, p)
  PROVE  /\ [type |-> type, as |-> r.as] \in Values
         /\ OwnedBy([type |-> type, as |-> r.as]) \subseteq {id}
         /\ type \notin Containers => OwnedBy([type |-> type, as |-> r.as]) = {}
         /\ r.pool \subseteq Keys \cup Strings
<1>1. CASE type = "scalar"
  <2>1. r = [as |-> arg, pool |-> p] /\ type \notin Containers /\ arg \in Scalars
    BY <1>1, TypeAssumption DEF Payloads, ArgOK
  <2> QED BY <1>1, <2>1 DEF Values, OwnedBy
<1>2. CASE type = "string"
  <2>1. type \notin Containers /\ arg \in Strings \cup {NULL}
    BY <1>2, TypeAssumption DEF ArgOK
  <2>2. PICK q \in AfterIntern(arg, p) :
           r = [as |-> IF arg \in q THEN arg ELSE NULL, pool |-> q]
    <3>1. Payloads(type, arg, id, p) =
            {[as |-> IF arg \in q THEN arg ELSE NULL, pool |-> q] : q \in AfterIntern(arg, p)}
      BY <1>2 DEF Payloads
    <3> QED BY <3>1
  <2>3. q \subseteq Keys \cup Strings
    BY <2>1, <2>2, InternGrowsPool
  <2> QED BY <1>2, <2>1, <2>2, <2>3 DEF Values, OwnedBy
<1>3. CASE type \in Containers
  <2>1. type \notin {"scalar", "string"} /\ arg \in Strings \cup {NULL}
    BY <1>3, TypeAssumption DEF ArgOK
  <2>2. \/ \E q \in AfterIntern(arg, p) : r = [as |-> id, pool |-> q]
        \/ r = [as |-> NULL, pool |-> p]
    BY <1>3, <2>1 DEF Payloads
  <2>3. r.as \in {id, NULL} /\ r.pool \subseteq Keys \cup Strings
    BY <2>1, <2>2, InternGrowsPool
  <2> QED BY <1>3, <2>3 DEF Values, OwnedBy
<1> QED BY <1>1, <1>2, <1>3 DEF ArgOK

\* An overwrite keeps the structure: only a value changes, and the child it
\* gains is a block nobody owns yet.
LEMMA ReplaceKeeps ==
  ASSUME IndInv, NEW k \in Keys, NEW type, NEW arg, ArgOK(type, arg),
         Replace(k, type, arg)
  PROVE  IndInv'
<1>1. PICK e \in Find(k), r \in Payloads(type, arg, Fresh, pool) :
         LET v == [type |-> type, as |-> r.as] IN
         /\ val' = [val EXCEPT ![e] = v]
         /\ children' = (children \ OwnedBy(val[e])) \cup OwnedBy(v)
         /\ pool' = r.pool
         /\ allocs' = allocs + ChildBlocks(type)
  BY DEF Replace, Freed
<1> DEFINE v == [type |-> type, as |-> r.as]
<1>2. /\ status = "ok" /\ Room(ChildBlocks(type))
      /\ UNCHANGED <<status, live, key, keyless, hashNext, orderNext, orderPrev,
                     first, last, buckets, bucketCount, count, meta>>
  BY DEF Replace, links, table
<1>3. e \in live
  BY DEF Find, Matching
<1>4. allocs \in Nat /\ Fresh \in Nat /\ (type \in Containers => Fresh \in Blocks)
  BY <1>2, SizeAssumption DEF IndInv, TypeOK, Fresh, Blocks, Room, ChildBlocks
<1>5. /\ v \in Values /\ OwnedBy(v) \subseteq {Fresh}
      /\ type \notin Containers => OwnedBy(v) = {}
      /\ r.pool \subseteq Keys \cup Strings
  BY <1>4, PayloadIsTyped DEF IndInv, TypeOK
<1>6. allocs' \in 0 .. MaxBlocks /\ allocs <= allocs' /\ OwnedBy(v) \subseteq 1 .. allocs'
  BY <1>1, <1>2, <1>4, <1>5, SizeAssumption
     DEF IndInv, TypeOK, Fresh, Room, ChildBlocks
<1>7. live' \cup children' \subseteq 1 .. allocs'
  BY <1>1, <1>2, <1>4, <1>6 DEF IndInv
<1>8. TypeOK'
  <2>1. val' \in [live -> Values]
    BY <1>1, <1>3, <1>5 DEF IndInv, TypeOK
  <2>2. children' \subseteq Blocks
    BY <1>6, <1>7, SizeAssumption DEF Blocks
  <2> QED BY <1>1, <1>2, <1>5, <1>6, <2>1, <2>2 DEF IndInv, TypeOK, Pointers
<1>9. ChildrenOwnedOnce'
  <2>1. Fresh \notin children
    BY <1>4 DEF IndInv, Fresh
  <2>2. \A f \in live : val'[f] = IF f = e THEN v ELSE val[f]
    BY <1>1, <1>3 DEF IndInv, TypeOK
  <2>3. /\ children = UNION {OwnedBy(val[f]) : f \in live}
        /\ \A f, g \in live : f # g => OwnedBy(val[f]) \cap OwnedBy(val[g]) = {}
    BY DEF IndInv, ChildrenOwnedOnce
  <2>4. \A f \in live : OwnedBy(val[f]) \cap OwnedBy(v) = {}
    BY <2>1, <2>3, <1>5
  <2>5. \A f, g \in live : f # g => OwnedBy(val'[f]) \cap OwnedBy(val'[g]) = {}
    BY <2>2, <2>3, <2>4
  <2>6. children' = UNION {OwnedBy(val'[f]) : f \in live}
    <3>1. ASSUME NEW c \in children'  PROVE \E f \in live : c \in OwnedBy(val'[f])
      <4>1. CASE c \in OwnedBy(v)
        BY <4>1, <2>2, <1>3
      <4>2. CASE c \in children \ OwnedBy(val[e])
        <5>1. PICK f \in live : c \in OwnedBy(val[f])
          BY <4>2, <2>3
        <5> QED BY <5>1, <4>2, <2>2
      <4> QED BY <3>1, <4>1, <4>2, <1>1
    <3>2. ASSUME NEW f \in live, NEW c \in OwnedBy(val'[f])  PROVE c \in children'
      <4>1. CASE f = e
        BY <4>1, <2>2, <1>1
      <4>2. CASE f # e
        <5>1. c \in OwnedBy(val[f])
          BY <4>2, <2>2
        <5> QED BY <5>1, <4>2, <2>3, <1>1, <1>3
      <4> QED BY <4>1, <4>2
    <3> QED BY <3>1, <3>2
  <2> QED BY <1>2, <2>5, <2>6 DEF ChildrenOwnedOnce
<1>10. KeysUnique' /\ DestroyFreesAll'
  BY <1>2 DEF KeysUnique, DestroyFreesAll, IndInv
<1>11. ChainsDescend(bucketCount, buckets, hashNext)'
  BY <1>2 DEF ChainsDescend, IndInv, Slot
<1> QED BY <1>2, <1>7, <1>8, <1>9, <1>10, <1>11 DEF IndInv

\* An insertion that finds no memory for its entry changes at most the table.
LEMMA InsertNoMemoryKeeps ==
  ASSUME IndInv, NEW k \in Keys, InsertNoMemory(k)
  PROVE  IndInv'
<1>1. PICK grown \in BOOLEAN :
         /\ buckets' = TableHeads(grown)
         /\ hashNext' = TableNext(grown)
         /\ bucketCount' = TableSize(grown)
  BY DEF InsertNoMemory, GrowOutcomes, Outcomes
<1>2. UNCHANGED <<status, live, key, val, keyless, orderNext, orderPrev, first, last,
                  count, meta, pool, children, allocs>>
  BY DEF InsertNoMemory, links
<1>3. /\ TableSize(grown) \in Nat
      /\ TableHeads(grown) \in [0 .. TableSize(grown) - 1 -> Pointers(live)]
      /\ TableNext(grown) \in [live -> Pointers(live)]
      /\ ChainsDescend(TableSize(grown), TableHeads(grown), TableNext(grown))
      /\ live # {} => TableSize(grown) # 0
  BY TableIsSound
<1>4. TypeOK'
  BY <1>1, <1>2, <1>3 DEF IndInv, TypeOK, Pointers
<1>5. ChainsDescend(bucketCount, buckets, hashNext)'
  BY <1>1, <1>2, <1>3 DEF ChainsDescend, Slot
<1>6. KeysUnique' /\ ChildrenOwnedOnce' /\ DestroyFreesAll'
  BY <1>2 DEF KeysUnique, ChildrenOwnedOnce, DestroyFreesAll, IndInv
<1> QED BY <1>1, <1>2, <1>3, <1>4, <1>5, <1>6 DEF IndInv

\* An insertion puts the newest entry at the head of its chain and at the tail
\* of the order list; its key was nobody's, because the lookup found nothing.
LEMMA InsertNewKeeps ==
  ASSUME IndInv, NEW k \in Keys, NEW type, NEW arg, ArgOK(type, arg),
         InsertNew(k, type, arg)
  PROVE  IndInv'
<1> DEFINE e == Fresh
           all == live \cup {e}
<1> DEFINE Effect(grown, named, r) ==
             LET v == [type |-> type, as |-> r.as] IN
             /\ TableSize(grown) # 0
             /\ Link(k, v, TableSize(grown), TableHeads(grown), TableNext(grown))
             /\ keyless' = IF k \in named THEN keyless ELSE keyless \cup {Fresh}
             /\ children' = children \cup OwnedBy(v)
             /\ pool' = r.pool
<1>0. PICK grown \in BOOLEAN, named \in AfterIntern(k, pool) :
         \E r \in Payloads(type, arg, Fresh + 1, named) : Effect(grown, named, r)
  BY DEF InsertNew, GrowOutcomes, Outcomes
<1>1. PICK r \in Payloads(type, arg, Fresh + 1, named) : Effect(grown, named, r)
  BY <1>0
<1> DEFINE n == TableSize(grown)
           v == [type |-> type, as |-> r.as]
           b == Slot(k, n)
<1>2. /\ n # 0
      /\ live' = all
      /\ key' = [f \in all |-> IF f = e THEN k ELSE key[f]]
      /\ val' = [f \in all |-> IF f = e THEN v ELSE val[f]]
      /\ bucketCount' = n
      /\ buckets' = [TableHeads(grown) EXCEPT ![b] = e]
      /\ hashNext' = [f \in all |-> IF f = e THEN TableHeads(grown)[b]
                                    ELSE TableNext(grown)[f]]
      /\ orderPrev' = [f \in all |-> IF f = e THEN last ELSE orderPrev[f]]
      /\ orderNext' = [f \in all |-> IF f = e THEN NULL
                                     ELSE IF f = last THEN e ELSE orderNext[f]]
      /\ first' = IF last = NULL THEN e ELSE first
      /\ last' = e
      /\ count' = count + 1
      /\ keyless' = IF k \in named THEN keyless ELSE keyless \cup {e}
      /\ children' = children \cup OwnedBy(v)
      /\ pool' = r.pool
  BY <1>1 DEF Link, FirstWith
<1>3. /\ status = "ok" /\ Room(1 + ChildBlocks(type))
      /\ allocs' = allocs + 1 + ChildBlocks(type)
      /\ UNCHANGED <<status, meta>>
      /\ ~Traps(k) /\ Find(k) = {}
  BY DEF InsertNew
<1>4. /\ TableSize(grown) \in Nat
      /\ TableHeads(grown) \in [0 .. n - 1 -> Pointers(live)]
      /\ TableNext(grown) \in [live -> Pointers(live)]
      /\ ChainsDescend(n, TableHeads(grown), TableNext(grown))
  BY TableIsSound
<1>5. /\ allocs \in Nat /\ e \in Int /\ e = allocs + 1 /\ e \in Blocks
      /\ (type \in Containers => e + 1 \in Blocks)
      /\ allocs' \in 0 .. MaxBlocks /\ e <= allocs'
      /\ (type \in Containers => e + 1 <= allocs')
  BY <1>3, SizeAssumption DEF IndInv, TypeOK, Fresh, Blocks, Room, ChildBlocks
<1>6. /\ IsFiniteSet(live) /\ live \in SUBSET Int /\ NULL \notin live
      /\ \A f \in live : f < e
      /\ e \notin live
  <2>1. \A f \in live : f \in 1 .. allocs
    BY DEF IndInv
  <2>2. \A f \in live : f < e
    BY <2>1, <1>5
  <2>3. e \notin live
    BY <2>2, <1>5
  <2> QED BY <2>2, <2>3, LiveIsFinite DEF IndInv
<1>7. b \in 0 .. n - 1
  BY <1>2, <1>4, HashAssumption DEF Slot
<1>8. named \subseteq Keys \cup Strings
  BY InternGrowsPool DEF IndInv, TypeOK
<1>9. /\ v \in Values /\ OwnedBy(v) \subseteq {e + 1}
      /\ type \notin Containers => OwnedBy(v) = {}
      /\ r.pool \subseteq Keys \cup Strings
  BY <1>5, <1>8, PayloadIsTyped
<1>10. live' \cup children' \subseteq 1 .. allocs'
  <2>1. live \cup children \subseteq 1 .. allocs
    BY DEF IndInv
  <2>2. OwnedBy(v) \subseteq 1 .. allocs'
    BY <1>5, <1>9
  <2> QED BY <2>1, <2>2, <1>2, <1>5
<1>11. TypeOK'
  <2>1. key' \in [all -> Keys] /\ val' \in [all -> Values]
    BY <1>2, <1>9 DEF IndInv, TypeOK
  <2>2. /\ hashNext' \in [all -> Pointers(all)]
        /\ orderNext' \in [all -> Pointers(all)]
        /\ orderPrev' \in [all -> Pointers(all)]
        /\ first' \in Pointers(all) /\ last' \in Pointers(all)
    BY <1>2, <1>4, <1>7 DEF IndInv, TypeOK, Pointers
  <2>3. bucketCount' \in Nat /\ buckets' \in [0 .. bucketCount' - 1 -> Pointers(all)]
    BY <1>2, <1>4, <1>7 DEF Pointers
  <2>4. children' \subseteq Blocks /\ all \subseteq Blocks
    BY <1>5, <1>9, <1>2 DEF IndInv, TypeOK
  <2>5. keyless' \subseteq all /\ pool' \subseteq Keys \cup Strings
    BY <1>2, <1>9 DEF IndInv, TypeOK
  <2>6. /\ status' \in {"ok", "destroyed", "fault"}
        /\ count' \in Nat
        /\ meta' \in [type : Strings \cup {NULL}, version : Versions \cup {0}]
    BY <1>2, <1>3 DEF IndInv, TypeOK
  <2>7. live' = all
    BY <1>2
  <2> HIDE DEF all, e
  <2> QED BY <1>5, <2>1, <2>2, <2>3, <2>4, <2>5, <2>6, <2>7 DEF TypeOK, Pointers
<1>12. Ascending(live', first', orderNext', NULL)
  <2>1. IF live = {} THEN last = NULL ELSE last \in live /\ \A f \in live : f <= last
    BY DEF IndInv, Descending
  <2>2. orderNext'[e] = NULL /\ \A f \in live : orderNext'[f] = IF f = last THEN e ELSE orderNext[f]
    BY <1>2, <1>6
  <2>3. Ascending(live, first, orderNext, NULL)
    BY DEF IndInv
  <2> HIDE DEF e
  <2> QED BY <1>2, <1>5, <1>6, <2>1, <2>2, <2>3, NullAssumption, AscendingAppend
<1>13. Descending(live', last', orderPrev', NULL)
  <2>1. orderPrev'[e] = last /\ \A f \in live : orderPrev'[f] = orderPrev[f]
    BY <1>2, <1>6
  <2>2. Descending(live, last, orderPrev, NULL)
    BY DEF IndInv
  <2> HIDE DEF e
  <2> QED BY <1>2, <1>5, <1>6, <2>1, <2>2, NullAssumption, DescendingPush
<1>14. ChainsDescend(bucketCount, buckets, hashNext)'
  <2> SUFFICES ASSUME NEW c \in 0 .. n - 1
               PROVE  Descending({f \in all : Slot(key'[f], n) = c}, buckets'[c], hashNext', NULL)
    BY <1>2 DEF ChainsDescend, Slot
  <2> DEFINE D == {f \in live : Slot(key[f], n) = c}
             D2 == {f \in all : Slot(key'[f], n) = c}
  <2>1. Descending(D, TableHeads(grown)[c], TableNext(grown), NULL)
    BY <1>4 DEF ChainsDescend
  <2>2. /\ key'[e] = k /\ \A f \in live : key'[f] = key[f]
        /\ hashNext'[e] = TableHeads(grown)[b]
        /\ \A f \in live : hashNext'[f] = TableNext(grown)[f]
    BY <1>2, <1>6
  <2>3. D \in SUBSET Int /\ \A f \in D : f < e
    BY <1>6
  <2>4. CASE c = b
    <3>1. D2 = D \cup {e}
      BY <2>2, <2>4
    <3>2. buckets'[c] = e
      BY <1>2, <1>4, <1>7, <2>4
    <3>3. \A f \in D : hashNext'[f] = TableNext(grown)[f]
      BY <2>2
    <3>4. Descending(D \cup {e}, e, hashNext', NULL)
      <4> HIDE DEF D, D2, e, n, b
      <4> QED BY <2>1, <2>2, <2>3, <2>4, <3>3, <1>5, NullAssumption, DescendingPush
    <3> HIDE DEF D, e, n, b
    <3> QED BY <3>1, <3>2, <3>4
  <2>5. CASE c # b
    <3>1. D2 = D
      BY <2>2, <2>5, <1>6
    <3>2. buckets'[c] = TableHeads(grown)[c]
      BY <1>2, <1>4, <1>7, <2>5
    <3>3. \A f \in D : hashNext'[f] = TableNext(grown)[f]
      BY <2>2
    <3>4. Descending(D, TableHeads(grown)[c], hashNext', NULL)
      <4> HIDE DEF D, D2, e, n, b
      <4> QED BY <2>1, <3>3, DescendingAgree
    <3> HIDE DEF D, e, n, b
    <3> QED BY <3>1, <3>2, <3>4
  <2> QED BY <2>4, <2>5
<1>15. count' = Cardinality(live')
  <2> HIDE DEF e
  <2> QED BY <1>2, <1>6, FS_AddElement DEF IndInv
<1>16. KeysUnique'
  <2>1. \A f \in live \ keyless : key[f] # k
    BY <1>3, FindIsMatching DEF Matching
  <2>2. key'[e] = k /\ \A f \in live : key'[f] = key[f]
    BY <1>2, <1>6
  <2>3. live' \ keyless' \subseteq (live \ keyless) \cup {e}
    BY <1>2
  <2> HIDE DEF e
  <2> QED BY <2>1, <2>2, <2>3 DEF KeysUnique, IndInv
<1>17. ChildrenOwnedOnce'
  <2>1. e + 1 \notin children
    BY <1>5 DEF IndInv
  <2>2. val'[e] = v /\ \A f \in live : val'[f] = val[f]
    BY <1>2, <1>6
  <2>3. /\ children = UNION {OwnedBy(val[f]) : f \in live}
        /\ \A f, g \in live : f # g => OwnedBy(val[f]) \cap OwnedBy(val[g]) = {}
    BY DEF IndInv, ChildrenOwnedOnce
  <2>4. \A f \in live : OwnedBy(val[f]) \cap OwnedBy(v) = {}
    BY <2>1, <2>3, <1>9
  <2>5. live' = live \cup {e} /\ children' = children \cup OwnedBy(v)
    BY <1>2
  <2> HIDE DEF e, v
  <2>6. children' = UNION {OwnedBy(val'[f]) : f \in live'}
    BY <2>2, <2>3, <2>5
  <2>7. \A f, g \in live' : f # g => OwnedBy(val'[f]) \cap OwnedBy(val'[g]) = {}
    BY <2>2, <2>3, <2>4, <2>5
  <2> QED BY <2>6, <2>7 DEF ChildrenOwnedOnce
<1>18. DestroyFreesAll' /\ (live' # {} => bucketCount' # 0)
  BY <1>2, <1>3 DEF DestroyFreesAll
<1> QED BY <1>10, <1>11, <1>12, <1>13, <1>14, <1>15, <1>16, <1>17, <1>18 DEF IndInv

\* A trap changes nothing but the status.
LEMMA TrapKeeps ==
  ASSUME IndInv, status = "ok", Trap
  PROVE  IndInv'
BY DEF Trap, IndInv, TypeOK, Pointers, ChainsDescend, Slot, KeysUnique,
       ChildrenOwnedOnce, DestroyFreesAll, links, table

\* Metadata are no part of the structure.
LEMMA SetTypeKeeps ==
  ASSUME IndInv, NEW t \in Strings \cup {NULL}, SetType(t)
  PROVE  IndInv'
<1>1. PICK q \in AfterIntern(t, pool) :
         pool' = q /\ meta' = [meta EXCEPT !.type = IF t \in q THEN t ELSE NULL]
  BY DEF SetType
<1>2. UNCHANGED <<status, live, key, val, keyless, orderNext, orderPrev, first, last,
                  hashNext, buckets, bucketCount, count, children, allocs>>
  BY DEF SetType, links, table
<1>3. q \subseteq Keys \cup Strings
  BY InternGrowsPool DEF IndInv, TypeOK
<1>4. meta' \in [type : Strings \cup {NULL}, version : Versions \cup {0}]
  BY <1>1 DEF IndInv, TypeOK
<1>5. TypeOK'
  <2>1. pool' \subseteq Keys \cup Strings
    BY <1>1, <1>3
  <2> QED BY <2>1, <1>2, <1>4 DEF IndInv, TypeOK, Pointers
<1>6. ChainsDescend(bucketCount, buckets, hashNext)'
  BY <1>2 DEF IndInv, ChainsDescend, Slot
<1>7. KeysUnique' /\ ChildrenOwnedOnce' /\ DestroyFreesAll'
  BY <1>2 DEF IndInv, KeysUnique, ChildrenOwnedOnce, DestroyFreesAll
<1>8. live' \cup children' \subseteq 1 .. allocs' /\ (live' # {} => bucketCount' # 0)
      /\ count' = Cardinality(live')
  BY <1>2 DEF IndInv
<1>9. Ascending(live', first', orderNext', NULL) /\ Descending(live', last', orderPrev', NULL)
  BY <1>2 DEF IndInv
<1> QED BY <1>5, <1>6, <1>7, <1>8, <1>9 DEF IndInv

LEMMA SetVersionKeeps ==
  ASSUME IndInv, NEW n \in Versions, SetVersion(n)
  PROVE  IndInv'
<1>1. UNCHANGED <<status, live, key, val, keyless, orderNext, orderPrev, first, last,
                  hashNext, buckets, bucketCount, count, pool, children, allocs>>
  BY DEF SetVersion, links, table
<1>2. meta' \in [type : Strings \cup {NULL}, version : Versions \cup {0}]
  BY DEF SetVersion, IndInv, TypeOK
<1>3. TypeOK'
  BY <1>1, <1>2 DEF IndInv, TypeOK, Pointers
<1>4. ChainsDescend(bucketCount, buckets, hashNext)'
  BY <1>1 DEF IndInv, ChainsDescend, Slot
<1>5. KeysUnique' /\ ChildrenOwnedOnce' /\ DestroyFreesAll'
  BY <1>1 DEF IndInv, KeysUnique, ChildrenOwnedOnce, DestroyFreesAll
<1>6. live' \cup children' \subseteq 1 .. allocs' /\ (live' # {} => bucketCount' # 0)
      /\ count' = Cardinality(live')
  BY <1>1 DEF IndInv
<1>7. Ascending(live', first', orderNext', NULL) /\ Descending(live', last', orderPrev', NULL)
  BY <1>1 DEF IndInv
<1> QED BY <1>3, <1>4, <1>5, <1>6, <1>7 DEF IndInv

\* Freeing what the order list reaches frees every entry and every child.
LEMMA FreeKeeps ==
  ASSUME IndInv, FreeEntries, status \in {"ok"}, status' \in {"ok", "destroyed"},
         bucketCount' \in Nat, buckets' = [b \in 0 .. bucketCount' - 1 |-> NULL]
  PROVE  IndInv' /\ live' = {} /\ children' = {}
<1>1. live' = {} /\ children' = {}
  BY OrderIsLive DEF FreeEntries, Freed, IndInv, ChildrenOwnedOnce
<1>2. /\ keyless' = {} /\ count' = 0 /\ first' = NULL /\ last' = NULL
      /\ UNCHANGED <<meta, pool, allocs>>
  BY OrderIsLive DEF FreeEntries
<1>3. /\ key' \in [{} -> Keys] /\ val' \in [{} -> Values]
      /\ hashNext' \in [{} -> {NULL}]
      /\ orderNext' \in [{} -> {NULL}]
      /\ orderPrev' \in [{} -> {NULL}]
  BY OrderIsLive DEF FreeEntries
<1>4. TypeOK'
  BY <1>1, <1>2, <1>3 DEF TypeOK, IndInv, Pointers
<1>5. /\ Ascending({}, NULL, orderNext', NULL)
      /\ Descending({}, NULL, orderPrev', NULL)
      /\ Descending({}, NULL, hashNext', NULL)
  BY DEF Ascending, Descending
<1>6. ChainsDescend(bucketCount, buckets, hashNext)'
  BY <1>1, <1>5 DEF ChainsDescend
<1>7. count' = Cardinality(live')
  BY <1>1, <1>2, FS_EmptySet
<1>8. KeysUnique' /\ ChildrenOwnedOnce' /\ DestroyFreesAll'
  BY <1>1 DEF KeysUnique, ChildrenOwnedOnce, DestroyFreesAll
<1> QED BY <1>1, <1>2, <1>4, <1>5, <1>6, <1>7, <1>8 DEF IndInv

LEMMA ClearKeeps ==
  ASSUME IndInv, Clear
  PROVE  IndInv' /\ live' = {} /\ children' = {}
BY FreeKeeps DEF Clear, IndInv, TypeOK

LEMMA DestroyKeeps ==
  ASSUME IndInv, Destroy
  PROVE  IndInv' /\ live' = {} /\ children' = {}
<1>1. EmptyFcn = [b \in 0 .. 0 - 1 |-> NULL]
  BY DEF EmptyFcn
<1> QED BY <1>1, FreeKeeps DEF Destroy

\* A removal unlinks its entry from the chain and from the order list, and the
\* node visited before it is the one that led to it.
LEMMA RemoveKeeps ==
  ASSUME IndInv, NEW k \in Keys, RemoveKey(k)
  PROVE  IndInv'
<1> DEFINE Effect(d) ==
             LET rest == live \ {d}
                 prev == {f \in Probe(k) : hashNext[f] = d}
             IN
             /\ buckets' = IF prev = {}
                           THEN [buckets EXCEPT ![Slot(k, bucketCount)] = hashNext[d]]
                           ELSE buckets
             /\ hashNext' = [f \in rest |-> IF f \in prev THEN hashNext[d] ELSE hashNext[f]]
             /\ orderNext' = [f \in rest |-> IF f = orderPrev[d] THEN orderNext[d]
                                             ELSE orderNext[f]]
             /\ orderPrev' = [f \in rest |-> IF f = orderNext[d] THEN orderPrev[d]
                                             ELSE orderPrev[f]]
             /\ first' = IF orderPrev[d] = NULL THEN orderNext[d] ELSE first
             /\ last' = IF orderNext[d] = NULL THEN orderPrev[d] ELSE last
             /\ children' = children \ OwnedBy(val[d])
             /\ live' = rest
             /\ key' = [f \in rest |-> key[f]]
             /\ val' = [f \in rest |-> val[f]]
<1>1. PICK d \in Find(k) : Effect(d)
  BY DEF RemoveKey, Freed, LastWithout
<1> DEFINE rest == live \ {d}
           prev == {f \in Probe(k) : hashNext[f] = d}
           n == bucketCount
           b == Slot(k, n)
<1>2. /\ ~Traps(k) /\ count' = count - 1 /\ status = "ok"
      /\ UNCHANGED <<status, keyless, bucketCount, meta, pool, allocs>>
  BY DEF RemoveKey
<1>3. d \in live /\ d \notin keyless /\ key[d] = k /\ d \in Probe(k)
  BY DEF Find, Matching
<1>4. /\ IsFiniteSet(live) /\ live \in SUBSET Int /\ NULL \notin live
      /\ n \in Nat \ {0} /\ b \in 0 .. n - 1
  <2>1. n \in Nat \ {0}
    BY <1>3 DEF IndInv, TypeOK
  <2> QED BY <2>1, LiveIsFinite, HashAssumption DEF Slot, IndInv
<1> DEFINE D(c) == {f \in live : Slot(key[f], n) = c}
<1>5. \A c \in 0 .. n - 1 : Descending(D(c), buckets[c], hashNext, NULL)
  BY DEF IndInv, ChainsDescend
<1>6. \A f \in live : Slot(key[f], n) \in 0 .. n - 1
  BY <1>4, HashAssumption DEF Slot, IndInv, TypeOK
<1>7. \A f \in live : hashNext[f] = d => f \in D(b)
  <2> SUFFICES ASSUME NEW f \in live, hashNext[f] = d  PROVE f \in D(b)
    OBVIOUS
  <2> DEFINE c == Slot(key[f], n)
  <2>1. f \in D(c) /\ c \in 0 .. n - 1 /\ Descending(D(c), buckets[c], hashNext, NULL)
    BY <1>5, <1>6
  <2>2. d # NULL
    BY <1>3, <1>4
  <2>3. hashNext[f] \in D(c)
    <3> HIDE DEF D, c
    <3> QED BY <2>1, <2>2 DEF Descending
  <2> QED BY <2>1, <2>3, <1>3
<1>8. D(b) \in SUBSET live /\ d \in D(b) /\ HeadOf(k) = buckets[b]
  BY <1>3, <1>4 DEF HeadOf
<1>9. Probe(k) \subseteq D(b)
  <2> HIDE DEF D, b
  <2> QED BY <1>4, <1>5, <1>8, DescendingSearch DEF Probe
<1>10. d = buckets[b] => \A f \in live : hashNext[f] # d
  <2>1. ASSUME d = buckets[b], NEW f \in live, hashNext[f] = d  PROVE FALSE
    <3>1. f \in D(b) /\ f \in Int /\ d \in Int
      BY <2>1, <1>7, <1>4, <1>3
    <3>2. d < f /\ f <= d
      <4>1. hashNext[f] # NULL /\ d \in D(b)
        BY <2>1, <1>3, <1>4
      <4> HIDE DEF D, b
      <4> QED BY <4>1, <3>1, <2>1, <1>5, <1>4 DEF Descending
    <3> QED BY <3>1, <3>2
  <2> QED BY <2>1
<1>11. d # buckets[b] => \E g \in Probe(k) : hashNext[g] = d
  BY <1>3, <1>8, VisitedHasReason DEF Probe
<1>12. \A f \in live : f \in prev <=> hashNext[f] = d
  <2> SUFFICES ASSUME NEW f \in live, hashNext[f] = d  PROVE f \in Probe(k)
    OBVIOUS
  <2>1. PICK g \in Probe(k) : hashNext[g] = d
    BY <1>10, <1>11
  <2>2. f \in D(b) /\ g \in D(b) /\ d \in D(b) /\ D(b) \in SUBSET Int
    BY <1>4, <1>7, <1>8, <1>9, <2>1
  <2>3. f = g
    <3> HIDE DEF D, b
    <3> QED BY <2>1, <2>2, <1>4, <1>5, NullAssumption, DescendingInjective
  <2> QED BY <2>1, <2>3
<1>13. prev = {} <=> d = buckets[b]
  BY <1>9, <1>10, <1>11
<1>14. /\ buckets' = IF prev = {} THEN [buckets EXCEPT ![b] = hashNext[d]] ELSE buckets
       /\ hashNext' = [f \in rest |-> IF f \in prev THEN hashNext[d] ELSE hashNext[f]]
       /\ orderNext' = [f \in rest |-> IF f = orderPrev[d] THEN orderNext[d] ELSE orderNext[f]]
       /\ orderPrev' = [f \in rest |-> IF f = orderNext[d] THEN orderPrev[d] ELSE orderPrev[f]]
       /\ first' = IF orderPrev[d] = NULL THEN orderNext[d] ELSE first
       /\ last' = IF orderNext[d] = NULL THEN orderPrev[d] ELSE last
       /\ children' = children \ OwnedBy(val[d])
       /\ live' = rest
       /\ key' = [f \in rest |-> key[f]]
       /\ val' = [f \in rest |-> val[f]]
  BY <1>1
<1>15. /\ Ascending(live, first, orderNext, NULL)
       /\ Descending(live, last, orderPrev, NULL)
       /\ \A e, f \in live : orderNext[e] = f <=> orderPrev[f] = e
       /\ \A e \in live : orderNext[e] = NULL <=> e = last
       /\ \A e \in live : orderPrev[e] = NULL <=> e = first
  <2>1. Ascending(live, first, orderNext, NULL) /\ Descending(live, last, orderPrev, NULL)
    BY DEF IndInv
  <2>2. live \in SUBSET Int /\ NULL \notin Int
    BY <1>4, NullAssumption
  <2> HIDE DEF D, b, n, rest, prev
  <2>3. Mirrors(live, first, orderNext, last, orderPrev, NULL)
    BY <2>1, <2>2, Mirror
  <2> QED BY <2>1, <2>3 DEF Mirrors
<1>16. Ascending(live', first', orderNext', NULL)
  <2>1. \A f \in rest : orderNext'[f] = IF orderNext[f] = d THEN orderNext[d] ELSE orderNext[f]
    BY <1>3, <1>14, <1>15
  <2>2. first' = IF first = d THEN orderNext[d] ELSE first
    BY <1>3, <1>14, <1>15
  <2>3. live \in SUBSET Int /\ NULL \notin Int /\ d \in live /\ Ascending(live, first, orderNext, NULL)
    BY <1>3, <1>4, <1>15, NullAssumption
  <2>4. Ascending(live \ {d}, IF first = d THEN orderNext[d] ELSE first, orderNext', NULL)
    BY <2>1, <2>3, AscendingUnlink
  <2> QED BY <2>2, <2>4, <1>14
<1>17. Descending(live', last', orderPrev', NULL)
  <2>1. \A f \in rest : orderPrev'[f] = IF orderPrev[f] = d THEN orderPrev[d] ELSE orderPrev[f]
    BY <1>3, <1>14, <1>15
  <2>2. last' = IF last = d THEN orderPrev[d] ELSE last
    BY <1>3, <1>14, <1>15
  <2>3. live \in SUBSET Int /\ NULL \notin Int /\ d \in live /\ Descending(live, last, orderPrev, NULL)
    BY <1>3, <1>4, <1>15, NullAssumption
  <2>4. Descending(live \ {d}, IF last = d THEN orderPrev[d] ELSE last, orderPrev', NULL)
    BY <2>1, <2>3, DescendingUnlink
  <2> QED BY <2>2, <2>4, <1>14
<1>18. ASSUME NEW c \in 0 .. n - 1
       PROVE  Descending(D(c) \ {d}, buckets'[c], hashNext', NULL)
  <2>1. \A f \in rest : hashNext'[f] = IF hashNext[f] = d THEN hashNext[d] ELSE hashNext[f]
    BY <1>12, <1>14
  <2>2. Descending(D(c), buckets[c], hashNext, NULL) /\ D(c) \in SUBSET Int
    BY <1>4, <1>5
  <2>3. CASE c = b
    <3>1. buckets'[c] = IF buckets[c] = d THEN hashNext[d] ELSE buckets[c]
      BY <1>4, <1>13, <1>14, <2>3 DEF IndInv, TypeOK
    <3>2. d \in D(c) /\ \A f \in D(c) \ {d} :
             hashNext'[f] = IF hashNext[f] = d THEN hashNext[d] ELSE hashNext[f]
      BY <1>8, <2>1, <2>3
    <3> HIDE DEF D, b, n
    <3>3. Descending(D(c) \ {d}, IF buckets[c] = d THEN hashNext[d] ELSE buckets[c],
                     hashNext', NULL)
      BY <2>2, <3>2, NullAssumption, DescendingUnlink
    <3> QED BY <3>1, <3>3
  <2>4. CASE c # b
    <3>1. buckets'[c] = buckets[c]
      BY <1>4, <1>14, <2>4 DEF IndInv, TypeOK
    <3>2. D(c) \ {d} = D(c) /\ \A f \in D(c) : f \in rest /\ hashNext[f] # d
      BY <1>3, <1>7, <2>4
    <3>3. \A f \in D(c) : hashNext'[f] = hashNext[f]
      BY <2>1, <3>2
    <3> HIDE DEF D, b, n
    <3>4. Descending(D(c), buckets[c], hashNext', NULL)
      BY <2>2, <3>3, DescendingAgree
    <3> QED BY <3>1, <3>2, <3>4
  <2> QED BY <2>3, <2>4
<1>19. ChainsDescend(bucketCount, buckets, hashNext)'
  <2>1. \A c : {f \in live' : Slot(key'[f], n) = c} = D(c) \ {d}
    BY <1>14
  <2>2. \A c \in 0 .. n - 1 :
           Descending({f \in live' : Slot(key'[f], n) = c}, buckets'[c], hashNext', NULL)
    <3> HIDE DEF D
    <3> QED BY <2>1, <1>18
  <2> QED BY <2>2, <1>2 DEF ChainsDescend, Slot
<1>20. TypeOK'
  <2>1. live' \subseteq Blocks /\ keyless' \subseteq live' /\ children' \subseteq Blocks
    BY <1>2, <1>3, <1>14 DEF IndInv, TypeOK
  <2>2. key' \in [live' -> Keys] /\ val' \in [live' -> Values]
    BY <1>14 DEF IndInv, TypeOK
  <2>3. hashNext' \in [live' -> Pointers(live')]
    <3>1. ASSUME NEW f \in rest  PROVE hashNext'[f] \in Pointers(rest)
      <4> DEFINE c == Slot(key[f], n)
      <4>1. f \in D(c) \ {d} /\ c \in 0 .. n - 1 /\ D(c) \ {d} \subseteq rest
        BY <1>6
      <4> HIDE DEF D, c
      <4>2. hashNext'[f] \in (D(c) \ {d}) \cup {NULL}
        BY <4>1, <1>18, DescendingTyped
      <4> QED BY <4>1, <4>2 DEF Pointers
    <3> QED BY <3>1, <1>14
  <2>4. buckets' \in [0 .. n - 1 -> Pointers(live')]
    <3>1. buckets' = [c \in 0 .. n - 1 |-> buckets'[c]]
      BY <1>14 DEF IndInv, TypeOK
    <3>2. ASSUME NEW c \in 0 .. n - 1  PROVE buckets'[c] \in Pointers(rest)
      <4>1. D(c) \ {d} \subseteq rest
        OBVIOUS
      <4> HIDE DEF D
      <4>2. buckets'[c] \in (D(c) \ {d}) \cup {NULL}
        BY <1>18, DescendingTyped
      <4> QED BY <4>1, <4>2 DEF Pointers
    <3> HIDE DEF n, rest
    <3> QED BY <3>1, <3>2, <1>14
  <2>5. /\ orderNext' \in [live' -> Pointers(live')] /\ first' \in Pointers(live')
        /\ orderPrev' \in [live' -> Pointers(live')] /\ last' \in Pointers(live')
    BY <1>14, <1>16, <1>17, AscendingTyped, DescendingTyped DEF Pointers
  <2>6. count' \in Nat
    <3>1. count = Cardinality(live) /\ Cardinality(live) # 0
      BY <1>3, <1>4, FS_EmptySet DEF IndInv
    <3> QED BY <3>1, <1>2 DEF IndInv, TypeOK
  <2> QED BY <2>1, <2>2, <2>3, <2>4, <2>5, <2>6, <1>2 DEF IndInv, TypeOK
<1>21. count' = Cardinality(live')
  BY <1>2, <1>3, <1>4, <1>14, FS_RemoveElement DEF IndInv
<1>22. KeysUnique' /\ DestroyFreesAll'
  BY <1>2, <1>14 DEF KeysUnique, IndInv, DestroyFreesAll
<1>23. ChildrenOwnedOnce'
  <2>1. \A f \in live' : val'[f] = val[f]
    BY <1>14
  <2>2. /\ children = UNION {OwnedBy(val[f]) : f \in live}
        /\ \A f, g \in live : f # g => OwnedBy(val[f]) \cap OwnedBy(val[g]) = {}
    BY DEF IndInv, ChildrenOwnedOnce
  <2>3. children' = UNION {OwnedBy(val[f]) : f \in live'}
    BY SMTT(60), <2>2, <1>3, <1>14
  <2> QED BY <2>1, <2>2, <2>3, <1>14 DEF ChildrenOwnedOnce
<1>24. live' \cup children' \subseteq 1 .. allocs' /\ (live' # {} => bucketCount' # 0)
  BY <1>2, <1>4, <1>14 DEF IndInv
<1> QED BY <1>16, <1>17, <1>19, <1>20, <1>21, <1>22, <1>23, <1>24 DEF IndInv

-----------------------------------------------------------------------------
LEMMA InitIsSound == Init => IndInv
<1> SUFFICES ASSUME Init  PROVE IndInv
  OBVIOUS
<1>1. /\ key \in [{} -> Keys] /\ val \in [{} -> Values]
      /\ hashNext \in [{} -> {NULL}] /\ orderNext \in [{} -> {NULL}]
      /\ orderPrev \in [{} -> {NULL}] /\ buckets \in [0 .. 0 - 1 -> {NULL}]
  BY DEF Init, EmptyFcn
<1>2. TypeOK
  BY <1>1, SizeAssumption DEF Init, TypeOK, Pointers
<1>3. Ascending({}, NULL, orderNext, NULL) /\ Descending({}, NULL, orderPrev, NULL)
  BY DEF Ascending, Descending
<1>4. ChainsDescend(bucketCount, buckets, hashNext)
  BY DEF Init, ChainsDescend
<1>5. count = Cardinality(live)
  BY FS_EmptySet DEF Init
<1> QED BY <1>2, <1>3, <1>4, <1>5
        DEF Init, IndInv, KeysUnique, ChildrenOwnedOnce, DestroyFreesAll

\* Every call of the API keeps the structure sound.
LEMMA NextKeepsSound ==
  ASSUME IndInv, [Next]_vars
  PROVE  IndInv'
<1>1. CASE \E k \in Keys : SetScalar(k) \/ SetString(k) \/ AddContainer(k)
  <2> PICK k \in Keys : SetScalar(k) \/ SetString(k) \/ AddContainer(k)
    BY <1>1
  <2>1. \E type, arg : /\ ArgOK(type, arg)
                       /\ Replace(k, type, arg) \/ InsertNew(k, type, arg)
    BY DEF SetScalar, SetString, AddContainer, ArgOK
  <2> QED BY <2>1, ReplaceKeeps, InsertNewKeeps
<1>2. CASE \E k \in Keys : InsertNoMemory(k)
  BY <1>2, InsertNoMemoryKeeps
<1>3. CASE \E k \in Keys : InsertTraps(k) \/ LookupTraps(k)
  BY <1>3, TrapKeeps DEF InsertTraps, LookupTraps
<1>4. CASE \E k \in Keys : RemoveKey(k)
  BY <1>4, RemoveKeeps
<1>5. CASE Clear \/ Destroy
  BY <1>5, ClearKeeps, DestroyKeeps
<1>6. CASE \E t \in Strings \cup {NULL} : SetType(t)
  BY <1>6, SetTypeKeeps
<1>7. CASE \E n \in Versions : SetVersion(n)
  BY <1>7, SetVersionKeeps
<1>8. CASE UNCHANGED vars
  <2>1. UNCHANGED <<status, live, key, val, keyless, orderNext, orderPrev, first, last,
                    hashNext, buckets, bucketCount, count, meta, pool, children, allocs>>
    BY <1>8 DEF vars, links, table
  <2>2. TypeOK'
    BY <2>1 DEF IndInv, TypeOK, Pointers
  <2>3. ChainsDescend(bucketCount, buckets, hashNext)'
    BY <2>1 DEF IndInv, ChainsDescend, Slot
  <2>4. KeysUnique' /\ ChildrenOwnedOnce' /\ DestroyFreesAll'
    BY <2>1 DEF IndInv, KeysUnique, ChildrenOwnedOnce, DestroyFreesAll
  <2>5. /\ live' \cup children' \subseteq 1 .. allocs' /\ (live' # {} => bucketCount' # 0)
        /\ count' = Cardinality(live')
        /\ Ascending(live', first', orderNext', NULL)
        /\ Descending(live', last', orderPrev', NULL)
    BY <2>1 DEF IndInv
  <2> QED BY <2>2, <2>3, <2>4, <2>5 DEF IndInv
<1> QED BY <1>1, <1>2, <1>3, <1>4, <1>5, <1>6, <1>7, <1>8 DEF Next

\* The inductive invariant holds in every state that calls can reach, even
\* when any of their allocations failed.
THEOREM StructureSound == Spec => []IndInv
<1>1. Init => IndInv
  BY InitIsSound
<1>2. IndInv /\ [Next]_vars => IndInv'
  BY NextKeepsSound
<1> QED BY <1>1, <1>2, PTL DEF Spec

\* The variables keep their types; in particular no pointer ever dangles.
THEOREM TypesCorrect == Spec => []TypeOK
<1>1. IndInv => TypeOK
  BY DEF IndInv
<1> QED BY <1>1, StructureSound, PTL

\* The order list part of what the inductive invariant implies.
LEMMA OrderListFromInd ==
  ASSUME IndInv
  PROVE  OrderListSound
<1>1. live \in SUBSET Int /\ NULL \notin Int /\ NULL \notin live
  BY LiveIsFinite, NullAssumption DEF IndInv
<1>2. Ascending(live, first, orderNext, NULL) /\ Descending(live, last, orderPrev, NULL)
  BY DEF IndInv
<1>3. Mirrors(live, first, orderNext, last, orderPrev, NULL)
  BY <1>1, <1>2, Mirror
<1>4. last = Latest(live)
  <2>1. IF live = {} THEN Latest(live) = NULL
        ELSE Latest(live) \in live /\ \A f \in live : f <= Latest(live)
    BY LatestIsGreatest
  <2>2. IF live = {} THEN last = NULL ELSE last \in live /\ \A f \in live : f <= last
    BY <1>2 DEF Descending
  <2>3. \A x, y \in live : (x <= y /\ y <= x) => x = y
    BY <1>1
  <2> QED BY <2>1, <2>2, <2>3
<1>5. \A e \in live : orderNext[e] \in Pointers(live)
  BY DEF IndInv, TypeOK
<1>6. \A e \in live : /\ orderNext[e] # NULL => orderPrev[orderNext[e]] = e
                      /\ orderPrev[e] = NULL <=> e = first
  BY <1>3, <1>5 DEF Mirrors, Pointers
<1>7. Order = live
  BY OrderIsLive
<1>8. count = Cardinality(live)
  BY DEF IndInv
<1> QED BY <1>4, <1>6, <1>7, <1>8 DEF OrderListSound

\* The chain part.
LEMMA ChainsFromInd ==
  ASSUME IndInv
  PROVE  ChainsSound
<1> SUFFICES ASSUME NEW b \in DOMAIN buckets
             PROVE  Visited(live, buckets[b], hashNext, {})
                      = {e \in live : Slot(key[e], bucketCount) = b}
  BY DEF ChainsSound
<1> DEFINE D == {e \in live : Slot(key[e], bucketCount) = b}
<1>1. Descending(D, buckets[b], hashNext, NULL)
  BY DEF IndInv, TypeOK, ChainsDescend
<1>2. IsFiniteSet(live) /\ live \in SUBSET Int /\ NULL \notin live /\ D \in SUBSET live
  BY LiveIsFinite DEF IndInv
<1> HIDE DEF D
<1>3. Visited(live, buckets[b], hashNext, {}) = D
  BY <1>1, <1>2, DescendingWalk
<1> QED BY <1>3 DEF D

\* The order list reaches every entry, mirrors itself and is counted right
\* (kdf_object.c:114-126, 461-480).
THEOREM OrderListCorrect == Spec => []OrderListSound
<1>1. IndInv => OrderListSound
  BY OrderListFromInd
<1> QED BY <1>1, StructureSound, PTL

\* Every entry is in the chain of its slot and in no other, before and after a
\* rehash (kdf_object.c:49-54, 110-112, 452-460).
THEOREM ChainsCorrect == Spec => []ChainsSound
<1>1. IndInv => ChainsSound
  BY ChainsFromInd
<1> QED BY <1>1, StructureSound, PTL

\* A key is overwritten, never shadowed (kdf_object.c:84-92).
THEOREM KeysStayUnique == Spec => []KeysUnique
<1>1. IndInv => KeysUnique
  BY DEF IndInv
<1> QED BY <1>1, StructureSound, PTL

\* No child leaks, none is freed twice, none is shared (kdf_value.c:163-188).
THEOREM ChildrenStayOwned == Spec => []ChildrenOwnedOnce
<1>1. IndInv => ChildrenOwnedOnce
  BY DEF IndInv
<1> QED BY <1>1, StructureSound, PTL

\* Destroying an object frees all its blocks (kdf_object.c:18-37).
THEOREM NothingLeaks == Spec => []DestroyFreesAll
<1>1. IndInv => DestroyFreesAll
  BY DEF IndInv
<1> QED BY <1>1, StructureSound, PTL

\* A call disturbs at most one entry of an object that it does not empty
\* (kdf_object.c:41-62, 79-129, 158-341, 438-507).
THEOREM HandlesStayStable == Spec => HandlesStable
<1> DEFINE Undisturbed == \/ live' = {}
                          \/ \E d \in live \cup live' : \A e \in live \ {d} :
                               e \in live' /\ key'[e] = key[e] /\ val'[e] = val[e]
<1>1. ASSUME IndInv, Next  PROVE Undisturbed \/ UNCHANGED vars
  <2>1. ASSUME UNCHANGED <<live, key, val>>  PROVE Undisturbed
    BY <2>1
  <2>2. ASSUME NEW k, NEW type, NEW arg, Replace(k, type, arg)  PROVE Undisturbed
    <3>1. PICK d \in Find(k), r \in Payloads(type, arg, Fresh, pool) :
            val' = [val EXCEPT ![d] = [type |-> type, as |-> r.as]]
      BY <2>2 DEF Replace
    <3>2. d \in live /\ live' = live /\ key' = key
      BY <2>2 DEF Replace, Find, Matching
    <3>3. \A e \in live \ {d} : val'[e] = val[e]
      BY <1>1, <3>1 DEF IndInv, TypeOK
    <3> QED BY <3>2, <3>3
  <2>3. ASSUME NEW k, NEW type, NEW arg, InsertNew(k, type, arg)  PROVE Undisturbed
    <3>1. /\ live' = live \cup {Fresh}
          /\ \E v : val' = [f \in live \cup {Fresh} |-> IF f = Fresh THEN v ELSE val[f]]
          /\ key' = [f \in live \cup {Fresh} |-> IF f = Fresh THEN k ELSE key[f]]
      BY <2>3 DEF InsertNew, Link
    <3>2. \A e \in live \ {Fresh} : e \in live' /\ key'[e] = key[e] /\ val'[e] = val[e]
      BY <3>1
    <3> QED BY <3>1, <3>2
  <2>4. ASSUME NEW k, RemoveKey(k)  PROVE Undisturbed
    <3>1. PICK d \in Find(k) : /\ live' = live \ {d}
                               /\ key' = [f \in live \ {d} |-> key[f]]
                               /\ val' = [f \in live \ {d} |-> val[f]]
      BY <2>4 DEF RemoveKey
    <3>2. d \in live
      BY DEF Find, Matching
    <3> QED BY <3>1, <3>2
  <2>5. ASSUME Clear \/ Destroy  PROVE Undisturbed
    <3>1. live' = live \ Order
      BY <2>5 DEF Clear, Destroy, FreeEntries
    <3> QED BY <1>1, <3>1, OrderIsLive
  <2>6. ASSUME NEW k \in Keys, SetScalar(k) \/ SetString(k) \/ AddContainer(k)
        PROVE  Undisturbed
    BY <2>2, <2>3, <2>6 DEF SetScalar, SetString, AddContainer
  <2>7. ASSUME NEW k \in Keys, InsertNoMemory(k) \/ InsertTraps(k) \/ LookupTraps(k)
        PROVE  Undisturbed
    BY <2>1, <2>7 DEF InsertNoMemory, InsertTraps, LookupTraps, Trap
  <2>8. ASSUME \/ \E t \in Strings \cup {NULL} : SetType(t)
               \/ \E n \in Versions : SetVersion(n)
        PROVE  Undisturbed
    BY <2>1, <2>8 DEF SetType, SetVersion
  <2> HIDE DEF Undisturbed
  <2> QED BY <1>1, <2>4, <2>5, <2>6, <2>7, <2>8 DEF Next
<1>2. IndInv /\ [Next]_vars => [Undisturbed]_vars
  BY <1>1
<1> QED BY <1>2, StructureSound, PTL DEF Spec, HandlesStable

-----------------------------------------------------------------------------
\* What holds as long as every allocation succeeds.
Supplied == /\ keyless = {} /\ NoFault
            /\ LoadBounded

\* Without a failing allocation a name is always pooled.
LEMMA InternSucceeds ==
  ASSUME ~AllocFails, NEW s, s # NULL, NEW p, NEW q \in AfterIntern(s, p)
  PROVE  s \in q
BY DEF AfterIntern, Outcomes

\* A table that is not too full before an insertion is not after it.
LEMMA InsertKeepsLoad ==
  ASSUME ~AllocFails, IndInv, Supplied, NEW k \in Keys, NEW type, NEW arg,
         InsertNew(k, type, arg)
  PROVE  Supplied'
<1>1. PICK grown \in GrowOutcomes, named \in AfterIntern(k, pool) :
        /\ TableSize(grown) # 0
        /\ bucketCount' = TableSize(grown)
        /\ keyless' = IF k \in named THEN keyless ELSE keyless \cup {Fresh}
  BY DEF InsertNew, Link
<1>2. k \in named
  BY InternSucceeds, NullAssumption
<1>3. grown = NeedGrow
  BY DEF GrowOutcomes, Outcomes, NeedGrow
<1>4. /\ bucketCount \in Nat /\ count \in Nat
      /\ bucketCount = 0 => count = 0
      /\ InitBuckets \in Nat /\ InitBuckets >= 2
  BY SizeAssumption, FS_EmptySet DEF IndInv, TypeOK
<1>5. count' = count + 1 /\ status' = status
  BY DEF InsertNew, Link
<1>6. LoadBounded'
  <2>1. CASE ~NeedGrow
    <3>1. bucketCount' = bucketCount /\ ~(count >= (bucketCount * 3) \div 4)
      BY <1>1, <1>3, <2>1 DEF NeedGrow, TableSize
    <3>2. count + 1 <= (bucketCount * 3) \div 4
      BY <1>4, <3>1
    <3> QED BY <1>5, <3>1, <3>2 DEF LoadBounded
  <2>2. CASE NeedGrow /\ bucketCount = 0
    BY <1>1, <1>3, <1>4, <1>5, <2>2 DEF NewSize, TableSize, LoadBounded
  <2>3. CASE NeedGrow /\ bucketCount # 0
    <3>1. bucketCount' = 2 * bucketCount /\ count <= (bucketCount * 3) \div 4
      BY <1>1, <1>3, <1>4, <2>3 DEF NewSize, TableSize, LoadBounded, Supplied
    <3> QED BY <3>1, <1>4, <1>5, <2>3 DEF LoadBounded
  <2> QED BY <2>1, <2>2, <2>3
<1> QED BY <1>1, <1>2, <1>5, <1>6 DEF Supplied, NoFault

\* Every call keeps it.
LEMMA NextKeepsSupplied ==
  ASSUME ~AllocFails, IndInv, Supplied, [Next]_vars
  PROVE  Supplied'
<1>1. ASSUME UNCHANGED <<status, keyless, count, bucketCount>>  PROVE Supplied'
  BY <1>1 DEF Supplied, NoFault, LoadBounded
<1>2. ASSUME NEW k \in Keys, SetScalar(k) \/ SetString(k) \/ AddContainer(k)
      PROVE  Supplied'
  <2>1. \E type, arg : Replace(k, type, arg) \/ InsertNew(k, type, arg)
    BY <1>2 DEF SetScalar, SetString, AddContainer
  <2>2. ASSUME NEW type, NEW arg, Replace(k, type, arg)  PROVE Supplied'
    BY <1>1, <2>2 DEF Replace, table
  <2> QED BY <2>1, <2>2, InsertKeepsLoad
<1>3. ASSUME NEW k \in Keys, InsertNoMemory(k) \/ InsertTraps(k) \/ LookupTraps(k)
      PROVE  FALSE
  <2>1. \A grown \in GrowOutcomes : grown = NeedGrow
    BY DEF GrowOutcomes, Outcomes, NeedGrow
  <2>2. bucketCount \in Nat /\ NewSize # 0
    BY SizeAssumption DEF IndInv, TypeOK, NewSize
  <2>3. \A grown \in GrowOutcomes : TableSize(grown) # 0
    BY <2>1, <2>2 DEF TableSize, NeedGrow
  <2>4. ~InsertTraps(k)
    BY <2>3 DEF InsertTraps, Supplied
  <2> QED BY <1>3, <2>4 DEF InsertNoMemory, LookupTraps, Traps, Outcomes, Supplied
<1>4. ASSUME NEW k \in Keys, RemoveKey(k)  PROVE Supplied'
  <2>1. /\ count' = count - 1 /\ UNCHANGED <<status, keyless, bucketCount>>
        /\ count \in Nat /\ bucketCount \in Nat
    BY <1>4 DEF RemoveKey, IndInv, TypeOK
  <2> QED BY <2>1 DEF Supplied, NoFault, LoadBounded
<1>5. ASSUME Clear \/ Destroy  PROVE Supplied'
  <2>1. /\ keyless' \subseteq keyless /\ count' = 0
        /\ bucketCount' \in {0, bucketCount} /\ status' \in {status, "destroyed"}
    BY <1>5 DEF Clear, Destroy, FreeEntries
  <2>2. bucketCount \in Nat
    BY DEF IndInv, TypeOK
  <2>3. \A n \in Nat : 0 <= (n * 3) \div 4
    OBVIOUS
  <2>4. bucketCount' \in Nat
    BY <2>1, <2>2
  <2>5. LoadBounded'
    BY <2>1, <2>3, <2>4 DEF LoadBounded
  <2>6. keyless' = {} /\ NoFault'
    BY <2>1 DEF Supplied, NoFault
  <2> QED BY <2>5, <2>6 DEF Supplied
<1>6. ASSUME \/ \E t \in Strings \cup {NULL} : SetType(t)
             \/ \E n \in Versions : SetVersion(n)
             \/ UNCHANGED vars
      PROVE  Supplied'
  BY <1>1, <1>6 DEF SetType, SetVersion, vars, table
<1> QED BY <1>2, <1>3, <1>4, <1>5, <1>6 DEF Next

\* If the allocator never fails, no call traps and no chain is overloaded.
THEOREM SuppliedHolds ==
  ASSUME ~AllocFails
  PROVE  Spec => []Supplied
<1>1. Init => Supplied
  BY DEF Init, Supplied, NoFault, LoadBounded
<1>2. IndInv /\ Supplied /\ [Next]_vars => Supplied'
  BY NextKeepsSupplied
<1> QED BY <1>1, <1>2, StructureSound, PTL DEF Spec

\* If the allocator never fails, no call divides by a bucket count of zero or
\* compares with a key that is not there (kdf_object.c:51, 71, 110).
THEOREM NothingTraps ==
  ASSUME ~AllocFails
  PROVE  Spec => []NoFault
<1>1. Supplied => NoFault
  BY DEF Supplied
<1> QED BY <1>1, SuppliedHolds, PTL

\* If the allocator never fails, the table grows in time (kdf_object.c:95-98).
THEOREM LoadStaysBounded ==
  ASSUME ~AllocFails
  PROVE  Spec => []LoadBounded
<1>1. Supplied => LoadBounded
  BY DEF Supplied
<1> QED BY <1>1, SuppliedHolds, PTL

-----------------------------------------------------------------------------
(* The elements of a finite set of numbers, in ascending order. *)
Rank(N, e) == Cardinality({f \in N : f < e}) + 1
Nth(N, i)  == CHOOSE e \in N : Rank(N, e) = i

\* Ranks count from 1, and a greater element has a greater one.
LEMMA RankAscends ==
  ASSUME NEW N \in SUBSET Int, IsFiniteSet(N)
  PROVE  /\ Cardinality(N) \in Nat
         /\ \A e \in N : Rank(N, e) \in 1 .. Cardinality(N)
         /\ \A e, f \in N : e < f => Rank(N, e) < Rank(N, f)
<1> DEFINE Low(e) == {f \in N : f < e}
<1>1. Cardinality(N) \in Nat
  BY FS_CardinalityType
<1>2. ASSUME NEW S \in SUBSET N
      PROVE  IsFiniteSet(S) /\ Cardinality(S) \in Nat /\ Cardinality(S) <= Cardinality(N)
  BY FS_Subset, FS_CardinalityType
<1>3. ASSUME NEW S \in SUBSET N, NEW T \in SUBSET S, NEW e \in S \ T
      PROVE  Cardinality(T) < Cardinality(S)
  <2>1. /\ IsFiniteSet(S) /\ Cardinality(S) \in Nat
        /\ IsFiniteSet(T) /\ Cardinality(T) \in Nat
    BY <1>2, <1>3
  <2>2. Cardinality(T) <= Cardinality(S) /\ Cardinality(S) # Cardinality(T)
    BY <1>3, <2>1, FS_Subset
  <2> QED BY <2>1, <2>2
<1>4. ASSUME NEW e \in N  PROVE e \in N \ Low(e)
  BY <1>4
<1>5. \A e \in N : Cardinality(Low(e)) \in Nat /\ Cardinality(Low(e)) < Cardinality(N)
  <2>1. \A e \in N : Low(e) \in SUBSET N
    OBVIOUS
  <2> HIDE DEF Low
  <2> QED BY <1>2, <1>3, <1>4, <2>1
<1>6. \A e, f \in N : e < f => Cardinality(Low(e)) < Cardinality(Low(f))
  <2>1. ASSUME NEW e \in N, NEW f \in N, e < f
        PROVE  Low(e) \in SUBSET Low(f) /\ e \in Low(f) \ Low(e) /\ Low(f) \in SUBSET N
    <3>1. e \in Int /\ f \in Int /\ \A g \in N : g \in Int
      OBVIOUS
    <3>2. \A g \in N : g < e => g < f
      BY <2>1, <3>1
    <3>3. ~ (e < e)
      BY <3>1
    <3> QED BY <2>1, <3>2, <3>3
  <2> HIDE DEF Low
  <2> QED BY <1>3, <2>1
<1>7. \A e \in N : Rank(N, e) = Cardinality(Low(e)) + 1
  BY DEF Rank
<1> HIDE DEF Low
<1> QED BY <1>1, <1>2, <1>5, <1>6, <1>7

\* So each rank is that of one element.
LEMMA NthHasRank ==
  ASSUME NEW N \in SUBSET Int, IsFiniteSet(N)
  PROVE  /\ Cardinality(N) \in Nat
         /\ \A i \in 1 .. Cardinality(N) : Nth(N, i) \in N /\ Rank(N, Nth(N, i)) = i
         /\ \A e \in N : Rank(N, e) \in 1 .. Cardinality(N) /\ Nth(N, Rank(N, e)) = e
<1> DEFINE n == Cardinality(N)
           r == [e \in N |-> Rank(N, e)]
<1>1. /\ n \in Nat
      /\ \A e \in N : Rank(N, e) \in 1 .. n
      /\ \A e, f \in N : e < f => Rank(N, e) < Rank(N, f)
  BY RankAscends
<1>2. \A e, f \in N : Rank(N, e) = Rank(N, f) => e = f
  <2>1. ASSUME NEW e \in N, NEW f \in N, Rank(N, e) = Rank(N, f), e # f  PROVE FALSE
    <3>1. e < f \/ f < e
      BY <2>1
    <3>2. Rank(N, e) \in Nat /\ Rank(N, f) \in Nat
      BY <1>1
    <3> QED BY <1>1, <2>1, <3>1, <3>2
  <2> QED BY <2>1
<1>3. IsFiniteSet(1 .. n) /\ Cardinality(1 .. n) = n
  BY <1>1, FS_Interval
<1>4. r \in Injection(N, 1 .. n)
  BY <1>1, <1>2 DEF Injection, IsInjective
<1>5. r \in Surjection(N, 1 .. n)
  <2> HIDE DEF r
  <2> QED BY <1>3, <1>4, FS_Injection DEF n
<1>6. \A i \in 1 .. n : \E e \in N : Rank(N, e) = i
  BY <1>5 DEF Surjection
<1>7. \A i \in 1 .. n : Nth(N, i) \in N /\ Rank(N, Nth(N, i)) = i
  BY <1>6 DEF Nth
<1>8. \A e \in N : Nth(N, Rank(N, e)) = e
  BY <1>1, <1>2, <1>7
<1> QED BY <1>1, <1>7, <1>8

\* A greatest element comes last.
LEMMA NthOfMore ==
  ASSUME NEW N \in SUBSET Int, IsFiniteSet(N), NEW e \in Int, \A f \in N : f < e
  PROVE  /\ Cardinality(N \cup {e}) = Cardinality(N) + 1
         /\ \A i \in 1 .. Cardinality(N) + 1 :
              Nth(N \cup {e}, i) = IF i <= Cardinality(N) THEN Nth(N, i) ELSE e
<1> DEFINE M == N \cup {e}
           n == Cardinality(N)
<1>1. ~ (e < e) /\ e \notin N
  OBVIOUS
<1>2. n \in Nat /\ IsFiniteSet(M) /\ Cardinality(M) = n + 1 /\ M \in SUBSET Int
  BY <1>1, FS_AddElement, FS_CardinalityType
<1>3. Rank(M, e) = n + 1
  <2>1. {f \in M : f < e} = N
    BY <1>1
  <2> QED BY <2>1 DEF Rank
<1>4. \A f \in N : Rank(M, f) = Rank(N, f)
  <2>1. \A f \in N : {g \in M : g < f} = {g \in N : g < f}
    <3>1. \A f \in N : ~ (e < f)
      OBVIOUS
    <3> QED BY <3>1
  <2> QED BY <2>1 DEF Rank
<1>5. \A i \in 1 .. n : Nth(N, i) \in N /\ Rank(N, Nth(N, i)) = i
  BY NthHasRank
<1>6. \A f \in M : Nth(M, Rank(M, f)) = f
  <2> HIDE DEF M
  <2> QED BY <1>2, NthHasRank
<1>7. ASSUME NEW i \in 1 .. n + 1
      PROVE  Nth(M, i) = IF i <= n THEN Nth(N, i) ELSE e
  <2>1. CASE i <= n
    <3>1. i \in 1 .. n
      BY <1>2, <2>1
    <3> QED BY <1>4, <1>5, <1>6, <2>1, <3>1
  <2>2. CASE ~ (i <= n)
    <3>1. i = n + 1
      BY <1>2, <2>2
    <3> QED BY <1>3, <1>6, <2>2, <3>1
  <2> QED BY <2>1, <2>2
<1> QED BY <1>2, <1>7

\* Without an element the others move up.
LEMMA NthOfLess ==
  ASSUME NEW N \in SUBSET Int, IsFiniteSet(N), NEW d \in N
  PROVE  /\ Cardinality(N \ {d}) = Cardinality(N) - 1
         /\ \A i \in 1 .. Cardinality(N) - 1 :
              Nth(N \ {d}, i) = IF i < Rank(N, d) THEN Nth(N, i) ELSE Nth(N, i + 1)
<1> DEFINE M == N \ {d}
           n == Cardinality(N)
           r == Rank(N, d)
<1>1. /\ n \in Nat /\ r \in 1 .. n
      /\ \A i \in 1 .. n : Nth(N, i) \in N /\ Rank(N, Nth(N, i)) = i
      /\ \A e, f \in N : e < f => Rank(N, e) < Rank(N, f)
      /\ \A e \in N : Rank(N, e) \in 1 .. n
  BY NthHasRank, RankAscends
<1>2. IsFiniteSet(M) /\ Cardinality(M) = n - 1 /\ M \in SUBSET Int
  BY FS_RemoveElement
<1>3. \A f \in M : Nth(M, Rank(M, f)) = f
  <2> HIDE DEF M
  <2> QED BY <1>2, NthHasRank
<1>4. \A f \in M : f < d => Rank(M, f) = Rank(N, f)
  <2>1. \A f \in M : f < d => {g \in M : g < f} = {g \in N : g < f}
    <3>1. \A f \in M : f < d => ~ (d < f)
      OBVIOUS
    <3> QED BY <3>1
  <2> QED BY <2>1 DEF Rank
<1>5. \A f \in M : d < f => Rank(M, f) = Rank(N, f) - 1
  <2>1. ASSUME NEW f \in M, d < f
        PROVE  Rank(M, f) = Rank(N, f) - 1
    <3> DEFINE L == {g \in N : g < f}
    <3>1. {g \in M : g < f} = L \ {d} /\ d \in L
      BY <2>1
    <3>2. IsFiniteSet(L) /\ Cardinality(L) \in Nat
      BY FS_Subset, FS_CardinalityType
    <3>3. Cardinality(L \ {d}) = Cardinality(L) - 1
      <4> HIDE DEF L
      <4> QED BY <3>1, <3>2, FS_RemoveElement
    <3>4. Rank(N, f) = Cardinality(L) + 1
      BY DEF Rank
    <3>5. Rank(M, f) = Cardinality(L \ {d}) + 1
      BY <3>1 DEF Rank
    <3> HIDE DEF L
    <3> QED BY <3>2, <3>3, <3>4, <3>5
  <2> QED BY <2>1
<1>6. ASSUME NEW i \in 1 .. n - 1
      PROVE  Nth(M, i) = IF i < r THEN Nth(N, i) ELSE Nth(N, i + 1)
  <2>1. ASSUME NEW j \in 1 .. n, j # r
        PROVE  /\ Nth(N, j) \in M
               /\ j < r => Nth(N, j) < d
               /\ r < j => d < Nth(N, j)
    <3>1. Nth(N, j) \in N /\ Rank(N, Nth(N, j)) = j
      BY <1>1
    <3>2. Nth(N, j) # d
      BY <2>1, <3>1
    <3>3. Nth(N, j) \in Int /\ d \in Int /\ r \in Int /\ j \in Int
      <4>1. \A x \in N : x \in Int
        OBVIOUS
      <4>2. r \in Int /\ j \in Int
        <5> HIDE DEF r, n
        <5> QED BY <1>1
      <4> QED BY <3>1, <4>1, <4>2
    <3>4. Nth(N, j) < d => j < r
      BY <1>1, <3>1
    <3>5. d < Nth(N, j) => r < j
      BY <1>1, <3>1
    <3> HIDE DEF r
    <3> QED BY <3>1, <3>2, <3>3, <3>4, <3>5
  <2>2. CASE i < r
    <3>1. i \in 1 .. n /\ i # r
      BY <1>1, <2>2
    <3>2. Nth(N, i) \in M /\ Nth(N, i) < d
      BY <2>1, <2>2, <3>1
    <3>3. Rank(M, Nth(N, i)) = i
      BY <1>1, <1>4, <3>1, <3>2
    <3> QED BY <1>3, <2>2, <3>2, <3>3
  <2>3. CASE ~ (i < r)
    <3>1. i + 1 \in 1 .. n /\ i + 1 # r /\ r < i + 1 /\ i \in Int /\ i + 1 - 1 = i
      BY <1>1, <2>3
    <3>2. Nth(N, i + 1) \in M /\ d < Nth(N, i + 1)
      BY <2>1, <3>1
    <3>3. Rank(M, Nth(N, i + 1)) = i
      <4>1. Rank(N, Nth(N, i + 1)) = i + 1
        BY <1>1, <3>1
      <4>2. Rank(M, Nth(N, i + 1)) = Rank(N, Nth(N, i + 1)) - 1
        <5> HIDE DEF M
        <5> QED BY <1>5, <3>2
      <4> QED BY <3>1, <4>1, <4>2
    <3> QED BY <1>3, <2>3, <3>2, <3>3
  <2> QED BY <2>2, <2>3
<1> QED BY <1>2, <1>6

-----------------------------------------------------------------------------
(* The properties of a set of entries, in the order of their blocks. *)
Listing(N, K, V) ==
  [i \in 1 .. Cardinality(N) |-> [key |-> K[Nth(N, i)], val |-> V[Nth(N, i)]]]

\* The entries a caller sees.
Named  == live \ keyless
Listed == Items = Listing(Named, key, val)

\* There are finitely many.
LEMMA NamedIsFinite ==
  ASSUME TypeOK
  PROVE  IsFiniteSet(Named) /\ Named \in SUBSET Int
BY LiveIsFinite, FS_Subset DEF Named

\* The iteration shows every entry that has a key, from the oldest.
LEMMA ItemsAreListed == IndInv => Listed
<1> SUFFICES ASSUME IndInv  PROVE Listed
  OBVIOUS
<1> DEFINE N == Named
           n == Cardinality(N)
           rank == [e \in N |-> Cardinality({f \in N : Before(f, e)}) + 1]
           at(i) == CHOOSE f \in N : rank[f] = i
<1>1. Order \ keyless = N
  BY OrderIsLive DEF Named
<1>2. \A e \in N : rank[e] = Rank(N, e)
  <2>1. ASSUME NEW e \in N  PROVE {f \in N : Before(f, e)} = {f \in N : f < e}
    <3>1. N \in SUBSET live /\ \A f \in live : f \in Int
      BY LiveIsFinite DEF Named, IndInv
    <3>2. \A f \in N : Before(f, e) <=> e > f
      BY <2>1, <3>1, OrderIsLive
    <3>3. \A f \in N : e > f <=> f < e
      BY <2>1, <3>1
    <3> QED BY <3>2, <3>3
  <2> QED BY <2>1 DEF Rank
<1>3. Items = [i \in 1 .. n |-> [key |-> key[at(i)], val |-> val[at(i)]]]
  BY <1>1 DEF Items
<1>4. ASSUME NEW i \in 1 .. n  PROVE at(i) = Nth(N, i)
  <2>1. /\ \E f \in N : rank[f] = i
        /\ \A f \in N : Nth(N, Rank(N, f)) = f
    <3> HIDE DEF rank, N
    <3>1. IsFiniteSet(N) /\ N \in SUBSET Int
      BY NamedIsFinite DEF IndInv, N
    <3> QED BY <1>2, <1>4, <3>1, NthHasRank DEF n
  <2> HIDE DEF rank, N
  <2>2. at(i) \in N /\ rank[at(i)] = i
    BY <2>1
  <2> QED BY <1>2, <2>1, <2>2
<1> HIDE DEF at, N
<1> QED BY <1>3, <1>4 DEF Listed, Listing, n, N

\* The numbering of a listing.
LEMMA ListingIsSeq ==
  ASSUME NEW N \in SUBSET Int, IsFiniteSet(N), NEW K, NEW V,
         \A e \in N : K[e] \in Keys /\ V[e] \in Values
  PROVE  /\ Listing(N, K, V) \in Seq([key : Keys, val : Values])
         /\ Len(Listing(N, K, V)) = Cardinality(N) /\ Cardinality(N) \in Nat
         /\ \A i \in 1 .. Cardinality(N) :
              /\ Listing(N, K, V)[i] = [key |-> K[Nth(N, i)], val |-> V[Nth(N, i)]]
              /\ Nth(N, i) \in N
<1> DEFINE n == Cardinality(N)
<1>1. n \in Nat /\ \A i \in 1 .. n : Nth(N, i) \in N
  BY NthHasRank
<1> HIDE DEF n
<1>2. Listing(N, K, V) = [i \in 1 .. n |-> [key |-> K[Nth(N, i)], val |-> V[Nth(N, i)]]]
  BY DEF Listing, n
<1> DEFINE L == Listing(N, K, V)
           S == [key : Keys, val : Values]
<1>3. \A i \in 1 .. n : [key |-> K[Nth(N, i)], val |-> V[Nth(N, i)]] \in S
  BY <1>1
<1> HIDE DEF L, S
<1>4. L = [i \in 1 .. n |-> [key |-> K[Nth(N, i)], val |-> V[Nth(N, i)]]]
  BY <1>2 DEF L
<1>5. L \in [1 .. n -> S]
  BY <1>3, <1>4
<1>6. L \in Seq(S) /\ Len(L) = n
  BY <1>1, <1>5, SeqDef, LenProperties
<1> QED BY <1>1, <1>2, <1>6 DEF n, L, S

\* A value that is overwritten keeps its place.
LEMMA ListingOverwritten ==
  ASSUME NEW N \in SUBSET Int, IsFiniteSet(N), NEW K, NEW V,
         \A e \in N : K[e] \in Keys /\ V[e] \in Values,
         \A e, f \in N : K[e] = K[f] => e = f,
         NEW d \in N, NEW v \in Values,
         NEW V2, \A e \in N : V2[e] = IF e = d THEN v ELSE V[e]
  PROVE  Listing(N, K, V2) = Map!Put(Listing(N, K, V), K[d], v)
<1> DEFINE n == Cardinality(N)
           s == Listing(N, K, V)
<1>1. /\ s \in Seq([key : Keys, val : Values]) /\ Len(s) = n /\ n \in Nat
      /\ \A i \in 1 .. n : s[i] = [key |-> K[Nth(N, i)], val |-> V[Nth(N, i)]] /\ Nth(N, i) \in N
  BY ListingIsSeq
<1>2. Rank(N, d) \in 1 .. n /\ Nth(N, Rank(N, d)) = d
  BY NthHasRank
<1> HIDE DEF n, s
<1>3. Rank(N, d) \in Map!PlaceOf(s, K[d])
  BY <1>1, <1>2 DEF Map!PlaceOf
<1>4. Map!Put(s, K[d], v) =
        [i \in 1 .. n |-> IF s[i].key = K[d] THEN [key |-> K[d], val |-> v] ELSE s[i]]
  BY <1>1, <1>3 DEF Map!Put
<1>5. ASSUME NEW i \in 1 .. n
      PROVE  [key |-> K[Nth(N, i)], val |-> V2[Nth(N, i)]] =
               IF s[i].key = K[d] THEN [key |-> K[d], val |-> v] ELSE s[i]
  <2>1. s[i] = [key |-> K[Nth(N, i)], val |-> V[Nth(N, i)]] /\ Nth(N, i) \in N
    BY <1>1
  <2>2. s[i].key = K[d] <=> Nth(N, i) = d
    BY <2>1
  <2> QED BY <2>1, <2>2
<1>6. Listing(N, K, V2) = [i \in 1 .. n |-> [key |-> K[Nth(N, i)], val |-> V2[Nth(N, i)]]]
  BY DEF Listing, n
<1> QED BY <1>4, <1>5, <1>6 DEF s

\* A new entry is listed behind the others.
LEMMA ListingAppended ==
  ASSUME NEW N \in SUBSET Int, IsFiniteSet(N), NEW K, NEW V,
         \A e \in N : K[e] \in Keys /\ V[e] \in Values,
         NEW d \in Int, \A e \in N : e < d,
         NEW k, \A e \in N : K[e] # k,
         NEW v, NEW K2, NEW V2, K2[d] = k, V2[d] = v,
         \A e \in N : K2[e] = K[e] /\ V2[e] = V[e]
  PROVE  Listing(N \cup {d}, K2, V2) = Map!Put(Listing(N, K, V), k, v)
<1> DEFINE n == Cardinality(N)
           s == Listing(N, K, V)
           M == N \cup {d}
           item == [key |-> k, val |-> v]
<1>1. /\ s \in Seq([key : Keys, val : Values]) /\ Len(s) = n /\ n \in Nat
      /\ \A i \in 1 .. n : s[i] = [key |-> K[Nth(N, i)], val |-> V[Nth(N, i)]] /\ Nth(N, i) \in N
  BY ListingIsSeq
<1>2. /\ Cardinality(M) = n + 1
      /\ \A i \in 1 .. n + 1 : Nth(M, i) = IF i <= n THEN Nth(N, i) ELSE d
  BY NthOfMore
<1> HIDE DEF n, s, M
<1>3. Map!PlaceOf(s, k) = {}
  <2>1. ASSUME NEW i \in 1 .. n  PROVE s[i].key # k
    <3>1. Nth(N, i) \in N /\ s[i].key = K[Nth(N, i)]
      BY <1>1
    <3> QED BY <3>1
  <2> QED BY <1>1, <2>1 DEF Map!PlaceOf
<1>4. Map!Put(s, k, v) = Append(s, item)
  BY <1>3 DEF Map!Put
<1>5. Append(s, item) = [i \in 1 .. n + 1 |-> IF i <= n THEN s[i] ELSE item]
  BY <1>1
<1>6. Listing(M, K2, V2) =
        [i \in 1 .. n + 1 |-> [key |-> K2[Nth(M, i)], val |-> V2[Nth(M, i)]]]
  BY <1>2 DEF Listing
<1>7. ASSUME NEW i \in 1 .. n + 1
      PROVE  [key |-> K2[Nth(M, i)], val |-> V2[Nth(M, i)]] = IF i <= n THEN s[i] ELSE item
  <2>1. CASE i <= n
    <3>1. i \in 1 .. n
      BY <1>1, <2>1
    <3>2. Nth(M, i) = Nth(N, i) /\ Nth(N, i) \in N
      BY <1>1, <1>2, <2>1, <3>1
    <3>3. K2[Nth(N, i)] = K[Nth(N, i)] /\ V2[Nth(N, i)] = V[Nth(N, i)]
      BY <3>2
    <3> QED BY <1>1, <2>1, <3>1, <3>2, <3>3
  <2>2. CASE ~ (i <= n)
    BY <1>2, <2>2
  <2> QED BY <2>1, <2>2
<1> QED BY <1>4, <1>5, <1>6, <1>7 DEF s, M

\* Without an entry, the others are listed as before.
LEMMA ListingShortened ==
  ASSUME NEW N \in SUBSET Int, IsFiniteSet(N), NEW K, NEW V,
         \A e \in N : K[e] \in Keys /\ V[e] \in Values,
         NEW d \in N,
         NEW K2, NEW V2, \A e \in N \ {d} : K2[e] = K[e] /\ V2[e] = V[e]
  PROVE  \E i \in Map!PlaceOf(Listing(N, K, V), K[d]) :
           Listing(N \ {d}, K2, V2) = Map!RemoveAt(Listing(N, K, V), i)
<1> DEFINE n == Cardinality(N)
           s == Listing(N, K, V)
           S == [key : Keys, val : Values]
           M == N \ {d}
           r == Rank(N, d)
           t == Map!RemoveAt(s, r)
<1>1. /\ s \in Seq(S) /\ Len(s) = n /\ n \in Nat
      /\ \A i \in 1 .. n : s[i] = [key |-> K[Nth(N, i)], val |-> V[Nth(N, i)]] /\ Nth(N, i) \in N
  BY ListingIsSeq
<1>2. /\ Cardinality(M) = n - 1
      /\ \A i \in 1 .. n - 1 : Nth(M, i) = IF i < r THEN Nth(N, i) ELSE Nth(N, i + 1)
  BY NthOfLess
<1>3. r \in 1 .. n /\ Nth(N, r) = d
  BY NthHasRank
<1>4. IsFiniteSet(M) /\ M \in SUBSET Int
  BY FS_RemoveElement
<1>5. \A i \in 1 .. n - 1 : Nth(M, i) \in M
  <2> HIDE DEF M
  <2> QED BY <1>2, <1>4, NthHasRank
<1> HIDE DEF n, s, S, r
<1>6. r \in Map!PlaceOf(s, K[d])
  BY <1>1, <1>3 DEF Map!PlaceOf
<1>7. /\ SubSeq(s, 1, r - 1) \in Seq(S) /\ Len(SubSeq(s, 1, r - 1)) = r - 1
      /\ \A i \in 1 .. r - 1 : SubSeq(s, 1, r - 1)[i] = s[i]
      /\ SubSeq(s, r + 1, n) \in Seq(S) /\ Len(SubSeq(s, r + 1, n)) = n - r
      /\ \A i \in 1 .. n - r : SubSeq(s, r + 1, n)[i] = s[r + i]
  BY <1>1, <1>3
<1>8. /\ t \in Seq(S) /\ Len(t) = n - 1
      /\ \A i \in 1 .. n - 1 : t[i] = IF i <= r - 1 THEN SubSeq(s, 1, r - 1)[i]
                                      ELSE SubSeq(s, r + 1, n)[i - (r - 1)]
  <2>1. t = SubSeq(s, 1, r - 1) \o SubSeq(s, r + 1, n)
    BY <1>1 DEF Map!RemoveAt
  <2>2. (r - 1) + (n - r) = n - 1
    BY <1>1, <1>3
  <2> DEFINE a == SubSeq(s, 1, r - 1)
             b == SubSeq(s, r + 1, n)
  <2>3. a \in Seq(S) /\ b \in Seq(S) /\ Len(a) = r - 1 /\ Len(b) = n - r /\ t = a \o b
    BY <1>7, <2>1
  <2> HIDE DEF t, a, b
  <2>4. /\ t \in Seq(S) /\ Len(t) = Len(a) + Len(b)
        /\ \A i \in 1 .. Len(a) + Len(b) :
              t[i] = IF i <= Len(a) THEN a[i] ELSE b[i - Len(a)]
    BY <2>3, ConcatProperties
  <2> QED BY <2>2, <2>3, <2>4 DEF a, b
<1> HIDE DEF t
<1>9. ASSUME NEW i \in 1 .. n - 1
      PROVE  t[i] = [key |-> K2[Nth(M, i)], val |-> V2[Nth(M, i)]]
  <2>1. K2[Nth(M, i)] = K[Nth(M, i)] /\ V2[Nth(M, i)] = V[Nth(M, i)]
    BY <1>5
  <2> HIDE DEF M
  <2>2. CASE i < r
    <3>1. i <= r - 1 /\ i \in 1 .. r - 1 /\ i \in 1 .. n
      BY <1>1, <1>3, <2>2
    <3> QED BY <1>1, <1>2, <1>7, <1>8, <2>1, <2>2, <3>1
  <2>3. CASE ~ (i < r)
    <3>1. /\ ~ (i <= r - 1) /\ i - (r - 1) \in 1 .. n - r /\ i + 1 \in 1 .. n
          /\ r + (i - (r - 1)) = i + 1
      BY <1>1, <1>3, <2>3
    <3>2. t[i] = s[i + 1]
      BY <1>7, <1>8, <3>1
    <3> QED BY <1>1, <1>2, <2>1, <2>3, <3>1, <3>2
  <2> QED BY <2>2, <2>3
<1>10. t = [i \in 1 .. n - 1 |-> t[i]]
  BY <1>8
<1>11. Listing(M, K2, V2) = [i \in 1 .. n - 1 |-> [key |-> K2[Nth(M, i)], val |-> V2[Nth(M, i)]]]
  <2> HIDE DEF M
  <2> QED BY <1>2 DEF Listing
<1>12. Listing(M, K2, V2) = t
  <2> HIDE DEF M
  <2> QED BY <1>9, <1>10, <1>11
<1> QED BY <1>6, <1>12 DEF t, s, M

-----------------------------------------------------------------------------
(* The calls, as steps of the map. *)

\* What the listing needs to know of an object.
LEMMA EntriesAreListed ==
  ASSUME IndInv, Listed
  PROVE  /\ IsFiniteSet(Named) /\ Named \in SUBSET Int
         /\ \A e \in Named : key[e] \in Keys /\ val[e] \in Values
         /\ \A e, f \in Named : key[e] = key[f] => e = f
         /\ Items = Listing(Named, key, val)
<1>1. \A e \in live : key[e] \in Keys /\ val[e] \in Values
  BY DEF IndInv, TypeOK
<1> QED BY <1>1, NamedIsFinite DEF IndInv, KeysUnique, Named, Listed

\* A child that no entry owns is no property's.
LEMMA FreshChildIsFresh ==
  ASSUME IndInv, Listed, NEW v, OwnedBy(v) \cap children = {}
  PROVE  Map!FreshChild(Items, v)
<1>1. /\ Len(Items) = Cardinality(Named)
      /\ \A i \in 1 .. Cardinality(Named) :
           Items[i].val = val[Nth(Named, i)] /\ Nth(Named, i) \in Named
  <2>1. /\ IsFiniteSet(Named) /\ Named \in SUBSET Int
        /\ \A e \in Named : key[e] \in Keys /\ val[e] \in Values
        /\ Items = Listing(Named, key, val)
    BY EntriesAreListed
  <2>2. /\ Len(Listing(Named, key, val)) = Cardinality(Named)
        /\ \A i \in 1 .. Cardinality(Named) :
             /\ Listing(Named, key, val)[i] =
                  [key |-> key[Nth(Named, i)], val |-> val[Nth(Named, i)]]
             /\ Nth(Named, i) \in Named
    BY <2>1, ListingIsSeq
  <2> QED BY <2>1, <2>2
<1>2. \A e \in Named : OwnedBy(val[e]) \subseteq children
  BY DEF IndInv, ChildrenOwnedOnce, Named
<1>3. ASSUME NEW i \in 1 .. Len(Items)  PROVE OwnedBy(v) \cap OwnedBy(Items[i].val) = {}
  BY <1>1, <1>2
<1> QED BY <1>3 DEF Map!FreshChild

\* What a setter leaves in its entry: a value of its type, of which only a
\* failed allocation takes the child away.
Stored(type, v) ==
  /\ v \in Values /\ v.type = type /\ OwnedBy(v) \cap children = {}
  /\ ~AllocFails /\ type \in Containers => v.as # NULL

\* Every payload a setter can come to is of this kind.
LEMMA PayloadIsStored ==
  ASSUME IndInv, NEW type, NEW arg, ArgOK(type, arg), NEW id \in {Fresh, Fresh + 1},
         type \in Containers => id \in Blocks,
         NEW p \in SUBSET (Keys \cup Strings), NEW r \in Payloads(type, arg, id, p)
  PROVE  Stored(type, [type |-> type, as |-> r.as])
<1> DEFINE v == [type |-> type, as |-> r.as]
<1>1. allocs \in Nat /\ id \in Nat /\ Fresh = allocs + 1
  BY SizeAssumption DEF IndInv, TypeOK, Fresh
<1>2. v \in Values /\ OwnedBy(v) \subseteq {id}
  BY <1>1, PayloadIsTyped
<1>3. children \subseteq 1 .. allocs
  BY DEF IndInv
<1>4. id \notin children
  BY <1>1, <1>3
<1>5. ASSUME ~AllocFails, type \in Containers  PROVE r.as # NULL
  <2>1. id # NULL
    BY <1>1, NullAssumption
  <2>2. type # "scalar" /\ type # "string" /\ Outcomes \ {TRUE} = {}
    BY <1>5, TypeAssumption DEF Outcomes
  <2>3. \E q \in AfterIntern(arg, p) : r = [as |-> id, pool |-> q]
    BY <2>2 DEF Payloads
  <2> QED BY <2>1, <2>3
<1> QED BY <1>2, <1>4, <1>5 DEF Stored

\* A setter writes such a value under its key, or nothing if the key was lost.
Writes(k, type) ==
  /\ status = "ok" /\ status' = "ok" /\ meta' = meta
  /\ \/ \E v : Stored(type, v) /\ Items' = Map!Put(Items, k, v)
     \/ AllocFails /\ Items' = Items

\* An overwrite writes its key.
LEMMA ReplaceWrites ==
  ASSUME IndInv, Listed, Listed', NEW k \in Keys, NEW type, NEW arg, ArgOK(type, arg),
         Replace(k, type, arg)
  PROVE  Writes(k, type)
<1>1. PICK e \in Find(k), r \in Payloads(type, arg, Fresh, pool) :
         val' = [val EXCEPT ![e] = [type |-> type, as |-> r.as]]
  BY DEF Replace
<1> DEFINE v == [type |-> type, as |-> r.as]
<1>2. /\ status = "ok" /\ Room(ChildBlocks(type)) /\ ~Traps(k)
      /\ UNCHANGED <<status, live, key, keyless, meta>>
  BY DEF Replace
<1>3. e \in Named /\ key[e] = k
  BY DEF Find, Matching, Named
<1>4. type \in Containers => Fresh \in Blocks
  BY <1>2, SizeAssumption DEF IndInv, TypeOK, Fresh, Blocks, Room, ChildBlocks
<1>5. Stored(type, v)
  BY <1>4, PayloadIsStored DEF IndInv, TypeOK
<1>6. \A f \in Named : val'[f] = IF f = e THEN v ELSE val[f]
  BY <1>1 DEF IndInv, TypeOK, Named
<1>7. Named' = Named /\ Items' = Listing(Named, key, val')
  BY <1>2 DEF Named, Listed
<1>8. Listing(Named, key, val') = Map!Put(Listing(Named, key, val), key[e], v)
  <2>1. v \in Values
    BY <1>5 DEF Stored
  <2> HIDE DEF v
  <2> QED BY <1>3, <1>6, <2>1, EntriesAreListed, ListingOverwritten
<1>9. Items' = Map!Put(Items, k, v)
  BY <1>3, <1>7, <1>8 DEF Listed
<1> QED BY <1>2, <1>5, <1>9 DEF Writes

\* A new key is written at the end, or lost.
LEMMA InsertWrites ==
  ASSUME IndInv, Listed, Listed', NEW k \in Keys, NEW type, NEW arg, ArgOK(type, arg),
         InsertNew(k, type, arg)
  PROVE  Writes(k, type)
<1> DEFINE Effect(grown, named, r) ==
             /\ Link(k, [type |-> type, as |-> r.as], TableSize(grown), TableHeads(grown),
                     TableNext(grown))
             /\ keyless' = IF k \in named THEN keyless ELSE keyless \cup {Fresh}
<1>1. PICK grown \in GrowOutcomes, named \in AfterIntern(k, pool) :
         \E r \in Payloads(type, arg, Fresh + 1, named) : Effect(grown, named, r)
  BY DEF InsertNew
<1>2. PICK r \in Payloads(type, arg, Fresh + 1, named) : Effect(grown, named, r)
  BY <1>1
<1> DEFINE v == [type |-> type, as |-> r.as]
           e == Fresh
<1>3. /\ status = "ok" /\ Room(1 + ChildBlocks(type)) /\ ~Traps(k) /\ Find(k) = {}
      /\ UNCHANGED <<status, meta>>
  BY DEF InsertNew
<1>4. /\ live' = live \cup {e}
      /\ key' = [f \in live \cup {e} |-> IF f = e THEN k ELSE key[f]]
      /\ val' = [f \in live \cup {e} |-> IF f = e THEN v ELSE val[f]]
  BY <1>2 DEF Link
<1>5. /\ allocs \in Nat /\ e \in Int /\ e = allocs + 1 /\ \A f \in live : f \in Int /\ f < e
      /\ (type \in Containers => Fresh + 1 \in Blocks)
  BY <1>3, LiveIsFinite, SizeAssumption
     DEF IndInv, TypeOK, Fresh, Blocks, Room, ChildBlocks
<1>6. Stored(type, v)
  <2>1. named \in SUBSET (Keys \cup Strings)
    BY InternGrowsPool DEF IndInv, TypeOK
  <2> QED BY <1>5, <2>1, PayloadIsStored
<1> HIDE DEF e, v
<1>7. e \notin live
  <2>1. ~ (e < e)
    BY <1>5
  <2> QED BY <1>5, <2>1
<1>8. CASE k \in named
  <2>1. Named' = Named \cup {e}
    BY <1>2, <1>4, <1>7, <1>8 DEF Named, IndInv, TypeOK
  <2>2. \A f \in Named : key[f] # k
    BY <1>3, FindIsMatching DEF Matching, Named
  <2>3. /\ key'[e] = k /\ val'[e] = v
        /\ \A f \in Named : key'[f] = key[f] /\ val'[f] = val[f] /\ f < e
    BY <1>4, <1>5, <1>7 DEF Named
  <2>4. Listing(Named \cup {e}, key', val') = Map!Put(Listing(Named, key, val), k, v)
    <3>1. /\ IsFiniteSet(Named) /\ Named \in SUBSET Int
          /\ \A f \in Named : key[f] \in Keys /\ val[f] \in Values
      BY EntriesAreListed
    <3>2. PICK K2, V2 : K2 = key' /\ V2 = val'
      OBVIOUS
    <3>3. /\ K2[e] = k /\ V2[e] = v
          /\ \A f \in Named : K2[f] = key[f] /\ V2[f] = val[f]
      BY <2>3, <3>2
    <3>4. e \in Int /\ \A f \in Named : f < e
      BY <1>5, <2>3
    <3>5. Listing(Named \cup {e}, K2, V2) = Map!Put(Listing(Named, key, val), k, v)
      BY <2>2, <3>1, <3>3, <3>4, ListingAppended
    <3> QED BY <3>2, <3>5
  <2>5. Items' = Map!Put(Items, k, v)
    BY <2>1, <2>4 DEF Listed
  <2> QED BY <1>3, <1>6, <2>5 DEF Writes
<1>9. CASE k \notin named
  <2>1. AllocFails
    BY <1>9, InternSucceeds, NullAssumption
  <2>2. Named' = Named
    BY <1>2, <1>4, <1>7, <1>9 DEF Named, IndInv, TypeOK, e
  <2>3. \A f \in Named : key'[f] = key[f] /\ val'[f] = val[f]
    BY <1>4, <1>7 DEF Named
  <2>4. Items' = Items
    <3>1. \A i \in 1 .. Cardinality(Named) : Nth(Named, i) \in Named
      BY EntriesAreListed, NthHasRank
    <3>2. Listing(Named, key', val') = Listing(Named, key, val)
      BY <2>3, <3>1 DEF Listing
    <3> QED BY <2>2, <3>2 DEF Listed
  <2> QED BY <1>3, <2>1, <2>4 DEF Writes
<1> QED BY <1>8, <1>9

\* A removal takes out the property of its key.
LEMMA RemoveDeletes ==
  ASSUME IndInv, Listed, Listed', NEW k \in Keys, RemoveKey(k)
  PROVE  Map!Delete(k)
<1>1. PICK d \in Find(k) :
         LET rest == live \ {d} IN
         live' = rest /\ key' = [f \in rest |-> key[f]] /\ val' = [f \in rest |-> val[f]]
  BY DEF RemoveKey
<1>2. status = "ok" /\ UNCHANGED <<status, keyless, meta>>
  BY DEF RemoveKey
<1>3. d \in Named /\ key[d] = k
  BY DEF Find, Matching, Named
<1>4. Named' = Named \ {d}
  BY <1>1, <1>2 DEF Named
<1>5. PICK K2, V2 : K2 = key' /\ V2 = val'
  OBVIOUS
<1>6. \A f \in Named \ {d} : K2[f] = key[f] /\ V2[f] = val[f]
  BY <1>1, <1>5 DEF Named
<1>7. /\ IsFiniteSet(Named) /\ Named \in SUBSET Int
      /\ \A f \in Named : key[f] \in Keys /\ val[f] \in Values
  BY EntriesAreListed
<1>8. \E i \in Map!PlaceOf(Listing(Named, key, val), key[d]) :
        Listing(Named \ {d}, K2, V2) = Map!RemoveAt(Listing(Named, key, val), i)
  <2>1. d \in Named
    BY <1>3
  <2> HIDE DEF Named
  <2>2. PICK N, K, V : N = Named /\ K = key /\ V = val
    OBVIOUS
  <2>3. /\ N \in SUBSET Int /\ IsFiniteSet(N) /\ d \in N
        /\ \A f \in N : K[f] \in Keys /\ V[f] \in Values
        /\ \A f \in N \ {d} : K2[f] = K[f] /\ V2[f] = V[f]
    BY <1>6, <1>7, <2>1, <2>2
  <2>4. \E i \in Map!PlaceOf(Listing(N, K, V), K[d]) :
          Listing(N \ {d}, K2, V2) = Map!RemoveAt(Listing(N, K, V), i)
    BY <2>3, ListingShortened
  <2> QED BY <2>2, <2>4
<1>9. \E i \in Map!PlaceOf(Items, k) : Items' = Map!RemoveAt(Items, i)
  BY <1>3, <1>4, <1>5, <1>8 DEF Listed
<1> QED BY <1>2, <1>9 DEF Map!Delete

\* An object without entries is the empty map.
LEMMA NothingListed ==
  ASSUME live = {}
  PROVE  Listing(Named, key, val) = <<>>
<1>1. Named = {}
  BY DEF Named
<1>2. Cardinality(Named) = 0
  BY <1>1, FS_EmptySet
<1>3. 1 .. Cardinality(Named) = {}
  BY <1>2
<1> QED BY <1>3, EmptySeq DEF Listing

\* So is an object that was cleared or destroyed.
LEMMA FreedIsEmpty ==
  ASSUME IndInv, Listed', Clear \/ Destroy
  PROVE  Items' = <<>> /\ meta' = meta /\ status = "ok"
<1>1. live' = {} /\ meta' = meta /\ status = "ok"
  BY ClearKeeps, DestroyKeeps DEF Clear, Destroy, FreeEntries
<1>2. Cardinality(Named') = 0
  BY <1>1, FS_EmptySet DEF Named
<1>3. 1 .. Cardinality(Named') = {}
  BY <1>2
<1>4. Items' = <<>>
  BY <1>3 DEF Listed, Listing
<1> QED BY <1>1, <1>4

\* Calls that leave the entries alone leave the map alone.
LEMMA ItemsUnchanged ==
  ASSUME Listed, Listed', UNCHANGED <<live, key, val, keyless>>
  PROVE  Items' = Items
BY DEF Listed, Named

\* Each family of setters is a setter of its type.
LEMMA SetterWrites ==
  ASSUME IndInv, Listed, Listed', NEW k \in Keys
  PROVE  /\ SetScalar(k) => Writes(k, "scalar")
         /\ SetString(k) => Writes(k, "string")
         /\ AddContainer(k) => \E t \in Containers : Writes(k, t)
<1>1. SetScalar(k) => \E arg : ArgOK("scalar", arg)
                               /\ (Replace(k, "scalar", arg) \/ InsertNew(k, "scalar", arg))
  BY DEF SetScalar, ArgOK
<1>2. SetString(k) => \E arg : ArgOK("string", arg)
                               /\ (Replace(k, "string", arg) \/ InsertNew(k, "string", arg))
  BY DEF SetString, ArgOK
<1>3. AddContainer(k) => \E t \in Containers : \E arg :
                           ArgOK(t, arg) /\ (Replace(k, t, arg) \/ InsertNew(k, t, arg))
  BY DEF AddContainer, ArgOK
<1> QED BY <1>1, <1>2, <1>3, ReplaceWrites, InsertWrites

\* What is written is one of the values of its type.
LEMMA WritesOnMap ==
  ASSUME IndInv, Listed, NEW k \in Keys, NEW type, Writes(k, type), NEW V,
         \A v : Stored(type, v) => v \in V
  PROVE  Map!Write(k, V) \/ (AllocFails /\ UNCHANGED Map!mapVars)
<1>1. CASE \E v : Stored(type, v) /\ Items' = Map!Put(Items, k, v)
  <2>1. PICK v : Stored(type, v) /\ Items' = Map!Put(Items, k, v)
    BY <1>1
  <2>2. v \in V /\ Map!FreshChild(Items, v)
    BY <2>1, FreshChildIsFresh DEF Stored
  <2> QED BY <2>1, <2>2 DEF Writes, Map!Write
<1>2. CASE AllocFails /\ Items' = Items
  BY <1>2 DEF Writes, Map!mapVars
<1> QED BY <1>1, <1>2 DEF Writes

\* The pointer structure implements the insertion-ordered map: each call has
\* one of its effects or none, whatever allocations fail
\* (kdf_object.c:79-507, include/kdf/kdf_object.h).
THEOREM ObjectImplementsMap == Spec => ImplementsMap
<1>1. Init /\ Listed => Map!Initial
  <2> SUFFICES ASSUME Init, Listed  PROVE Map!Initial
    OBVIOUS
  <2>1. live = {} /\ status = "ok" /\ meta = [type |-> NULL, version |-> 0]
    BY DEF Init
  <2>2. Items = <<>>
    BY <2>1, NothingListed DEF Listed
  <2> QED BY <2>1, <2>2 DEF Map!Initial
<1>2. ASSUME IndInv, IndInv', Listed, Listed', [Next]_vars
      PROVE  [Map!MapNext]_(Map!mapVars)
  <2>1. ASSUME NEW k \in Keys, SetScalar(k) \/ SetString(k) \/ AddContainer(k)
        PROVE  [Map!MapNext]_(Map!mapVars)
    <3>1. \E type : Writes(k, type)
      BY <1>2, <2>1, SetterWrites
    <3>2. Map!Write(k, Values) \/ UNCHANGED Map!mapVars
      BY <1>2, <3>1, WritesOnMap DEF Stored
    <3> QED BY <3>2 DEF Map!MapNext
  <2>2. ASSUME NEW k \in Keys, RemoveKey(k)  PROVE Map!MapNext
    BY <1>2, <2>2, RemoveDeletes DEF Map!MapNext
  <2>3. ASSUME Clear  PROVE Map!MapNext
    BY <1>2, <2>3, FreedIsEmpty DEF Map!MapNext, Map!Empty, Clear
  <2>4. ASSUME Destroy  PROVE Map!MapNext
    BY <1>2, <2>4, FreedIsEmpty DEF Map!MapNext, Map!Close, Destroy
  <2>5. ASSUME NEW k \in Keys, InsertNoMemory(k)  PROVE UNCHANGED Map!mapVars
    BY <1>2, <2>5, ItemsUnchanged DEF InsertNoMemory, Map!mapVars
  <2>6. ASSUME NEW k \in Keys, InsertTraps(k) \/ LookupTraps(k)
        PROVE  UNCHANGED Map!mapVars
    <3>1. status = "ok" /\ status' = "fault" /\ UNCHANGED <<live, key, val, keyless, meta>>
      BY <2>6 DEF InsertTraps, LookupTraps, Trap
    <3> QED BY <1>2, <3>1, ItemsUnchanged DEF Map!mapVars
  <2>7. ASSUME NEW t \in Strings \cup {NULL}, SetType(t)  PROVE Map!MapNext
    <3>1. status = "ok" /\ UNCHANGED <<status, live, key, val, keyless>>
      BY <2>7 DEF SetType
    <3>2. meta' \in [type : Strings \cup {NULL}, version : Versions \cup {0}]
      BY <1>2 DEF IndInv, TypeOK
    <3> QED BY <1>2, <3>1, <3>2, ItemsUnchanged DEF Map!MapNext, Map!Describe
  <2>8. ASSUME NEW n \in Versions, SetVersion(n)  PROVE Map!MapNext
    <3>1. status = "ok" /\ UNCHANGED <<status, live, key, val, keyless>>
      BY <2>8 DEF SetVersion
    <3>2. meta' \in [type : Strings \cup {NULL}, version : Versions \cup {0}]
      BY <1>2 DEF IndInv, TypeOK
    <3> QED BY <1>2, <3>1, <3>2, ItemsUnchanged DEF Map!MapNext, Map!Describe
  <2>9. ASSUME UNCHANGED vars  PROVE UNCHANGED Map!mapVars
    BY <1>2, <2>9, ItemsUnchanged DEF vars, Map!mapVars
  <2> QED BY <1>2, <2>1, <2>2, <2>3, <2>4, <2>5, <2>6, <2>7, <2>8, <2>9 DEF Next
<1>3. IndInv /\ IndInv' /\ Listed /\ Listed' /\ [Next]_vars => [Map!MapNext]_(Map!mapVars)
  BY <1>2
<1> QED BY <1>1, <1>3, ItemsAreListed, StructureSound, PTL
        DEF Spec, ImplementsMap, Map!MapSpec

\* While the allocator answers, each call has the effect its name promises and
\* no other.
THEOREM CallsDoWhatTheySay ==
  ASSUME ~AllocFails
  PROVE  Spec => CallsImplementTheirNames
<1>1. /\ \A v : Stored("scalar", v) => v \in [type : {"scalar"}, as : Scalars]
      /\ \A v : Stored("string", v) => v \in [type : {"string"}, as : Strings \cup {NULL}]
      /\ \A t \in Containers : \A v : Stored(t, v) => v \in [type : Containers, as : Blocks]
  BY TypeAssumption DEF Stored, Values
<1> DEFINE Effects ==
  /\ \A k \in Keys :
       /\ SetScalar(k) => Map!Write(k, [type : {"scalar"}, as : Scalars])
       /\ SetString(k) => Map!Write(k, [type : {"string"}, as : Strings \cup {NULL}])
       /\ AddContainer(k) => Map!Write(k, [type : Containers, as : Blocks])
       /\ RemoveKey(k) => Map!Delete(k)
  /\ Clear => Map!Empty
<1>2. ASSUME IndInv, Listed, Listed'  PROVE Effects
  <2>1. ASSUME NEW k \in Keys, SetScalar(k)
        PROVE  Map!Write(k, [type : {"scalar"}, as : Scalars])
    BY <1>1, <1>2, <2>1, SetterWrites, WritesOnMap
  <2>2. ASSUME NEW k \in Keys, SetString(k)
        PROVE  Map!Write(k, [type : {"string"}, as : Strings \cup {NULL}])
    BY <1>1, <1>2, <2>2, SetterWrites, WritesOnMap
  <2>3. ASSUME NEW k \in Keys, AddContainer(k)
        PROVE  Map!Write(k, [type : Containers, as : Blocks])
    BY <1>1, <1>2, <2>3, SetterWrites, WritesOnMap
  <2>4. ASSUME NEW k \in Keys, RemoveKey(k)  PROVE Map!Delete(k)
    BY <1>2, <2>4, RemoveDeletes
  <2>5. ASSUME Clear  PROVE Map!Empty
    BY <1>2, <2>5, FreedIsEmpty DEF Map!Empty, Clear
  <2> QED BY <2>1, <2>2, <2>3, <2>4, <2>5
<1>3. IndInv /\ Listed /\ Listed' => [Effects]_vars
  BY <1>2
<1> QED BY <1>3, ItemsAreListed, StructureSound, PTL DEF CallsImplementTheirNames
=============================================================================
