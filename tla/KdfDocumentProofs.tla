------------------------- MODULE KdfDocumentProofs -------------------------
(***************************************************************************)
(* The tree of a document is sound and nothing is lost from it, for all    *)
(* keys, any number of containers and members, and whatever fails.         *)
(***************************************************************************)
EXTENDS KdfDocument, CommonProofs

-----------------------------------------------------------------------------
(* What is below a set of containers. *)

\* Children are allocated containers.
LEMMA ChildrenAreLive ==
  ASSUME TypeOK, NEW c \in DOMAIN members
  PROVE  Children(c) \in SUBSET Live
BY DEF TypeOK, Children, ChildrenIn

\* Blocks are numbers, and NULL and the root object are not among them.
LEMMA LiveAreNumbers ==
  ASSUME TypeOK
  PROVE  /\ allocs \in Nat /\ Live \in SUBSET Int /\ IsFiniteSet(Live)
         /\ NULL \notin Live /\ Root \notin Live /\ \A b \in Live : 0 < b /\ b <= allocs
<1>1. allocs \in Nat /\ Live \in SUBSET (1 .. allocs)
  BY DocumentAssumption DEF TypeOK
<1>2. IsFiniteSet(1 .. allocs)
  BY <1>1, FS_Interval
<1>3. IsFiniteSet(Live)
  BY <1>1, <1>2, FS_Subset
<1>4. \A b \in Live : b \in Int /\ 0 < b /\ b <= allocs
  BY <1>1
<1>5. NULL \notin Live /\ Root \notin Live
  BY <1>4, DocumentAssumption DEF Root
<1> QED BY <1>1, <1>3, <1>4, <1>5

\* What is below a set contains the set and the children of its elements.
LEMMA BelowIsClosed ==
  ASSUME TypeOK, NEW S \in SUBSET Live
  PROVE  /\ Below(S) \in SUBSET Live /\ S \subseteq Below(S)
         /\ \A c \in Below(S) : Children(c) \subseteq Below(S)
<1>1. Live \in SUBSET DOMAIN members
  BY DEF TypeOK
<1>2. Below(S) \in SUBSET Live /\ S \subseteq Below(S)
  BY DEF Below
<1>3. ASSUME NEW c \in Below(S), NEW b \in Children(c)  PROVE b \in Below(S)
  <2>1. b \in Live
    BY <1>1, <1>2, <1>3, ChildrenAreLive
  <2>2. ASSUME NEW T \in SUBSET Live, S \subseteq T, \A d \in T : Children(d) \subseteq T
        PROVE  b \in T
    <3>1. c \in T
      BY <2>2 DEF Below
    <3> QED BY <3>1, <2>2
  <2> QED BY <2>1, <2>2 DEF Below
<1> QED BY <1>2, <1>3

\* It is the least such set.
LEMMA BelowIsLeast ==
  ASSUME NEW S, NEW T \in SUBSET Live, S \subseteq T, \A c \in T : Children(c) \subseteq T
  PROVE  Below(S) \subseteq T
BY DEF Below

\* So all it contains is in the set or a child of something it contains.
LEMMA BelowHasOwner ==
  ASSUME TypeOK, NEW S \in SUBSET Live, NEW b \in Below(S)
  PROVE  b \in S \/ \E o \in Below(S) : b \in Children(o)
<1> DEFINE T == {x \in Below(S) : x \in S \/ \E o \in Below(S) : x \in Children(o)}
<1>1. /\ Below(S) \in SUBSET Live /\ S \subseteq Below(S)
      /\ \A c \in Below(S) : Children(c) \subseteq Below(S)
  BY BelowIsClosed
<1>2. T \in SUBSET Live /\ S \subseteq T /\ \A c \in T : Children(c) \subseteq T
  BY <1>1
<1>3. Below(S) \subseteq T
  <2> HIDE DEF T
  <2> QED BY <1>2, BelowIsLeast
<1> QED BY <1>3

\* Children come after their container, and so does all that is below them.
LEMMA BelowIsAfter ==
  ASSUME TypeOK, TreeOK, NEW S \in SUBSET Live, NEW n \in Int, \A b \in S : n < b
  PROVE  \A b \in Below(S) : n < b
<1> DEFINE T == {x \in Live : n < x}
<1>1. ASSUME NEW c \in T, NEW b \in Children(c)  PROVE b \in T
  <2>1. c \in DOMAIN members /\ c \in Int /\ b \in Live /\ b \in Int
    BY ChildrenAreLive, LiveAreNumbers DEF TypeOK
  <2>2. c < b
    BY <1>1, <2>1 DEF TreeOK
  <2> QED BY <1>1, <2>1, <2>2
<1>2. Below(S) \subseteq T
  <2>1. T \in SUBSET Live /\ S \subseteq T /\ \A c \in T : Children(c) \subseteq T
    BY <1>1
  <2> HIDE DEF T
  <2> QED BY <2>1, BelowIsLeast
<1> QED BY <1>2

-----------------------------------------------------------------------------
(* Who holds a container. *)

\* No container is a child of two.
LEMMA OwnerIsUnique ==
  ASSUME TypeOK, TreeOK, NEW c \in DOMAIN members, NEW d \in DOMAIN members,
         NEW b \in Children(c), b \in Children(d)
  PROVE  c = d
BY DEF TreeOK, OneOwner, Children, ChildrenIn

\* A container is held by a reader at one place of its path.
LEMMA HeldOnPath ==
  ASSUME NEW S, path \in Seq(S), NEW b
  PROVE  b \in Held <=> \E i \in 1 .. Len(path) : path[i].held /\ path[i].c = b
<1>1. DOMAIN path = 1 .. Len(path)
  OBVIOUS
<1>2. Range(path) = {path[i] : i \in 1 .. Len(path)}
  BY <1>1 DEF Range
<1> QED BY <1>2 DEF Held

\* Those are in no other container and not lost.
LEMMA HeldIsFree ==
  ASSUME TypeOK, PathOK, NEW b \in Held
  PROVE  b \in Live \ lost /\ \A o \in DOMAIN members : b \notin Children(o)
<1>1. path \in Seq([c : Live \ lost, key : Keys \cup {NULL}, held : BOOLEAN])
  BY DEF PathOK
<1>2. PICK i \in 1 .. Len(path) : path[i].c = b
  BY <1>1, HeldOnPath
<1>3. path[i] \in [c : Live \ lost, key : Keys \cup {NULL}, held : BOOLEAN]
  BY <1>1, <1>2, ElementOfSeq
<1> QED BY <1>2, <1>3 DEF PathOK

-----------------------------------------------------------------------------
(* What a call destroys. *)
Freed(c, ms) == Below(Children(c) \ ChildrenIn(ms))
New(child)   == {child} \ (Live \cup {NULL})

\* It destroys what c no longer holds, with all that is below: no more, none of
\* what is lost or held by a reader, and nothing that c or what is kept refers to.
LEMMA FreedIsBelow ==
  ASSUME IndInv, NEW c \in (DOMAIN members) \ lost, NEW ms
  PROVE  /\ Freed(c, ms) \in SUBSET (Live \ (lost \cup Held))
         /\ \A b \in Freed(c, ms) : c < b
         /\ \A b \in Live : b \in Freed(c, ms) <=>
              \E o \in DOMAIN members : b \in Children(o) /\
                (o \in Freed(c, ms) \/ (o = c /\ b \notin ChildrenIn(ms)))
<1> DEFINE S == Children(c) \ ChildrenIn(ms)
           F == Freed(c, ms)
<1>1. TypeOK /\ TreeOK /\ PathOK /\ LostOK
  BY DEF IndInv
<1>2. S \in SUBSET Live /\ Live \in SUBSET Int /\ c \in Int /\ Live \in SUBSET DOMAIN members
  BY <1>1, ChildrenAreLive, LiveAreNumbers DEF TypeOK, Root
<1>3. F \in SUBSET Live /\ S \subseteq F /\ \A o \in F : Children(o) \subseteq F
  BY <1>1, <1>2, BelowIsClosed DEF Freed
<1>4. \A b \in F : c < b
  <2>1. \A b \in S : c < b
    BY <1>1 DEF TreeOK
  <2> HIDE DEF S
  <2>2. \A b \in Below(S) : c < b
    BY <1>1, <1>2, <2>1, BelowIsAfter
  <2> QED BY <2>2 DEF S, Freed
<1>5. \A b \in F : b \in S \/ \E o \in F : b \in Children(o)
  BY <1>1, <1>2, BelowHasOwner DEF Freed
<1>6. F \cap lost = {}
  <2> DEFINE T == Live \ lost
  <2>1. T \in SUBSET Live /\ S \subseteq T /\ \A d \in T : Children(d) \subseteq T
    BY <1>1, <1>2, ChildrenAreLive DEF LostOK
  <2> HIDE DEF T, S
  <2>2. Below(S) \subseteq T
    BY <2>1, BelowIsLeast
  <2> QED BY <2>2 DEF T, S, Freed
<1>7. F \cap Held = {}
  BY <1>1, <1>2, <1>3, <1>5, HeldIsFree
<1> HIDE DEF F
<1>8. \A b \in Live : b \in F <=>
        \E o \in DOMAIN members : b \in Children(o) /\ (o \in F \/ (o = c /\ b \notin ChildrenIn(ms)))
  BY <1>2, <1>3, <1>5
<1> QED BY <1>3, <1>4, <1>6, <1>7, <1>8 DEF F

\* What is kept refers to nothing that is destroyed.
LEMMA KeptStaysWhole ==
  ASSUME IndInv, NEW c \in (DOMAIN members) \ lost, NEW ms
  PROVE  /\ c \notin Freed(c, ms)
         /\ \A o \in DOMAIN members \ (Freed(c, ms) \cup {c}) : Children(o) \cap Freed(c, ms) = {}
         /\ ChildrenIn(ms) \cap Children(c) \cap Freed(c, ms) = {}
<1> DEFINE F == Freed(c, ms)
<1>1. TypeOK /\ TreeOK
  BY DEF IndInv
<1>2. /\ F \in SUBSET Live
      /\ \A b \in F : c < b
      /\ \A b \in F : \E o \in DOMAIN members : b \in Children(o) /\
                (o \in F \/ (o = c /\ b \notin ChildrenIn(ms)))
  BY FreedIsBelow
<1> HIDE DEF F
<1>3. c \notin F
  BY <1>1, <1>2, LiveAreNumbers
<1>4. ASSUME NEW o \in DOMAIN members, NEW b \in Children(o) \cap F
      PROVE  o \in F \/ (o = c /\ b \notin ChildrenIn(ms))
  BY <1>1, <1>2, OwnerIsUnique
<1> QED BY <1>3, <1>4 DEF F

\* A sequence whose elements are in another set, too.
LEMMA SeqRetyped ==
  ASSUME NEW S, NEW T, NEW s \in Seq(S), \A i \in 1 .. Len(s) : s[i] \in T
  PROVE  s \in Seq(T)
<1>1. Len(s) \in Nat /\ s \in [1 .. Len(s) -> S]
  BY LenProperties
<1>2. s \in [1 .. Len(s) -> T]
  BY <1>1
<1> QED BY <1>1, <1>2, SeqDef

\* The calls that the code makes: c may be given one new child, which is new or
\* was held by a reader and came after c, and it may lose others.
Free(c, child) ==
  /\ child \in Live \/ (child = allocs + 1 /\ allocs < MaxBlocks)
  /\ child \notin lost /\ c < child
  /\ \A o \in DOMAIN members : child \notin Children(o)
Callable(c, ms, child) ==
  /\ c \in (DOMAIN members) \ lost
  /\ ms \in Seq([key : Keys \cup {NULL}, child : Live \cup {NULL, child}])
  /\ Len(ms) <= MaxMembers
  /\ ChildrenIn(ms) \subseteq Children(c) \cup {child}
  /\ child # NULL => Free(c, child) /\ child \in ChildrenIn(ms)
  /\ \A i, j \in DOMAIN ms : ms[i].child = ms[j].child /\ ms[i].child # NULL => i = j
  /\ \A i \in DOMAIN ms : ms[i].key \in KeyFor(c)
  /\ IsObject(c) => \A i, j \in DOMAIN ms : ms[i].key = ms[j].key => i = j
Calls(c, ms, k, child) ==
  /\ Callable(c, ms, child) /\ (child \in Live \cup {NULL} \/ k \in Kinds)
  /\ Holds(c, ms, k, child)

\* What they do.
Effect(c, ms, child) ==
  /\ Live' = (Live \ Freed(c, ms)) \cup New(child)
  /\ DOMAIN members' = Live' \cup {Root} /\ c \in DOMAIN members'
  /\ members'[c] = ms
  /\ \A b \in DOMAIN members' \ {c} :
       members'[b] = IF b \in New(child) THEN <<>> ELSE members[b]
  /\ kind' \in [Live' -> Kinds] /\ \A b \in Live' \ New(child) : kind'[b] = kind[b]
  /\ Live' \in SUBSET (1 .. allocs') /\ allocs' \in allocs .. MaxBlocks
  /\ allocs' = IF New(child) = {} THEN allocs ELSE child
  /\ child # NULL => child \in Live' /\ child \notin Freed(c, ms) /\ c # child

\* What such a call does, one conjunct for each variable.
LEMMA HoldsEffect ==
  ASSUME IndInv, NEW c, NEW ms, NEW k, NEW child, Calls(c, ms, k, child)
  PROVE  Effect(c, ms, child)
<1> DEFINE F == Freed(c, ms)
           N == {child} \ ((Live \ F) \cup {NULL})
<1>1. TypeOK /\ c \in (DOMAIN members) \ lost
  BY DEF IndInv, Calls, Callable, Free
<1>2. F \in SUBSET Live /\ \A b \in F : \E o \in DOMAIN members : b \in Children(o)
  BY <1>1, FreedIsBelow
<1>3. child # NULL => child \notin F
  BY <1>2 DEF Calls, Callable, Free
<1>4. N = New(child)
  BY <1>3 DEF New
<1>5. /\ members' = [b \in (Live \ F) \cup N \cup {Root} |->
                       IF b = c THEN ms ELSE IF b \in N THEN <<>> ELSE members[b]]
      /\ kind' = [b \in (Live \ F) \cup N |-> IF b \in N THEN k ELSE kind[b]]
      /\ allocs' = IF N = {} THEN allocs ELSE child
  BY DEF Calls, Holds, Freed
<1> HIDE DEF F, N
<1>6. Live' = (Live \ F) \cup N /\ DOMAIN members' = Live' \cup {Root}
  BY <1>5 DEF Live
<1>7. c \in DOMAIN members' /\ c \notin N /\ (child # NULL => c # child)
  <2>1. c \in Live \cup {Root} /\ c \notin F
    BY <1>1, KeptStaysWhole DEF TypeOK, F
  <2>2. c \in Int
    BY <1>1, <2>1, LiveAreNumbers DEF Root
  <2>3. ~(c < c)
    BY <2>2
  <2>4. c # child \/ child = NULL
    BY <2>3 DEF Calls, Callable, Free
  <2> QED BY <1>4, <1>6, <2>1, <2>4 DEF New
<1>8. /\ members'[c] = ms
      /\ \A b \in DOMAIN members' \ {c} : members'[b] = IF b \in N THEN <<>> ELSE members[b]
  BY <1>5, <1>6, <1>7
<1>9. kind' \in [Live' -> Kinds] /\ \A b \in Live' \ N : kind'[b] = kind[b]
  <2>1. N # {} => k \in Kinds
    BY <1>4 DEF New, Calls
  <2>2. kind \in [Live -> Kinds]
    BY <1>1 DEF TypeOK
  <2>3. Live' = DOMAIN kind'
    BY DEF Live
  <2>4. \A b \in Live' : kind'[b] \in Kinds
    BY <1>5, <1>6, <2>1, <2>2
  <2> QED BY <1>5, <1>6, <2>3, <2>4
<1>10. Live' \in SUBSET (1 .. allocs') /\ allocs' \in allocs .. MaxBlocks
  <2>1. allocs \in Int /\ MaxBlocks \in Int /\ 0 <= allocs /\ allocs <= MaxBlocks /\ Live \in SUBSET (1 .. allocs)
    BY <1>1, DocumentAssumption DEF TypeOK
  <2>2. CASE N = {}
    <3>1. allocs' = allocs /\ Live' \subseteq Live
      BY <1>5, <1>6, <2>2
    <3> QED BY <2>1, <3>1
  <2>3. CASE N # {}
    <3>1. N = {child} /\ child = allocs + 1 /\ allocs < MaxBlocks
      BY <2>3, <1>4 DEF New, Calls, Callable, Free
    <3>2. allocs' = allocs + 1 /\ Live' \subseteq (1 .. allocs) \cup {allocs + 1}
      BY <1>5, <1>6, <2>1, <2>3, <3>1
    <3>3. (1 .. allocs) \cup {allocs + 1} = 1 .. allocs + 1 /\ allocs + 1 \in allocs .. MaxBlocks
      BY <2>1, <3>1
    <3> QED BY <3>2, <3>3
  <2> QED BY <2>2, <2>3
<1>11. child # NULL => child \in Live' /\ child \notin F /\ c # child
  BY <1>3, <1>6, <1>7 DEF N
<1> QED BY <1>4, <1>5, <1>6, <1>7, <1>8, <1>9, <1>10, <1>11 DEF F, Effect

\* Containers that were there keep their kind, and all but c their children.
LEMMA HoldsFrame ==
  ASSUME IndInv, NEW c, NEW ms, NEW k, NEW child, Calls(c, ms, k, child)
  PROVE  /\ c \notin New(child) /\ New(child) \cap DOMAIN members = {}
         /\ \A x \in DOMAIN members' \ New(child) :
              /\ x \in DOMAIN members \ Freed(c, ms)
              /\ IsObject(x)' = IsObject(x) /\ IsArray(x)' = IsArray(x) /\ KeyFor(x)' = KeyFor(x)
         /\ \A x \in DOMAIN members' :
              Children(x)' = IF x = c THEN ChildrenIn(ms)
                             ELSE IF x \in New(child) THEN {} ELSE Children(x)
<1>1. /\ Live' = (Live \ Freed(c, ms)) \cup New(child)
      /\ DOMAIN members' = Live' \cup {Root} /\ c \in DOMAIN members'
      /\ members'[c] = ms
      /\ \A b \in DOMAIN members' \ {c} :
           members'[b] = IF b \in New(child) THEN <<>> ELSE members[b]
      /\ \A b \in Live' \ New(child) : kind'[b] = kind[b]
      /\ child # NULL => c # child
  <2>1. Effect(c, ms, child)
    BY HoldsEffect
  <2> QED BY <2>1 DEF Effect
<1>2. TypeOK /\ c \in (DOMAIN members) \ lost /\ DOMAIN members = Live \cup {Root} /\ Root \notin Live
  BY LiveAreNumbers DEF IndInv, Calls, Callable, Free, TypeOK
<1>3. Freed(c, ms) \subseteq Live /\ New(child) \cap Live = {}
  BY <1>2, FreedIsBelow DEF New
<1>4. Root \notin New(child)
  BY <1>2, LiveAreNumbers DEF New, Calls, Callable, Free, Root
<1>5. c \notin New(child) /\ New(child) \cap DOMAIN members = {}
  BY <1>1, <1>2, <1>3, <1>4 DEF New
<1>6. ASSUME NEW x \in DOMAIN members' \ New(child)
      PROVE  /\ x \in DOMAIN members \ Freed(c, ms)
             /\ IsObject(x)' = IsObject(x) /\ IsArray(x)' = IsArray(x) /\ KeyFor(x)' = KeyFor(x)
  <2>1. x \in Live' <=> x \in Live
    BY <1>1, <1>2, <1>3, <1>4
  <2>2. x \in Live => kind'[x] = kind[x]
    BY <1>1, <2>1
  <2>3. x \in DOMAIN members \ Freed(c, ms)
    BY <1>1, <1>2, <1>3
  <2>4. IsArray(x)' = IsArray(x) /\ IsObject(x)' = IsObject(x)
    BY <2>1, <2>2 DEF IsObject, IsArray
  <2> QED BY <2>3, <2>4 DEF KeyFor
<1>7. \A x \in DOMAIN members' :
        Children(x)' = IF x = c THEN ChildrenIn(ms)
                       ELSE IF x \in New(child) THEN {} ELSE Children(x)
  <2>1. ChildrenIn(<<>>) = {}
    BY DEF ChildrenIn
  <2>2. \A x : Children(x)' = ChildrenIn(members'[x])
    BY DEF Children, ChildrenIn
  <2> QED BY <1>1, <2>1, <2>2 DEF Children
<1> QED BY <1>5, <1>6, <1>7

\* Members refer to containers that are there, and have the keys they may have.
LEMMA HoldsKeepsMembers ==
  ASSUME IndInv, NEW c, NEW ms, NEW k, NEW child, Calls(c, ms, k, child)
  PROVE  \A x \in DOMAIN members' :
           /\ members'[x] \in Seq([key : Keys \cup {NULL}, child : Live' \cup {NULL}])
           /\ Len(members'[x]) <= MaxMembers
           /\ \A i \in DOMAIN members'[x] : /\ members'[x][i].child \in Live' \cup {NULL}
                                            /\ members'[x][i].key \in KeyFor(x)'
<1> DEFINE M == [key : Keys \cup {NULL}, child : Live' \cup {NULL}]
<1>1. TypeOK /\ TreeOK /\ c \in (DOMAIN members) \ lost
  BY DEF IndInv, Calls, Callable, Free
<1>2. /\ Live' = (Live \ Freed(c, ms)) \cup New(child)
      /\ DOMAIN members' = Live' \cup {Root} /\ c \in DOMAIN members'
      /\ members'[c] = ms
      /\ \A b \in DOMAIN members' \ {c} :
           members'[b] = IF b \in New(child) THEN <<>> ELSE members[b]
      /\ child # NULL => child \in Live'
  <2>1. Effect(c, ms, child)
    BY HoldsEffect
  <2> QED BY <2>1 DEF Effect
<1>3. /\ c \notin New(child)
      /\ \A x \in DOMAIN members' \ New(child) :
           x \in DOMAIN members \ Freed(c, ms) /\ KeyFor(x)' = KeyFor(x)
  BY HoldsFrame
<1>4. /\ \A o \in DOMAIN members \ (Freed(c, ms) \cup {c}) : Children(o) \cap Freed(c, ms) = {}
      /\ ChildrenIn(ms) \cap Children(c) \cap Freed(c, ms) = {}
  BY <1>1, KeptStaysWhole
<1>5. /\ members'[c] \in Seq(M) /\ Len(members'[c]) <= MaxMembers
      /\ \A i \in DOMAIN members'[c] : /\ members'[c][i].child \in Live' \cup {NULL}
                                       /\ members'[c][i].key \in KeyFor(c)'
  <2> DEFINE M0 == [key : Keys \cup {NULL}, child : Live \cup {NULL, child}]
  <2>1. ms \in Seq(M0) /\ Len(ms) <= MaxMembers /\ ChildrenIn(ms) \subseteq Children(c) \cup {child}
    BY DEF Calls, Callable, Free
  <2>2. DOMAIN ms = 1 .. Len(ms) /\ \A i \in 1 .. Len(ms) : ms[i] \in M0
    <3> HIDE DEF M0
    <3> QED BY <2>1, LenProperties, ElementOfSeq
  <2>3. Children(c) \subseteq Live
    BY <1>1, ChildrenAreLive
  <2>4. \A i \in 1 .. Len(ms) : ms[i].child \in Live' \cup {NULL}
    BY <1>2, <1>4, <2>1, <2>2, <2>3 DEF ChildrenIn
  <2>5. \A i \in 1 .. Len(ms) : ms[i] \in M
    BY <2>2, <2>4
  <2>6. ms \in Seq(M)
    <3> HIDE DEF M, M0
    <3> QED BY <2>1, <2>5, SeqRetyped
  <2> QED BY <1>2, <1>3, <2>1, <2>2, <2>4, <2>6 DEF Calls, Callable, Free
<1>6. ASSUME NEW x \in DOMAIN members' \ {c}
      PROVE  /\ members'[x] \in Seq(M) /\ Len(members'[x]) <= MaxMembers
             /\ \A i \in DOMAIN members'[x] : /\ members'[x][i].child \in Live' \cup {NULL}
                                              /\ members'[x][i].key \in KeyFor(x)'
  <2>1. CASE x \in New(child)
    <3>1. members'[x] = <<>>
      BY <1>2, <2>1
    <3>2. MaxMembers \in Nat
      BY DocumentAssumption
    <3> HIDE DEF M
    <3> QED BY <3>1, <3>2, EmptySeq
  <2>2. CASE x \notin New(child)
    <3>1. x \in DOMAIN members \ Freed(c, ms) /\ members'[x] = members[x] /\ KeyFor(x)' = KeyFor(x)
      BY <1>2, <1>3, <2>2
    <3>2. /\ members[x] \in Seq(MemberSet) /\ Len(members[x]) <= MaxMembers
          /\ \A i \in DOMAIN members[x] : /\ members[x][i].child \in Live \cup {NULL}
                                          /\ members[x][i].key \in KeyFor(x)
      BY <1>1, <3>1 DEF TreeOK, TypeOK
    <3>3. DOMAIN members[x] = 1 .. Len(members[x]) /\ \A i \in 1 .. Len(members[x]) : members[x][i] \in MemberSet
      BY <3>2, LenProperties, ElementOfSeq
    <3>4. \A i \in 1 .. Len(members[x]) : members[x][i].child \in Live' \cup {NULL}
      BY <1>2, <1>4, <3>1, <3>2, <3>3 DEF Children, ChildrenIn
    <3>5. \A i \in 1 .. Len(members[x]) : members[x][i] \in M
      BY <3>3, <3>4 DEF MemberSet
    <3>6. members[x] \in Seq(M)
      <4> HIDE DEF M
      <4> QED BY <3>2, <3>5, SeqRetyped
    <3> QED BY <3>1, <3>2, <3>3, <3>4, <3>6
  <2> QED BY <2>1, <2>2
<1> HIDE DEF M
<1> QED BY <1>5, <1>6 DEF M

\* The tree stays a tree.
LEMMA HoldsKeepsTree ==
  ASSUME IndInv, NEW c, NEW ms, NEW k, NEW child, Calls(c, ms, k, child)
  PROVE  TreeOK' /\ KeysUnique'
<1>1. TypeOK /\ TreeOK /\ KeysUnique
  BY DEF IndInv
<1>2. Effect(c, ms, child)
  BY HoldsEffect
<1>3. /\ c \notin New(child) /\ New(child) \cap DOMAIN members = {}
      /\ \A x \in DOMAIN members' \ New(child) :
           x \in DOMAIN members \ Freed(c, ms) /\ IsObject(x)' = IsObject(x)
      /\ \A x \in DOMAIN members' :
           Children(x)' = IF x = c THEN ChildrenIn(ms)
                          ELSE IF x \in New(child) THEN {} ELSE Children(x)
  BY HoldsFrame
<1>4. \A x \in DOMAIN members' : /\ members'[x] \in Seq(MemberSet') /\ Len(members'[x]) <= MaxMembers
                                 /\ members'[x] = IF x = c THEN ms
                                                  ELSE IF x \in New(child) THEN <<>> ELSE members[x]
  <2>1. \A x \in DOMAIN members' :
          /\ members'[x] \in Seq([key : Keys \cup {NULL}, child : Live' \cup {NULL}])
          /\ Len(members'[x]) <= MaxMembers
    BY HoldsKeepsMembers
  <2> QED BY <2>1, <1>2 DEF MemberSet, Effect
<1>5. ASSUME NEW x \in DOMAIN members', NEW b \in Children(x)'  PROVE x < b
  <2>1. CASE x = c
    BY <1>1, <1>3, <1>5, <2>1 DEF TreeOK, Calls, Callable, Free, ChildrenIn
  <2>2. CASE x # c
    BY <1>1, <1>3, <1>5, <2>2 DEF TreeOK
  <2> QED BY <2>1, <2>2
<1>6. OneOwner'
  <2> SUFFICES ASSUME NEW x \in DOMAIN members', NEW y \in DOMAIN members',
                      NEW i \in DOMAIN members'[x], NEW j \in DOMAIN members'[y],
                      members'[x][i].child = members'[y][j].child, members'[x][i].child # NULL
               PROVE  x = y /\ i = j
    BY DEF OneOwner
  <2> DEFINE b == members'[x][i].child
  <2>1. b \in Children(x)' /\ b \in Children(y)'
    BY DEF Children, ChildrenIn
  <2>2. x \notin New(child) /\ y \notin New(child)
    BY <1>3, <2>1
  <2>3. x \in DOMAIN members /\ y \in DOMAIN members
    BY <1>3, <2>2
  <2>4. x = y
    <3>1. ASSUME NEW z \in DOMAIN members, z # c, b \in Children(z)  PROVE b \notin ChildrenIn(ms)
      <4>1. b \in Live /\ b # NULL
        BY <1>1, <3>1, ChildrenAreLive, LiveAreNumbers
      <4>2. b # child
        BY <3>1, <4>1 DEF Calls, Callable, Free
      <4>3. b \notin Children(c)
        BY <1>1, <3>1, OwnerIsUnique DEF Calls, Callable, Free
      <4> QED BY <4>2, <4>3 DEF Calls, Callable, Free
    <3>2. x # c /\ y # c => x = y
      BY <1>1, <1>3, <2>1, <2>2, <2>3, OwnerIsUnique
    <3> QED BY <1>3, <2>1, <2>2, <2>3, <3>1, <3>2
  <2>5. CASE x = c
    BY <1>4, <2>4, <2>5 DEF Calls, Callable, Free
  <2>6. CASE x # c
    <3>1. members'[x] = members[x]
      BY <1>4, <2>2, <2>6
    <3> QED BY <1>1, <2>3, <2>4, <3>1 DEF TreeOK, OneOwner
  <2> QED BY <2>4, <2>5, <2>6
<1>7. KeysUnique'
  <2> SUFFICES ASSUME NEW x \in DOMAIN members', IsObject(x)',
                      NEW i \in DOMAIN members'[x], NEW j \in DOMAIN members'[x],
                      members'[x][i].key = members'[x][j].key
               PROVE  i = j
    BY DEF KeysUnique
  <2>1. CASE x = c
    BY <1>3, <1>4, <2>1 DEF Calls, Callable, Free
  <2>2. CASE x \in New(child)
    BY <1>3, <1>4, <2>2
  <2>3. CASE x # c /\ x \notin New(child)
    BY <1>1, <1>3, <1>4, <2>3 DEF KeysUnique
  <2> QED BY <2>1, <2>2, <2>3
<1> QED BY <1>4, <1>5, <1>6, <1>7 DEF TreeOK

\* What is lost stays so, and everything else belongs to someone.
LEMMA HoldsKeepsOwners ==
  ASSUME IndInv, NEW c, NEW ms, NEW k, NEW child, Calls(c, ms, k, child)
  PROVE  /\ \A x \in DOMAIN members' : \A b \in Children(x)' : b \in lost <=> x \in lost
         /\ \A b \in Live' : b \in (Held \ {child}) \cup lost
                             \/ \E o \in DOMAIN members' : b \in Children(o)'
         /\ lost \subseteq Live'
         /\ \A b \in Held \ {child}, o \in DOMAIN members' : b \notin Children(o)'
         /\ Held \subseteq Live'
<1>1. TypeOK /\ TreeOK /\ LostOK /\ PathOK /\ c \in (DOMAIN members) \ lost
  BY DEF IndInv, Calls, Callable, Free
<1>2. /\ Live' = (Live \ Freed(c, ms)) \cup New(child)
      /\ DOMAIN members' = Live' \cup {Root} /\ c \in DOMAIN members'
  <2>1. Effect(c, ms, child)
    BY HoldsEffect
  <2> QED BY <2>1 DEF Effect
<1>3. /\ c \notin New(child) /\ New(child) \cap DOMAIN members = {}
      /\ \A x \in DOMAIN members' \ New(child) : x \in DOMAIN members \ Freed(c, ms)
      /\ \A x \in DOMAIN members' :
           Children(x)' = IF x = c THEN ChildrenIn(ms)
                          ELSE IF x \in New(child) THEN {} ELSE Children(x)
  BY HoldsFrame
<1>4. /\ Freed(c, ms) \in SUBSET (Live \ (lost \cup Held))
      /\ \A b \in Live : b \in Freed(c, ms) <=>
           \E o \in DOMAIN members : b \in Children(o) /\
             (o \in Freed(c, ms) \/ (o = c /\ b \notin ChildrenIn(ms)))
  BY <1>1, FreedIsBelow
<1>5. /\ ChildrenIn(ms) \subseteq Children(c) \cup {child}
      /\ child # NULL => child \in ChildrenIn(ms) /\ child \notin lost
      /\ NULL \notin ChildrenIn(ms)
  BY DEF Calls, Callable, Free, ChildrenIn
<1>6. DOMAIN members = Live \cup {Root} /\ lost \subseteq Live
  BY <1>1 DEF TypeOK
<1>7. \A x \in DOMAIN members' : \A b \in Children(x)' : b \in lost <=> x \in lost
  BY <1>1, <1>3, <1>5 DEF LostOK
<1>8. ASSUME NEW b \in Live', b \notin (Held \ {child}) \cup lost
      PROVE  \E o \in DOMAIN members' : b \in Children(o)'
  <2>1. CASE b = child
    BY <1>2, <1>3, <1>5, <2>1, <1>1, <1>8, LiveAreNumbers DEF New
  <2>2. CASE b # child
    <3>1. b \in Live \ Freed(c, ms)
      BY <1>2, <2>2 DEF New
    <3>2. PICK o \in DOMAIN members : b \in Children(o)
      BY <1>1, <1>8, <2>2, <3>1 DEF LostOK
    <3>3. o \notin Freed(c, ms) /\ (o = c => b \in ChildrenIn(ms))
      BY <1>4, <3>1, <3>2
    <3>4. o \in DOMAIN members' /\ o \notin New(child)
      BY <1>2, <1>3, <1>6, <3>2, <3>3
    <3> QED BY <1>3, <3>2, <3>3, <3>4
  <2> QED BY <2>1, <2>2
<1>9. \A b \in Held \ {child} : b \in Live \ lost /\ \A o \in DOMAIN members' : b \notin Children(o)'
  <2>1. \A b \in Held : b \in Live \ lost /\ \A o \in DOMAIN members : b \notin Children(o)
    BY <1>1, HeldIsFree
  <2> QED BY <1>1, <1>3, <1>5, <2>1
<1>10. lost \subseteq Live' /\ Held \subseteq Live'
  <2>1. Held \subseteq Live
    BY <1>1, HeldIsFree
  <2> QED BY <1>2, <1>4, <1>6, <2>1
<1> QED BY <1>7, <1>8, <1>9, <1>10

-----------------------------------------------------------------------------
(* The path of a reader. *)
PathIn(p) ==
  /\ p \in Seq([c : Live \ lost, key : Keys \cup {NULL}, held : BOOLEAN])
  /\ \A i \in 1 .. Len(p) : p[i].key \in KeyFor(IF i = 1 THEN Root ELSE p[i - 1].c)
  /\ \A i, j \in 1 .. Len(p) : i < j => p[i].c < p[j].c
  /\ \A i \in 1 .. Len(p) : p[i].held => \A o \in DOMAIN members : p[i].c \notin Children(o)

\* PathOK says this of path.
LEMMA NextPathOKIsPathIn ==
  ASSUME NEW p, p = path', PathIn(p)'
  PROVE  PathOK'
<1>1. p \in Seq([c : Live' \ lost', key : Keys \cup {NULL}, held : BOOLEAN])
  BY DEF PathIn
<1>2. DOMAIN p = 1 .. Len(p)
  BY <1>1, LenProperties
<1>3. Held' = {x.c : x \in {x \in {p[i] : i \in 1 .. Len(p)} : x.held}}
  BY <1>2 DEF Held, Range
<1>4. \A b \in Held' : \E i \in 1 .. Len(p) : p[i].held /\ p[i].c = b
  BY <1>3
<1> QED BY <1>1, <1>4 DEF PathOK, PathIn, Around

\* The containers on a path are allocated.
LEMMA NextPathIsLive ==
  ASSUME PathOK'
  PROVE  \A i \in DOMAIN path' : path'[i].c \in Live'
<1> DEFINE R == [c : Live' \ lost', key : Keys \cup {NULL}, held : BOOLEAN]
<1>1. PICK p \in Seq(R) : p = path'
  BY DEF PathOK
<1>2. \A i \in DOMAIN p : p[i] \in R
  <2> HIDE DEF R
  <2> QED BY LenProperties, ElementOfSeq
<1> QED BY <1>1, <1>2

\* The containers held are some of those on the path.
LEMMA NextHeldOnPath ==
  ASSUME NEW p, p = path', NEW S, p \in Seq(S), NEW b
  PROVE  b \in Held' <=> \E i \in 1 .. Len(p) : p[i].held /\ p[i].c = b
<1>1. DOMAIN p = 1 .. Len(p)
  BY LenProperties
<1>2. Held' = {x.c : x \in {x \in {p[i] : i \in 1 .. Len(p)} : x.held}}
  BY <1>1 DEF Held, Range
<1> QED BY <1>2

\* The beginning of a path stays one when its containers are kept as they are.
LEMMA PathCarriesOver ==
  ASSUME PathOK, NEW n \in 0 .. Len(path), NEW p, p = SubSeq(path, 1, n),
         KeyFor(Root)' = KeyFor(Root),
         \A x \in {path[i].c : i \in 1 .. n} : x \in Live' \ lost' /\ KeyFor(x)' = KeyFor(x),
         \A x \in Held : (\E i \in 1 .. n : path[i].held /\ path[i].c = x) =>
                           \A o \in DOMAIN members' : x \notin Children(o)'
  PROVE  PathIn(p)' /\ Len(p) = n /\ \A i \in 1 .. n : p[i] = path[i]
<1> DEFINE R == [c : Live \ lost, key : Keys \cup {NULL}, held : BOOLEAN]
           R2 == [c : Live' \ lost', key : Keys \cup {NULL}, held : BOOLEAN]
<1>1. path \in Seq(R)
  BY DEF PathOK
<1>2. n \in Int /\ Len(path) \in Nat /\ \A i \in 1 .. n : path[i] \in R
  <2> HIDE DEF R
  <2> QED BY <1>1, LenProperties, ElementOfSeq
<1>3. p \in Seq(R) /\ Len(p) = n /\ \A i \in 1 .. n : p[i] = path[i]
  <2> HIDE DEF R
  <2>1. /\ SubSeq(path, 1, n) \in Seq(R)
        /\ Len(SubSeq(path, 1, n)) = IF 1 <= n THEN n - 1 + 1 ELSE 0
        /\ \A i \in 1 .. n - 1 + 1 : SubSeq(path, 1, n)[i] = path[1 + i - 1]
    BY <1>2, SubSeqProperties
  <2>2. n - 1 + 1 = n /\ \A i \in 1 .. n : 1 + i - 1 = i
    BY <1>2
  <2> QED BY <1>2, <2>1, <2>2
<1>4. \A i \in 1 .. n : p[i] \in R2
  BY <1>2, <1>3
<1>5. p \in Seq(R2)
  <2> HIDE DEF R, R2
  <2> QED BY <1>3, <1>4, SeqRetyped
<1>6. \A i \in 1 .. n : p[i].key \in KeyFor(IF i = 1 THEN Root ELSE p[i - 1].c)'
  <2> SUFFICES ASSUME NEW i \in 1 .. n
               PROVE  p[i].key \in KeyFor(IF i = 1 THEN Root ELSE p[i - 1].c)'
    OBVIOUS
  <2>1. path[i].key \in KeyFor(IF i = 1 THEN Root ELSE path[i - 1].c)
    BY <1>2 DEF PathOK, Around
  <2>2. CASE i = 1
    BY <1>3, <2>1, <2>2
  <2>3. CASE i # 1
    <3>1. i - 1 \in 1 .. n
      BY <2>3
    <3> QED BY <1>3, <2>1, <2>3, <3>1
  <2> QED BY <2>2, <2>3
<1>7. \A i, j \in 1 .. n : i < j => p[i].c < p[j].c
  BY <1>2, <1>3 DEF PathOK
<1>8. \A i \in 1 .. n : p[i].held => \A o \in DOMAIN members' : p[i].c \notin Children(o)'
  <2>1. \A i \in 1 .. n : path[i].held => path[i].c \in Held
    BY <1>1, <1>2, HeldOnPath
  <2> QED BY <1>3, <2>1
<1> QED BY <1>3, <1>5, <1>6, <1>7, <1>8 DEF PathIn

\* A path goes on to a container that was allocated later.
LEMMA PathGoesOn ==
  ASSUME NEW p, PathIn(p)', NEW b \in Live' \ lost', NEW key \in Keys \cup {NULL},
         NEW h \in BOOLEAN,
         key \in KeyFor(IF p = <<>> THEN Root ELSE p[Len(p)].c)',
         \A i \in 1 .. Len(p) : p[i].c < b,
         h => \A o \in DOMAIN members' : b \notin Children(o)'
  PROVE  PathIn(Append(p, Step(b, key, h)))'
<1> DEFINE R == [c : Live' \ lost', key : Keys \cup {NULL}, held : BOOLEAN]
           s == Step(b, key, h)
           q == Append(p, s)
<1>1. p \in Seq(R) /\ s \in R /\ s.c = b /\ s.key = key /\ s.held = h
  BY DEF PathIn, Step
<1>2. q \in Seq(R) /\ Len(p) \in Nat /\ Len(q) = Len(p) + 1 /\ q[Len(p) + 1] = s
      /\ (\A i \in 1 .. Len(p) : q[i] = p[i]) /\ (p = <<>> <=> Len(p) = 0)
  <2> HIDE DEF R, s
  <2> QED BY <1>1, AppendProperties, EmptySeq, LenProperties
<1>3. \A i \in 1 .. Len(q) : i \in 1 .. Len(p) \/ i = Len(p) + 1
  BY <1>2
<1> HIDE DEF q, s
<1>4. \A i \in 1 .. Len(q) : q[i].key \in KeyFor(IF i = 1 THEN Root ELSE q[i - 1].c)'
  <2> SUFFICES ASSUME NEW i \in 1 .. Len(q)
               PROVE  q[i].key \in KeyFor(IF i = 1 THEN Root ELSE q[i - 1].c)'
    OBVIOUS
  <2>1. CASE i \in 1 .. Len(p)
    <3>1. p[i].key \in KeyFor(IF i = 1 THEN Root ELSE p[i - 1].c)'
      BY <2>1 DEF PathIn
    <3>2. i # 1 => i - 1 \in 1 .. Len(p)
      BY <1>2, <2>1
    <3>3. q[i] = p[i] /\ (i # 1 => q[i - 1] = p[i - 1])
      BY <1>2, <2>1, <3>2
    <3>4. CASE i = 1
      BY <3>1, <3>3, <3>4
    <3>5. CASE i # 1
      BY <3>1, <3>3, <3>5
    <3> QED BY <3>4, <3>5
  <2>2. CASE i = Len(p) + 1
    <3>1. q[i].key = key
      BY <1>1, <1>2, <2>2
    <3>2. CASE p = <<>>
      BY <1>2, <2>2, <3>1, <3>2
    <3>3. CASE p # <<>>
      <4>1. i # 1 /\ i - 1 = Len(p) /\ Len(p) \in 1 .. Len(p)
        BY <1>2, <2>2, <3>3
      <4> QED BY <1>2, <3>1, <3>3, <4>1
    <3> QED BY <3>2, <3>3
  <2> QED BY <1>3, <2>1, <2>2
<1>5. ASSUME NEW i \in 1 .. Len(q), NEW j \in 1 .. Len(q), i < j  PROVE q[i].c < q[j].c
  <2>1. i \in 1 .. Len(p)
    BY <1>2, <1>3, <1>5
  <2>2. j \in 1 .. Len(p) => p[i].c < p[j].c
    BY <1>5, <2>1 DEF PathIn
  <2> QED BY <1>1, <1>2, <1>3, <2>1, <2>2
<1>6. \A i \in 1 .. Len(q) : q[i].held => \A o \in DOMAIN members' : q[i].c \notin Children(o)'
  BY <1>1, <1>2, <1>3 DEF PathIn
<1> QED BY <1>2, <1>4, <1>5, <1>6 DEF PathIn, q, s

-----------------------------------------------------------------------------
(* The calls of the model are such calls. *)

\* What a container's members are.
LEMMA MembersAreRecords ==
  ASSUME IndInv, NEW c \in DOMAIN members, NEW child
  PROVE  /\ members[c] \in Seq([key : Keys \cup {NULL}, child : Live \cup {NULL, child}])
         /\ Len(members[c]) \in Nat /\ Len(members[c]) <= MaxMembers
         /\ DOMAIN members[c] = 1 .. Len(members[c])
         /\ \A i \in 1 .. Len(members[c]) :
              /\ members[c][i] \in [key : Keys \cup {NULL}, child : Live \cup {NULL, child}]
              /\ members[c][i].key \in KeyFor(c)
              /\ members[c][i].child # NULL => members[c][i].child \in Children(c)
         /\ \A i, j \in 1 .. Len(members[c]) :
              /\ members[c][i].child = members[c][j].child /\ members[c][i].child # NULL => i = j
              /\ IsObject(c) /\ members[c][i].key = members[c][j].key => i = j
<1> DEFINE M == [key : Keys \cup {NULL}, child : Live \cup {NULL, child}]
<1>1. TypeOK /\ TreeOK /\ KeysUnique
  BY DEF IndInv
<1>2. /\ members[c] \in Seq(MemberSet) /\ Len(members[c]) \in Nat /\ Len(members[c]) <= MaxMembers
      /\ DOMAIN members[c] = 1 .. Len(members[c])
      /\ \A i \in 1 .. Len(members[c]) : members[c][i] \in MemberSet
  BY <1>1, LenProperties, ElementOfSeq DEF TreeOK
<1>3. MemberSet \subseteq M
  BY DEF MemberSet
<1>4. members[c] \in Seq(M) /\ \A i \in 1 .. Len(members[c]) : members[c][i] \in M
  <2> HIDE DEF M
  <2> QED BY <1>2, <1>3, SeqMonotonic
<1>5. \A i \in 1 .. Len(members[c]) :
        /\ members[c][i].key \in KeyFor(c)
        /\ members[c][i].child # NULL => members[c][i].child \in Children(c)
  BY <1>1, <1>2 DEF TypeOK, Children, ChildrenIn
<1>6. \A i, j \in 1 .. Len(members[c]) :
        /\ members[c][i].child = members[c][j].child /\ members[c][i].child # NULL => i = j
        /\ IsObject(c) /\ members[c][i].key = members[c][j].key => i = j
  BY <1>1, <1>2 DEF TreeOK, OneOwner, KeysUnique
<1> QED BY <1>2, <1>4, <1>5, <1>6

\* Something is put at the end of an array, or of an object without the key.
LEMMA AppendIsCallable ==
  ASSUME IndInv, NEW c \in (DOMAIN members) \ lost, NEW key \in KeyFor(c), NEW child,
         key \in Keys \cup {NULL}, Len(Append(members[c], Member(key, child))) <= MaxMembers,
         IsObject(c) => \A i \in DOMAIN members[c] : members[c][i].key # key,
         child # NULL => Free(c, child)
  PROVE  Callable(c, Append(members[c], Member(key, child)), child)
<1> DEFINE M == [key : Keys \cup {NULL}, child : Live \cup {NULL, child}]
           ms == Append(members[c], Member(key, child))
           n == Len(members[c])
<1>1. /\ members[c] \in Seq(M) /\ n \in Nat /\ DOMAIN members[c] = 1 .. n
      /\ \A i \in 1 .. n : /\ members[c][i].key \in KeyFor(c)
                           /\ members[c][i].child # NULL => members[c][i].child \in Children(c)
      /\ \A i, j \in 1 .. n :
           /\ members[c][i].child = members[c][j].child /\ members[c][i].child # NULL => i = j
           /\ IsObject(c) /\ members[c][i].key = members[c][j].key => i = j
  BY MembersAreRecords
<1>2. Member(key, child) \in M /\ Member(key, child).key = key /\ Member(key, child).child = child
  BY DEF Member
<1>3. /\ ms \in Seq(M) /\ Len(ms) = n + 1 /\ DOMAIN ms = 1 .. n + 1
      /\ ms[n + 1].key = key /\ ms[n + 1].child = child
      /\ \A i \in 1 .. n : ms[i] = members[c][i]
  <2> HIDE DEF M
  <2> QED BY <1>1, <1>2, AppendProperties, LenProperties
<1> HIDE DEF ms, n, M
<1>4. \A i \in DOMAIN ms : i \in 1 .. n \/ i = n + 1
  BY <1>1, <1>3
<1>5. ChildrenIn(ms) \subseteq Children(c) \cup {child} /\ (child # NULL => child \in ChildrenIn(ms))
  <2>1. n + 1 \in DOMAIN ms
    BY <1>1, <1>3
  <2> QED BY <1>1, <1>3, <1>4, <2>1 DEF ChildrenIn
<1>6. child # NULL => child \notin Children(c)
  BY DEF Free
<1>7. \A i, j \in DOMAIN ms :
        /\ ms[i].child = ms[j].child /\ ms[i].child # NULL => i = j
        /\ IsObject(c) /\ ms[i].key = ms[j].key => i = j
  BY <1>1, <1>3, <1>4, <1>6
<1>8. \A i \in DOMAIN ms : ms[i].key \in KeyFor(c)
  BY <1>1, <1>3, <1>4
<1>9. Len(ms) <= MaxMembers
  BY DEF ms
<1> QED BY <1>3, <1>5, <1>7, <1>8, <1>9 DEF Callable, M, ms

\* A member of an object is set.
LEMMA PutIsCallable ==
  ASSUME IndInv, NEW c \in (DOMAIN members) \ lost, IsObject(c), NEW key \in Keys, NEW child,
         Len(Put(members[c], key, child)) <= MaxMembers, child # NULL => Free(c, child)
  PROVE  Callable(c, Put(members[c], key, child), child)
<1>1. KeyFor(c) = Keys
  BY LiveAreNumbers DEF IndInv, KeyFor, IsObject, IsArray
<1>2. CASE \A i \in DOMAIN members[c] : members[c][i].key # key
  <2>1. Put(members[c], key, child) = Append(members[c], Member(key, child))
    BY <1>2 DEF Put
  <2> QED BY <1>1, <1>2, <2>1, AppendIsCallable
<1>3. CASE \E i \in DOMAIN members[c] : members[c][i].key = key
  <2> DEFINE M == [key : Keys \cup {NULL}, child : Live \cup {NULL, child}]
             ms == Put(members[c], key, child)
             n == Len(members[c])
  <2>1. /\ n \in Nat /\ DOMAIN members[c] = 1 .. n /\ n <= MaxMembers
        /\ \A i \in 1 .. n : /\ members[c][i] \in M /\ members[c][i].key \in KeyFor(c)
                             /\ members[c][i].child # NULL => members[c][i].child \in Children(c)
        /\ \A i, j \in 1 .. n :
             /\ members[c][i].child = members[c][j].child /\ members[c][i].child # NULL => i = j
             /\ members[c][i].key = members[c][j].key => i = j
    BY MembersAreRecords
  <2>2. Member(key, child) \in M /\ Member(key, child).key = key /\ Member(key, child).child = child
    BY DEF Member
  <2>3. ms = [i \in 1 .. n |-> IF members[c][i].key = key THEN Member(key, child) ELSE members[c][i]]
    BY <1>3, <2>1 DEF Put
  <2> HIDE DEF M, ms, n
  <2>4. ms \in [1 .. n -> M]
    BY <2>1, <2>2, <2>3
  <2>5. ms \in Seq(M) /\ DOMAIN ms = 1 .. n /\ Len(ms) = n
    <3>1. ms \in Seq(M)
      BY <2>1, <2>4, SeqDef
    <3> QED BY <2>1, <2>4, <3>1, LenProperties
  <2>6. ChildrenIn(ms) \subseteq Children(c) \cup {child} /\ (child # NULL => child \in ChildrenIn(ms))
    BY <1>3, <2>1, <2>2, <2>3, <2>5 DEF ChildrenIn
  <2>7. child # NULL => child \notin Children(c)
    BY DEF Free
  <2>8. \A i, j \in DOMAIN ms :
          /\ ms[i].child = ms[j].child /\ ms[i].child # NULL => i = j
          /\ ms[i].key = ms[j].key => i = j
    BY <2>1, <2>2, <2>3, <2>5, <2>7
  <2>9. \A i \in DOMAIN ms : ms[i].key \in KeyFor(c)
    BY <1>1, <2>1, <2>2, <2>3, <2>5
  <2> QED BY <2>1, <2>5, <2>6, <2>8, <2>9 DEF Callable, M, ms
<1> QED BY <1>2, <1>3

\* A member is removed, or all.
LEMMA RemovedIsCallable ==
  ASSUME IndInv, NEW c \in (DOMAIN members) \ lost, NEW r \in DOMAIN members[c]
  PROVE  Callable(c, Removed(members[c], r), NULL)
<1> DEFINE M == [key : Keys \cup {NULL}, child : Live \cup {NULL, NULL}]
           s == members[c]
           ms == Removed(s, r)
           n == Len(s)
<1>1. /\ s \in Seq(M) /\ n \in Nat /\ DOMAIN s = 1 .. n /\ n <= MaxMembers
      /\ \A i \in 1 .. n : /\ s[i] \in M /\ s[i].key \in KeyFor(c)
                           /\ s[i].child # NULL => s[i].child \in Children(c)
      /\ \A i, j \in 1 .. n :
           /\ s[i].child = s[j].child /\ s[i].child # NULL => i = j
           /\ IsObject(c) /\ s[i].key = s[j].key => i = j
  BY MembersAreRecords
<1>2. r \in 1 .. n
  BY <1>1
<1> HIDE DEF M, s, n
<1>3. /\ SubSeq(s, 1, r - 1) \in Seq(M) /\ Len(SubSeq(s, 1, r - 1)) = r - 1
      /\ \A i \in 1 .. r - 1 : SubSeq(s, 1, r - 1)[i] = s[i]
      /\ SubSeq(s, r + 1, n) \in Seq(M) /\ Len(SubSeq(s, r + 1, n)) = n - r
      /\ \A i \in 1 .. n - r : SubSeq(s, r + 1, n)[i] = s[r + i]
  BY <1>1, <1>2
<1>4. /\ ms \in Seq(M) /\ Len(ms) = n - 1
      /\ \A i \in 1 .. n - 1 : ms[i] = IF i <= r - 1 THEN s[i] ELSE s[i + 1]
  <2>1. ms = SubSeq(s, 1, r - 1) \o SubSeq(s, r + 1, n)
    BY DEF Removed, RemoveAt, n
  <2>2. (r - 1) + (n - r) = n - 1
    BY <1>1, <1>2
  <2>3. /\ ms \in Seq(M) /\ Len(ms) = n - 1
        /\ \A i \in 1 .. n - 1 : ms[i] = IF i <= r - 1 THEN SubSeq(s, 1, r - 1)[i]
                                         ELSE SubSeq(s, r + 1, n)[i - (r - 1)]
    <3> HIDE DEF ms
    <3>1. PICK u, v : u = SubSeq(s, 1, r - 1) /\ v = SubSeq(s, r + 1, n)
      OBVIOUS
    <3>2. u \in Seq(M) /\ v \in Seq(M) /\ Len(u) = r - 1 /\ Len(v) = n - r /\ ms = u \o v
      BY <1>3, <2>1, <3>1
    <3>3. /\ u \o v \in Seq(M) /\ Len(u \o v) = Len(u) + Len(v)
          /\ \A j \in 1 .. Len(u) : (u \o v)[j] = u[j]
          /\ \A j \in 1 .. Len(v) : (u \o v)[Len(u) + j] = v[j]
      <4>1. u \in Seq(M) /\ v \in Seq(M)
        BY <3>2
      <4> QED BY ONLY <4>1, Concatenated
    <3>4. \A i \in 1 .. n - 1 : /\ i <= r - 1 => i \in 1 .. Len(u)
                              /\ ~(i <= r - 1) => /\ i - (r - 1) \in 1 .. Len(v)
                                                  /\ Len(u) + (i - (r - 1)) = i
      BY <1>1, <1>2, <3>2
    <3>5. ASSUME NEW i \in 1 .. n - 1
          PROVE  ms[i] = IF i <= r - 1 THEN u[i] ELSE v[i - (r - 1)]
      BY <3>2, <3>3, <3>4
    <3> QED BY <2>2, <3>1, <3>2, <3>3, <3>5
  <2>4. ASSUME NEW i \in 1 .. n - 1  PROVE ms[i] = IF i <= r - 1 THEN s[i] ELSE s[i + 1]
    <3>1. CASE i <= r - 1
      BY <1>2, <1>3, <2>3, <3>1
    <3>2. CASE ~(i <= r - 1)
      <4>1. i - (r - 1) \in 1 .. n - r /\ r + (i - (r - 1)) = i + 1
        BY <1>1, <1>2, <3>2
      <4> QED BY <1>3, <2>3, <3>2, <4>1
    <3> QED BY <3>1, <3>2
  <2> QED BY <2>3, <2>4
<1>5. DOMAIN ms = 1 .. n - 1
  <2> HIDE DEF ms
  <2> QED BY <1>4, LenProperties
<1> DEFINE at(i) == IF i <= r - 1 THEN i ELSE i + 1
<1>6. \A i \in DOMAIN ms : ms[i] = s[at(i)] /\ at(i) \in 1 .. n
  BY <1>1, <1>2, <1>4, <1>5
<1>7. \A i, j \in DOMAIN ms : at(i) = at(j) => i = j
  BY <1>1, <1>2, <1>5
<1> HIDE DEF ms, at
<1>8. ChildrenIn(ms) \subseteq Children(c)
  BY <1>1, <1>6 DEF ChildrenIn
<1>9. \A i, j \in DOMAIN ms :
        /\ ms[i].child = ms[j].child /\ ms[i].child # NULL => i = j
        /\ IsObject(c) /\ ms[i].key = ms[j].key => i = j
  BY <1>1, <1>6, <1>7
<1>10. \A i \in DOMAIN ms : ms[i].key \in KeyFor(c)
  BY <1>1, <1>6
<1>11. Len(ms) <= MaxMembers
  BY <1>1, <1>4, DocumentAssumption
<1> QED BY <1>4, <1>8, <1>9, <1>10, <1>11 DEF Callable, M, ms, s

\* All members are removed, of the root object or another container.
LEMMA EmptyIsCallable ==
  ASSUME NEW c \in (DOMAIN members) \ lost
  PROVE  Callable(c, <<>>, NULL) /\ ChildrenIn(<<>>) = {}
BY DocumentAssumption DEF Callable, ChildrenIn

-----------------------------------------------------------------------------
(* The invariant is inductive. *)

\* A call on the container a reader is in, or on one around it, leaves the path.
Within(n, c, child) == \A i \in 1 .. n : path[i].c <= c /\ path[i].c # child
LEMMA CallKeepsPath ==
  ASSUME IndInv, NEW c, NEW ms, NEW k, NEW child, Calls(c, ms, k, child), lost' = lost,
         NEW n \in 0 .. Len(path), NEW p, p = SubSeq(path, 1, n),
         Within(n, c, child)
  PROVE  PathIn(p)' /\ Len(p) = n /\ \A i \in 1 .. n : p[i] = path[i]
<1>0. \A i \in 1 .. n : path[i].c <= c /\ path[i].c # child
  BY DEF Within
<1>1. TypeOK /\ PathOK /\ c \in (DOMAIN members) \ lost
  BY DEF IndInv, Calls, Callable
<1>2. /\ Live' = (Live \ Freed(c, ms)) \cup New(child)
      /\ DOMAIN members' = Live' \cup {Root}
  <2>1. Effect(c, ms, child)
    BY HoldsEffect
  <2> QED BY <2>1 DEF Effect
<1>3. /\ New(child) \cap DOMAIN members = {}
      /\ \A x \in DOMAIN members' \ New(child) : KeyFor(x)' = KeyFor(x)
  BY HoldsFrame
<1>4. Root \in DOMAIN members /\ Live \subseteq DOMAIN members
  BY <1>1 DEF TypeOK
<1>5. \A i \in 1 .. n : path[i].c \in Live \ lost
  <2> DEFINE R == [c : Live \ lost, key : Keys \cup {NULL}, held : BOOLEAN]
  <2>1. path \in Seq(R)
    BY <1>1 DEF PathOK
  <2>2. \A i \in 1 .. n : path[i] \in R
    <3> HIDE DEF R
    <3>1. Len(path) \in Nat /\ \A i \in 1 .. n : i \in 1 .. Len(path)
      BY <2>1, LenProperties
    <3> QED BY <2>1, <3>1, ElementOfSeq
  <2> QED BY <2>2
<1>6. \A b \in Freed(c, ms) : ~(b <= c)
  <2>1. \A b \in Freed(c, ms) : b \in Live /\ c < b
    BY <1>1, FreedIsBelow
  <2>2. c \in Live \cup {Root} /\ Live \in SUBSET Int /\ Root \in Int
    BY <1>1, LiveAreNumbers DEF TypeOK, Root
  <2>3. c \in Int /\ \A b \in Live : b \in Int
    BY <2>2
  <2> QED BY <2>1, <2>3
<1>7. \A x \in {path[i].c : i \in 1 .. n} : x \in Live' \ lost' /\ KeyFor(x)' = KeyFor(x)
  <2> SUFFICES ASSUME NEW i \in 1 .. n, NEW x, x = path[i].c
               PROVE  x \in Live' \ lost' /\ KeyFor(x)' = KeyFor(x)
    OBVIOUS
  <2>1. x \in Live \ lost /\ x \notin Freed(c, ms)
    BY <1>0, <1>5, <1>6
  <2> QED BY <1>2, <1>3, <1>4, <2>1
<1>8. KeyFor(Root)' = KeyFor(Root)
  BY <1>2, <1>3, <1>4
<1>9. \A x \in Held : (\E i \in 1 .. n : path[i].held /\ path[i].c = x) =>
                        \A o \in DOMAIN members' : x \notin Children(o)'
  <2>1. \A x \in Held \ {child} : \A o \in DOMAIN members' : x \notin Children(o)'
    BY HoldsKeepsOwners
  <2> QED BY <1>0, <2>1
<1> QED BY <1>1, <1>7, <1>8, <1>9, PathCarriesOver

\* A call keeps the types when the path and what is lost have theirs.
LEMMA CallKeepsTypes ==
  ASSUME IndInv, NEW c, NEW ms, NEW k, NEW child, Calls(c, ms, k, child),
         PathOK', lost' \subseteq Live', status' \in {"reading", "open", "gone"},
         path' # <<>> => status' = "reading"
  PROVE  TypeOK'
<1>1. Effect(c, ms, child)
  BY HoldsEffect
<1>2. /\ Live' \subseteq 1 .. allocs' /\ allocs' \in 0 .. MaxBlocks
      /\ kind' \in [Live' -> Kinds] /\ DOMAIN members' = Live' \cup {Root}
  <2>1. allocs \in Nat
    BY LiveAreNumbers DEF IndInv
  <2>2. Live' \subseteq 1 .. allocs' /\ allocs' \in allocs .. MaxBlocks
    BY <1>1 DEF Effect
  <2>3. kind' \in [Live' -> Kinds] /\ DOMAIN members' = Live' \cup {Root}
    BY <1>1 DEF Effect
  <2> QED BY <2>1, <2>2, <2>3, DocumentAssumption
<1>3. \A x \in DOMAIN members' : \A i \in DOMAIN members'[x] :
        members'[x][i].child \in Live' \cup {NULL} /\ members'[x][i].key \in KeyFor(x)'
  BY HoldsKeepsMembers
<1>4. \A i \in DOMAIN path' : path'[i].c \in Live'
  BY NextPathIsLive
<1> QED BY <1>2, <1>3, <1>4 DEF TypeOK

\* A call keeps the invariant when the path does.
LEMMA CallKeepsInv ==
  ASSUME IndInv, NEW c, NEW ms, NEW k, NEW child, Calls(c, ms, k, child), lost' = lost,
         PathOK', Held \ {child} \subseteq Held', status' \in {"reading", "open"},
         path' # <<>> => status' = "reading"
  PROVE  IndInv'
<1>1. TreeOK' /\ KeysUnique'
  BY HoldsKeepsTree
<1>2. LostOK' /\ lost' \subseteq Live'
  <2>1. /\ \A x \in DOMAIN members' : \A b \in Children(x)' : b \in lost <=> x \in lost
        /\ \A b \in Live' : b \in (Held \ {child}) \cup lost
                            \/ \E o \in DOMAIN members' : b \in Children(o)'
        /\ lost \subseteq Live'
    BY HoldsKeepsOwners
  <2> QED BY <2>1 DEF LostOK
<1>3. TypeOK'
  BY <1>2, CallKeepsTypes
<1>4. DestroyFreesAll'
  BY DEF DestroyFreesAll
<1> QED BY <1>1, <1>2, <1>3, <1>4 DEF IndInv

\* A new container is free to be put anywhere.
LEMMA FreshIsFree ==
  ASSUME IndInv, NEW c \in DOMAIN members, NEW b \in Fresh
  PROVE  Free(c, b) /\ b = allocs + 1 /\ b \notin Live /\ b # NULL
<1>1. /\ TypeOK /\ allocs \in Nat /\ b = allocs + 1 /\ allocs < MaxBlocks /\ c \in Live \cup {Root}
      /\ lost \subseteq Live
  BY LiveAreNumbers DEF IndInv, Fresh, TypeOK
<1>2. b \notin Live /\ b # NULL /\ c < b
  BY <1>1, LiveAreNumbers, DocumentAssumption DEF Root
<1>3. \A o \in DOMAIN members : b \notin Children(o)
  BY <1>1, <1>2, ChildrenAreLive
<1> QED BY <1>1, <1>2, <1>3 DEF Free

\* Setting a member of an object, or pushing to an array, is a call with no
\* child or a new one.
LEMMA SetIsCall ==
  ASSUME IndInv, NEW c \in (DOMAIN members) \ lost, NEW k \in Kinds \cup {NULL},
         NEW key \in Keys, SetIn(c, key, k)
  PROVE  \E ms : \E child \in Fresh \cup {NULL} : Calls(c, ms, k, child)
<1>1. PICK child \in IF k = NULL THEN {NULL} ELSE Fresh \cup Failures :
        /\ Len(Put(members[c], key, child)) <= MaxMembers
        /\ Holds(c, Put(members[c], key, child), k, child)
  BY DEF SetIn
<1>2. child \in Fresh \cup {NULL} /\ (child \in Live \cup {NULL} \/ k \in Kinds)
  BY <1>1 DEF Failures
<1>3. Callable(c, Put(members[c], key, child), child)
  <2>1. child # NULL => Free(c, child)
    BY <1>2, FreshIsFree
  <2> QED BY <1>1, <2>1, PutIsCallable DEF SetIn
<1> QED BY <1>1, <1>2, <1>3 DEF Calls

\* The same of arrays.
LEMMA PushIsCall ==
  ASSUME IndInv, NEW c \in (DOMAIN members) \ lost, NEW k \in Kinds \cup {NULL}, PushIn(c, k)
  PROVE  \E ms : \E child \in Fresh \cup {NULL} : Calls(c, ms, k, child)
<1>1. PICK child \in IF k = NULL THEN {NULL} ELSE Fresh \cup Failures :
        Holds(c, Append(members[c], Member(NULL, child)), k, child)
  BY DEF PushIn
<1>2. child \in Fresh \cup {NULL} /\ (child \in Live \cup {NULL} \/ k \in Kinds)
  BY <1>1 DEF Failures
<1>3. Callable(c, Append(members[c], Member(NULL, child)), child)
  <2>1. child # NULL => Free(c, child)
    BY <1>2, FreshIsFree
  <2>2. NULL \in KeyFor(c) /\ ~IsObject(c)
    BY LiveAreNumbers DEF PushIn, KeyFor, IsArray, IsObject, IndInv
  <2>3. Len(Append(members[c], Member(NULL, child))) <= MaxMembers
    <3> DEFINE M == [key : Keys \cup {NULL}, child : Live \cup {NULL, child}]
    <3>1. members[c] \in Seq(M) /\ Len(members[c]) \in Nat /\ Member(NULL, child) \in M
      BY MembersAreRecords DEF Member
    <3>2. Len(Append(members[c], Member(NULL, child))) = Len(members[c]) + 1
      <4> HIDE DEF M
      <4> QED BY <3>1, AppendProperties
    <3> QED BY <3>1, <3>2, DocumentAssumption DEF PushIn
  <2> QED BY <2>1, <2>2, <2>3, AppendIsCallable
<1> QED BY <1>1, <1>2, <1>3 DEF Calls

\* Where a reader is.
LEMMA ReadersPath ==
  ASSUME IndInv
  PROVE  /\ path \in Seq([c : Live \ lost, key : Keys \cup {NULL}, held : BOOLEAN])
         /\ Len(path) \in Nat /\ (path = <<>> <=> Len(path) = 0)
         /\ \A i \in 1 .. Len(path) : path[i].c \in Live \ lost
         /\ Current \in (DOMAIN members) \ lost /\ \A i \in 1 .. Len(path) : path[i].c <= Current
<1> DEFINE R == [c : Live \ lost, key : Keys \cup {NULL}, held : BOOLEAN]
<1>1. TypeOK /\ PathOK
  BY DEF IndInv
<1>2. path \in Seq(R)
  BY <1>1 DEF PathOK
<1>3. Len(path) \in Nat /\ (path = <<>> <=> Len(path) = 0) /\ \A i \in 1 .. Len(path) : path[i] \in R
  <2> HIDE DEF R
  <2> QED BY <1>2, LenProperties, ElementOfSeq, EmptySeq
<1>4. \A i \in 1 .. Len(path) : path[i].c \in Live \ lost
  BY <1>3
<1>5. Live \in SUBSET Int /\ DOMAIN members = Live \cup {Root} /\ lost \subseteq Live /\ Root \notin Live
  BY <1>1, LiveAreNumbers DEF TypeOK
<1>6. CASE path = <<>>
  <2>1. Current \in (DOMAIN members) \ lost
    BY <1>5, <1>6 DEF Current
  <2>2. \A i \in 1 .. Len(path) : FALSE
    BY <1>3, <1>6
  <2> QED BY <1>2, <1>3, <1>4, <2>1, <2>2
<1>7. CASE path # <<>>
  <2>1. Current = path[Len(path)].c /\ Len(path) \in 1 .. Len(path)
    BY <1>3, <1>7 DEF Current, Last
  <2>2. \A i \in 1 .. Len(path) : i = Len(path) \/ i < Len(path)
    BY <1>3
  <2>3. ASSUME NEW i \in 1 .. Len(path)  PROVE path[i].c <= Current
    <3>1. path[i].c \in Int /\ Current \in Int
      BY <1>4, <1>5, <2>1
    <3>2. i < Len(path) => path[i].c < path[Len(path)].c
      BY <1>1, <2>1 DEF PathOK
    <3> QED BY <2>1, <2>2, <3>1, <3>2
  <2> QED BY <1>2, <1>3, <1>4, <1>5, <2>1, <2>3
<1> QED BY <1>6, <1>7

\* The container that ends, and the one around it.
LEMMA ReadersEnd ==
  ASSUME IndInv, path # <<>>
  PROVE  /\ Len(path) - 1 \in 0 .. Len(path) /\ Front(path) = SubSeq(path, 1, Len(path) - 1)
         /\ Last(path) = path[Len(path)] /\ Len(path) \in 1 .. Len(path)
         /\ Last(path).c \in Live \ lost /\ Last(path).held \in BOOLEAN
         /\ Last(path).held <=> Last(path).c \in Held
         /\ Last(path).key \in KeyFor(Outer) /\ Last(path).key \in Keys \cup {NULL}
         /\ Outer \in (DOMAIN members) \ lost /\ Outer < Last(path).c
         /\ \A i \in 1 .. Len(path) - 1 : path[i].c <= Outer /\ path[i].c # Last(path).c
                                          /\ path[i].c < Last(path).c
<1> DEFINE R == [c : Live \ lost, key : Keys \cup {NULL}, held : BOOLEAN]
           n == Len(path)
<1>1. TypeOK /\ PathOK
  BY DEF IndInv
<1>2. path \in Seq(R) /\ n \in Nat \ {0} /\ \A i \in 1 .. n : path[i].c \in Live \ lost
  BY ReadersPath
<1>3. \A i \in 1 .. n : path[i] \in R
  <2> HIDE DEF R
  <2> QED BY <1>2, LenProperties, ElementOfSeq
<1>4. n \in 1 .. n /\ n - 1 \in 0 .. n /\ Last(path) = path[n] /\ Front(path) = SubSeq(path, 1, n - 1)
  BY <1>2 DEF Last, Front
<1>5. /\ Live \in SUBSET Int /\ DOMAIN members = Live \cup {Root} /\ lost \subseteq Live
      /\ Root \notin Live /\ Root = 0 /\ \A b \in Live : 0 < b
  BY <1>1, LiveAreNumbers DEF TypeOK, Root
<1>6. \A i, j \in 1 .. n : i < j => path[i].c < path[j].c
  BY <1>1 DEF PathOK
<1>7. \A i \in 1 .. n - 1 : i \in 1 .. n /\ i < n
  BY <1>2
<1>8. \A i \in 1 .. n - 1 : path[i].c < Last(path).c /\ path[i].c # Last(path).c
  <2>1. \A i \in 1 .. n - 1 : path[i].c < path[n].c /\ path[i].c \in Int /\ path[n].c \in Int
    BY <1>2, <1>4, <1>5, <1>6, <1>7
  <2> QED BY <1>4, <2>1
<1>9. Last(path).held <=> Last(path).c \in Held
  <2>1. \A b : b \in Held <=> \E i \in 1 .. n : path[i].held /\ path[i].c = b
    BY <1>2, HeldOnPath
  <2>2. \A i \in 1 .. n : i \in 1 .. n - 1 \/ i = n
    BY <1>2
  <2> QED BY SMTT(60), <1>4, <1>8, <2>1, <2>2
<1>10. /\ Outer \in (DOMAIN members) \ lost /\ Outer < Last(path).c
       /\ \A i \in 1 .. n - 1 : path[i].c <= Outer
  <2>1. CASE n = 1
    <3>1. Outer = Root
      BY <2>1 DEF Outer
    <3>2. Root < path[n].c
      BY <1>2, <1>4, <1>5
    <3> QED BY <1>4, <1>5, <2>1, <3>1, <3>2
  <2>2. CASE n # 1
    <3>0. n - 1 \in 1 .. n - 1 /\ n - 1 \in 1 .. n
      <4>1. n \in Nat \ {0}
        BY <1>2
      <4> HIDE DEF n
      <4> QED BY <2>2, <4>1
    <3>1. n - 1 \in 1 .. n - 1 /\ n - 1 \in 1 .. n /\ Outer = path[n - 1].c
      BY <2>2, <3>0 DEF Outer
    <3>2. \A i \in 1 .. n - 1 : i = n - 1 \/ i < n - 1
      BY <1>2
    <3>3. ASSUME NEW i \in 1 .. n - 1  PROVE path[i].c <= Outer
      <4>1. path[i].c \in Int /\ path[n - 1].c \in Int
        BY <1>2, <1>5, <1>7, <3>1
      <4>2. i < n - 1 => path[i].c < path[n - 1].c
        BY <1>6, <1>7, <3>1
      <4> QED BY <3>1, <3>2, <4>1, <4>2
    <3> QED BY <1>2, <1>5, <1>8, <3>1, <3>3
  <2> QED BY <2>1, <2>2
<1>11. Last(path).key \in KeyFor(Outer)
  BY <1>1, <1>4 DEF PathOK, Around, Outer
<1> QED BY <1>2, <1>3, <1>4, <1>8, <1>9, <1>10, <1>11

\* Without a path nothing is held.
LEMMA NoPath ==
  ASSUME path' = <<>>
  PROVE  PathOK' /\ Held' = {}
<1>1. PICK p : p = path'
  OBVIOUS
<1>2. PathIn(p)'
  <2>1. Len(p) = 0 /\ p \in Seq([c : Live' \ lost', key : Keys \cup {NULL}, held : BOOLEAN])
    BY <1>1, EmptySeq
  <2>2. 1 .. Len(p) = {}
    BY <2>1
  <2> QED BY <2>1, <2>2, Zenon DEF PathIn
<1>3. Held' = {}
  BY DEF Held, Range
<1> QED BY <1>1, <1>2, <1>3, NextPathOKIsPathIn

\* A call by the owner of the document.
LEMMA CallWhileOpen ==
  ASSUME IndInv, NEW c, NEW ms, NEW k, NEW child \in Fresh \cup {NULL}, Calls(c, ms, k, child),
         status = "open", UNCHANGED <<status, path, lost>>
  PROVE  IndInv'
<1>1. path' = <<>> /\ path = <<>>
  BY DEF IndInv, TypeOK
<1>2. PathOK' /\ Held = {}
  BY <1>1, NoPath DEF Held, Range
<1> QED BY <1>1, <1>2, CallKeepsInv

\* A call by a reader, on the container it is in.
LEMMA CallWhileReading ==
  ASSUME IndInv, NEW c, NEW ms, NEW k, NEW child \in Fresh \cup {NULL}, Calls(c, ms, k, child),
         c = Current, lost' = lost, NEW p, p = path
  PROVE  PathIn(p)'
<1>1. /\ path \in Seq([c : Live \ lost, key : Keys \cup {NULL}, held : BOOLEAN])
      /\ Len(path) \in Nat /\ \A i \in 1 .. Len(path) : path[i].c \in Live /\ path[i].c <= c
  BY ReadersPath
<1>2. PICK n \in 0 .. Len(path) : n = Len(path)
  BY <1>1
<1>3. p = SubSeq(path, 1, n)
  BY <1>1, <1>2, SubSeqFull
<1>4. child \notin Live
  <2>1. c \in DOMAIN members
    BY DEF Calls, Callable
  <2> QED BY <2>1, FreshIsFree, LiveAreNumbers DEF IndInv
<1>5. Within(n, c, child)
  BY <1>1, <1>2, <1>4 DEF Within
<1> QED BY <1>3, <1>5, CallKeepsPath

\* The steps that are calls.
LEMMA SetStep ==
  ASSUME IndInv, Set
  PROVE  \E c, ms, k : \E child \in Fresh \cup {NULL} : Calls(c, ms, k, child)
<1>1. PICK c \in Handles, k \in Kinds \cup {NULL} :
        (\E key \in Keys : SetIn(c, key, k)) \/ PushIn(c, k)
  BY DEF Set
<1>2. c \in (DOMAIN members) \ lost
  BY LiveAreNumbers DEF Handles, IndInv, TypeOK
<1> QED BY <1>1, <1>2, SetIsCall, PushIsCall

\* kdf_obj_remove and kdf_arr_remove are calls.
LEMMA RemoveMemberStep ==
  ASSUME IndInv, RemoveMember
  PROVE  \E c, ms, k : \E child \in Fresh \cup {NULL} : Calls(c, ms, k, child)
<1>1. PICK c \in Handles : \E i \in DOMAIN members[c] : Holds(c, Removed(members[c], i), NULL, NoNew)
  BY DEF RemoveMember
<1>2. PICK i \in DOMAIN members[c] : Holds(c, Removed(members[c], i), NULL, NULL)
  BY <1>1 DEF NoNew
<1>3. c \in (DOMAIN members) \ lost
  BY LiveAreNumbers DEF Handles, IndInv, TypeOK
<1>4. Callable(c, Removed(members[c], i), NULL)
  BY <1>3, RemovedIsCallable
<1> QED BY <1>2, <1>4 DEF Calls

\* kdf_obj_clear and kdf_arr_clear are calls.
LEMMA ClearStep ==
  ASSUME IndInv, Clear
  PROVE  \E c, ms, k : \E child \in Fresh \cup {NULL} : Calls(c, ms, k, child)
<1>1. PICK c \in Handles : Holds(c, <<>>, NULL, NULL)
  BY DEF Clear, NoNew
<1>2. c \in (DOMAIN members) \ lost
  BY LiveAreNumbers DEF Handles, IndInv, TypeOK
<1>3. Callable(c, <<>>, NULL)
  BY <1>2, EmptyIsCallable
<1> QED BY <1>1, <1>3 DEF Calls

\* Destroying the document is a call that empties the root object.
LEMMA RootEmptyStep ==
  ASSUME IndInv, Holds(Root, <<>>, NULL, NoNew)
  PROVE  Calls(Root, <<>>, NULL, NULL)
<1>1. Root \in (DOMAIN members) \ lost
  BY LiveAreNumbers DEF IndInv, TypeOK
<1> QED BY <1>1, EmptyIsCallable DEF Calls, NoNew

\* A reader's kdf_obj_set_* and kdf_arr_push_* are calls.
LEMMA ReadPlainStep ==
  ASSUME IndInv, ReadPlain, NEW c, c = Current
  PROVE  \E ms, k : \E child \in Fresh \cup {NULL} : Calls(c, ms, k, child)
<1>1. c \in (DOMAIN members) \ lost
  BY ReadersPath
<1> QED BY <1>1, SetIsCall, PushIsCall DEF ReadPlain

\* Putting a complete container into the one around it is a call.
LEMMA CloseContainerStep ==
  ASSUME IndInv, CloseContainer, Last(path).held
  PROVE  \E ms : \E c, child : /\ c = Outer /\ child = Last(path).c
                               /\ Calls(c, ms, NULL, child)
<1> DEFINE x == Last(path).c
           key == Last(path).key
<1>1. path # <<>> /\ Len(With(Outer, key, x)) <= MaxMembers /\ Holds(Outer, With(Outer, key, x), NULL, x)
  BY DEF CloseContainer
<1>2. /\ x \in Live \ lost /\ x \in Held /\ key \in KeyFor(Outer) /\ key \in Keys \cup {NULL}
      /\ Outer \in (DOMAIN members) \ lost /\ Outer < x
  BY <1>1, ReadersEnd
<1>3. Free(Outer, x)
  BY <1>2, HeldIsFree DEF Free, IndInv
<1> HIDE DEF x, key
<1>4. CASE IsArray(Outer)
  <2>1. NULL \in KeyFor(Outer) /\ ~IsObject(Outer)
    BY <1>4, LiveAreNumbers DEF KeyFor, IsArray, IsObject, IndInv
  <2>2. With(Outer, key, x) = Append(members[Outer], Member(NULL, x))
    BY <1>4 DEF With
  <2> QED BY <1>1, <1>2, <1>3, <2>1, <2>2, AppendIsCallable DEF Calls, x
<1>5. CASE ~IsArray(Outer)
  <2>1. key \in Keys /\ IsObject(Outer)
    BY <1>2, <1>5 DEF KeyFor, IsArray, IsObject, IndInv, TypeOK, Kinds
  <2>2. With(Outer, key, x) = Put(members[Outer], key, x)
    BY <1>5 DEF With
  <2> QED BY <1>1, <1>2, <1>3, <2>1, <2>2, PutIsCallable DEF Calls, x
<1> QED BY <1>4, <1>5

\* Every container is below the root object or one that a reader holds, or lost.
LEMMA AllBelow ==
  ASSUME IndInv, NEW T \in SUBSET Live, \A o \in T : Children(o) \subseteq T,
         Children(Root) \cup Held \cup lost \subseteq T
  PROVE  T = Live
<1> DEFINE S == Live \ T
<1>1. TypeOK /\ TreeOK /\ LostOK
  BY DEF IndInv
<1>2. S \in SUBSET Live /\ Live \in SUBSET Int /\ IsFiniteSet(S)
      /\ DOMAIN members = Live \cup {Root} /\ Root \in Int
  BY <1>1, LiveAreNumbers, FS_Subset DEF TypeOK, Root
<1>3. ASSUME S # {}  PROVE FALSE
  <2> HIDE DEF S
  <2>1. PICK m \in S : \A y \in S : m <= y
    BY <1>2, <1>3, HasMin
  <2>2. PICK o \in DOMAIN members : m \in Children(o)
    BY <1>1, <1>2, <2>1 DEF LostOK, S
  <2>3. o < m /\ o \in Int /\ m \in Int
    BY <1>1, <1>2, <2>1, <2>2 DEF TreeOK
  <2>4. o \notin S
    BY <2>1, <2>3
  <2> QED BY <1>2, <2>1, <2>2, <2>4 DEF S
<1> QED BY <1>3

\* When the root object goes, what remains was lost or held by a reader.
LEMMA RootGoneLeaves ==
  ASSUME IndInv, Calls(Root, <<>>, NULL, NULL)
  PROVE  /\ Live' = lost \cup Below(Held) /\ DOMAIN members' = Live' \cup {Root}
         /\ Children(Root)' = {}
<1> DEFINE F == Freed(Root, <<>>)
           B == Below(Held)
           T == F \cup lost \cup B
<1>1. TypeOK /\ TreeOK /\ PathOK /\ LostOK /\ Root \in (DOMAIN members) \ lost
  BY DEF IndInv, Calls, Callable
<1>2. Held \in SUBSET Live /\ lost \in SUBSET Live /\ Live \in SUBSET DOMAIN members
  BY <1>1, HeldIsFree DEF TypeOK
<1>3. F = Below(Children(Root)) /\ Children(Root) \in SUBSET Live
  <2>1. ChildrenIn(<<>>) = {}
    BY DEF ChildrenIn
  <2> QED BY <1>1, <2>1, ChildrenAreLive DEF Freed
<1>4. /\ F \in SUBSET Live /\ Children(Root) \subseteq F /\ \A o \in F : Children(o) \subseteq F
      /\ B \in SUBSET Live /\ Held \subseteq B /\ \A o \in B : Children(o) \subseteq B
  BY <1>1, <1>2, <1>3, BelowIsClosed
<1>5. \A o \in lost : Children(o) \subseteq lost
  BY <1>1, <1>2 DEF LostOK
<1>6. T = Live
  <2>1. T \in SUBSET Live /\ (\A o \in T : Children(o) \subseteq T)
        /\ Children(Root) \cup Held \cup lost \subseteq T
    BY <1>2, <1>4, <1>5
  <2> HIDE DEF T
  <2> QED BY <2>1, AllBelow
<1>7. F \cap lost = {} /\ F \cap Held = {}
  BY <1>1, FreedIsBelow
<1>8. F \cap B = {}
  <2> DEFINE U == Live \ F
  <2>1. \A o \in U : Children(o) \cap F = {} /\ Children(o) \in SUBSET Live
    BY <1>1, <1>2, KeptStaysWhole, ChildrenAreLive, LiveAreNumbers
  <2>2. U \in SUBSET Live /\ Held \subseteq U /\ \A o \in U : Children(o) \subseteq U
    BY <1>2, <1>7, <2>1
  <2>3. B \subseteq U
    <3> HIDE DEF U
    <3> QED BY <2>2, BelowIsLeast
  <2> QED BY <2>3
<1>9. Live' = Live \ F /\ DOMAIN members' = Live' \cup {Root} /\ members'[Root] = <<>>
  <2>1. Effect(Root, <<>>, NULL)
    BY HoldsEffect
  <2> QED BY <2>1 DEF Effect, New
<1>10. Children(Root)' = {}
  BY <1>9 DEF Children, ChildrenIn, Root
<1> QED BY <1>6, <1>7, <1>8, <1>9, <1>10

\* A document that is destroyed has nothing left but what was lost.
LEMMA RootGoneKeeps ==
  ASSUME IndInv, Holds(Root, <<>>, NULL, NoNew), lost' = lost \cup Below(Held),
         path' = <<>>, status' = "gone"
  PROVE  IndInv'
<1>1. Calls(Root, <<>>, NULL, NULL)
  BY RootEmptyStep
<1>2. Live' = lost' /\ DOMAIN members' = Live' \cup {Root} /\ Children(Root)' = {}
  BY <1>1, RootGoneLeaves
<1>3. PathOK' /\ TreeOK' /\ KeysUnique'
  BY <1>1, NoPath, HoldsKeepsTree
<1>4. TypeOK'
  BY <1>1, <1>2, <1>3, CallKeepsTypes
<1>5. \A x \in DOMAIN members' : \A b \in Children(x)' : b \in Live'
  <2>1. \A x \in DOMAIN members' : \A i \in DOMAIN members'[x] : members'[x][i].child \in Live' \cup {NULL}
    BY <1>1, HoldsKeepsMembers
  <2>2. \A x : Children(x)' = {members'[x][i].child : i \in DOMAIN members'[x]} \ {NULL}
    BY DEF Children, ChildrenIn
  <2> QED BY <2>1, <2>2
<1>6. LostOK'
  <2>1. \A x \in DOMAIN members' : \A b \in Children(x)' : b \in lost' <=> x \in lost'
    BY <1>2, <1>5
  <2> QED BY <1>2, <2>1 DEF LostOK
<1>7. DestroyFreesAll'
  BY <1>2 DEF DestroyFreesAll
<1> QED BY <1>3, <1>4, <1>6, <1>7 DEF IndInv

\* kdf_doc_destroy, which finds nothing held.
LEMMA DestroyKeeps ==
  ASSUME IndInv, Destroy
  PROVE  IndInv'
<1>1. path = <<>> /\ path' = <<>>
  BY DEF Destroy, IndInv, TypeOK
<1>2. Held = {}
  BY <1>1 DEF Held, Range
<1>3. Below({}) = {}
  BY BelowIsLeast
<1>4. lost' = lost \cup Below(Held)
  BY <1>2, <1>3 DEF Destroy
<1> QED BY <1>1, <1>4, RootGoneKeeps DEF Destroy

\* So does a reader that fails, and loses what it held.
LEMMA ReturnNullKeeps ==
  ASSUME IndInv, ReturnNull
  PROVE  IndInv'
BY RootGoneKeeps DEF ReturnNull

\* The owner's calls, and those of a reader that is in no new container.
LEMMA SetKeeps ==
  ASSUME IndInv, Set
  PROVE  IndInv'
BY SetStep, CallWhileOpen DEF Set, SetIn, PushIn

\* kdf_obj_remove, kdf_arr_remove.
LEMMA RemoveMemberKeeps ==
  ASSUME IndInv, RemoveMember
  PROVE  IndInv'
BY RemoveMemberStep, CallWhileOpen DEF RemoveMember

\* kdf_obj_clear, kdf_arr_clear.
LEMMA ClearKeeps ==
  ASSUME IndInv, Clear
  PROVE  IndInv'
BY ClearStep, CallWhileOpen DEF Clear

\* A reader's value that is no container goes where the reader is.
LEMMA ReadPlainKeeps ==
  ASSUME IndInv, ReadPlain
  PROVE  IndInv'
<1>1. PICK c : c = Current
  OBVIOUS
<1>2. PICK p : p = path
  OBVIOUS
<1>3. UNCHANGED <<status, path, lost>> /\ status = "reading"
  BY DEF ReadPlain, SetIn, PushIn
<1>4. PICK ms, k : \E child \in Fresh \cup {NULL} : Calls(c, ms, k, child)
  BY <1>1, ReadPlainStep
<1>5. PICK child \in Fresh \cup {NULL} : Calls(c, ms, k, child)
  BY <1>4
<1>6. PathOK'
  <2>1. PathIn(p)'
    BY <1>1, <1>2, <1>3, <1>5, CallWhileReading
  <2> QED BY <1>2, <1>3, <2>1, NextPathOKIsPathIn
<1>7. Held' = Held
  BY <1>3 DEF Held
<1> QED BY <1>3, <1>5, <1>6, <1>7, CallKeepsInv

\* Steps that call nothing.
LEMMA QuietFrame ==
  ASSUME UNCHANGED <<kind, members>>
  PROVE  Live' = Live /\ \A x : /\ KeyFor(x)' = KeyFor(x) /\ IsObject(x)' = IsObject(x)
                                /\ Children(x)' = Children(x)
BY DEF Live, KeyFor, IsArray, IsObject, Children, ChildrenIn

\* They keep the invariant when the path and what is lost do.
LEMMA QuietKeeps ==
  ASSUME IndInv, UNCHANGED <<kind, members, allocs>>, lost' \subseteq Live, PathOK', LostOK',
         status' \in {"none", "reading", "open", "gone"}, DestroyFreesAll',
         path' # <<>> => status' = "reading"
  PROVE  IndInv'
<1>1. Live' = Live /\ \A x : /\ KeyFor(x)' = KeyFor(x) /\ IsObject(x)' = IsObject(x)
                             /\ Children(x)' = Children(x)
  BY QuietFrame
<1>2. TypeOK'
  <2>1. \A i \in DOMAIN path' : path'[i].c \in Live'
    BY NextPathIsLive
  <2> QED BY <1>1, <2>1 DEF IndInv, TypeOK
<1>3. TreeOK'
  <2>1. MemberSet' = MemberSet
    BY <1>1 DEF MemberSet
  <2>2. OneOwner'
    BY DEF IndInv, TreeOK, OneOwner
  <2> QED BY <1>1, <2>1, <2>2 DEF IndInv, TreeOK
<1>4. KeysUnique'
  BY <1>1 DEF IndInv, KeysUnique
<1> QED BY <1>2, <1>3, <1>4 DEF IndInv

\* kdf_doc_create_alloc, and a reader that is done.
LEMMA CreateKeeps ==
  ASSUME IndInv, Create \/ ReturnDocument \/ UNCHANGED vars
  PROVE  IndInv'
<1>1. UNCHANGED <<kind, members, path, lost, allocs>> /\ status' \in {"none", "reading", "open", "gone"}
      /\ (path' # <<>> => status' = "reading") /\ (status' = "gone" => status = "gone")
  BY DEF IndInv, TypeOK, Create, ReturnDocument, vars
<1>2. Live' = Live /\ \A x : KeyFor(x)' = KeyFor(x) /\ Children(x)' = Children(x)
  BY <1>1, QuietFrame
<1>3. Held' = Held /\ \A i : Around(i)' = Around(i)
  BY <1>1 DEF Held, Around
<1>4. PathOK'
  BY <1>1, <1>2, <1>3 DEF IndInv, PathOK
<1>5. LostOK' /\ lost' \subseteq Live
  BY <1>1, <1>2, <1>3 DEF IndInv, LostOK, TypeOK
<1>6. DestroyFreesAll'
  BY <1>1, <1>2 DEF IndInv, DestroyFreesAll
<1> QED BY <1>1, <1>4, <1>5, <1>6, QuietKeeps

\* The end of a path is cut off: what the reader held there, and no more, it no
\* longer holds.
LEMMA HeldButLast ==
  ASSUME IndInv, path # <<>>, NEW p, p = path', NEW n, n = Len(path) - 1, Len(p) = n,
         NEW S, p \in Seq(S), \A i \in 1 .. n : p[i] = path[i]
  PROVE  Held' = IF Last(path).held THEN Held \ {Last(path).c} ELSE Held
<1>1. \A b : b \in Held <=> \E i \in 1 .. Len(path) : path[i].held /\ path[i].c = b
  BY ReadersPath, HeldOnPath
<1>2. \A b : b \in Held' <=> \E i \in 1 .. n : path[i].held /\ path[i].c = b
  BY NextHeldOnPath
<1>3. /\ Len(path) \in 1 .. Len(path) /\ Last(path) = path[Len(path)]
      /\ Last(path).held \in BOOLEAN
      /\ \A i \in 1 .. n : path[i].c # Last(path).c
  BY ReadersEnd
<1>4. \A i \in 1 .. Len(path) : i \in 1 .. n \/ i = Len(path)
  BY ReadersPath
<1>5. \A i \in 1 .. n : i \in 1 .. Len(path)
  BY ReadersPath
<1>6. \A b : b \in Held' <=> b \in Held /\ ~(Last(path).held /\ b = Last(path).c)
  BY SMTT(60), <1>1, <1>2, <1>3, <1>4, <1>5
<1> QED BY <1>6

\* The end of a container: of a held one by a call, of a shorthand one without.
LEMMA CloseContainerKeeps ==
  ASSUME IndInv, CloseContainer
  PROVE  IndInv'
<1>1. /\ status = "reading" /\ path # <<>> /\ path' = Front(path) /\ UNCHANGED <<status, lost>>
  BY DEF CloseContainer
<1>2. PICK n \in 0 .. Len(path) : n = Len(path) - 1
  BY <1>1, ReadersEnd
<1>3. PICK p : p = path'
  OBVIOUS
<1>4. p = SubSeq(path, 1, n)
  BY <1>1, <1>2, <1>3, ReadersEnd
<1>5. CASE Last(path).held
  <2>1. PICK c, ms, child : c = Outer /\ child = Last(path).c /\ Calls(c, ms, NULL, child)
    BY <1>5, CloseContainerStep
  <2>2. Within(n, c, child)
    BY <1>1, <1>2, <2>1, ReadersEnd DEF Within
  <2>3. PathIn(p)' /\ Len(p) = n /\ \A i \in 1 .. n : p[i] = path[i]
    <3>1. PICK k : lost' = lost /\ Calls(c, ms, k, child)
      BY <1>1, <2>1
    <3>2. PathIn(p)'
      BY <1>4, <2>2, <3>1, CallKeepsPath
    <3>3. Len(p) = n /\ \A i \in 1 .. n : p[i] = path[i]
      BY <1>4, <2>2, <3>1, CallKeepsPath
    <3> QED BY <3>2, <3>3
  <2>4. PathOK'
    BY <1>3, <2>3, NextPathOKIsPathIn
  <2>5. Held \ {child} \subseteq Held'
    <3>1. p \in Seq([c : Live' \ lost', key : Keys \cup {NULL}, held : BOOLEAN])
      BY <2>3 DEF PathIn
    <3> QED BY <1>1, <1>2, <1>3, <1>5, <2>1, <2>3, <3>1, HeldButLast
  <2> QED BY <1>1, <2>1, <2>4, <2>5, CallKeepsInv
<1>6. CASE ~Last(path).held
  <2>1. UNCHANGED <<kind, members, allocs>>
    BY <1>6 DEF CloseContainer
  <2>2. Live' = Live /\ \A x : KeyFor(x)' = KeyFor(x) /\ Children(x)' = Children(x)
    BY <2>1, QuietFrame
  <2>3. PathIn(p)' /\ Len(p) = n /\ \A i \in 1 .. n : p[i] = path[i]
    <3>1. \A i \in 1 .. n : i \in 1 .. Len(path)
      BY <1>2, ReadersPath
    <3>2. \A x \in {path[i].c : i \in 1 .. n} : x \in Live' \ lost' /\ KeyFor(x)' = KeyFor(x)
      BY <1>1, <2>2, <3>1, ReadersPath
    <3>3. \A x \in Held : \A o \in DOMAIN members' : x \notin Children(o)'
      BY <2>1, <2>2, HeldIsFree DEF IndInv
    <3> QED BY <1>4, <2>2, <3>2, <3>3, PathCarriesOver DEF IndInv
  <2>4. PathOK'
    BY <1>3, <2>3, NextPathOKIsPathIn
  <2>5. Held' = Held
    <3>1. p \in Seq([c : Live' \ lost', key : Keys \cup {NULL}, held : BOOLEAN])
      BY <2>3 DEF PathIn
    <3> QED BY <1>1, <1>2, <1>3, <1>6, <2>3, <3>1, HeldButLast
  <2>6. LostOK' /\ lost' \subseteq Live
    BY <1>1, <2>1, <2>2, <2>5 DEF IndInv, LostOK, TypeOK
  <2>7. DestroyFreesAll'
    BY <1>1 DEF DestroyFreesAll
  <2> QED BY <1>1, <2>1, <2>4, <2>6, <2>7, QuietKeeps
<1> QED BY <1>5, <1>6

\* A container that finds no entry is lost with all below it, and nothing else.
LEMMA CloseNoMemoryKeeps ==
  ASSUME IndInv, CloseNoMemory
  PROVE  IndInv'
<1> DEFINE B == Below({Last(path).c})
<1>1. /\ status = "reading" /\ path # <<>> /\ path' = Front(path) /\ Last(path).held
      /\ UNCHANGED <<status, kind, members, allocs>> /\ lost' = lost \cup B
      /\ UNCHANGED <<kind, members>>
  BY DEF CloseNoMemory
<1>2. PICK n \in 0 .. Len(path) : n = Len(path) - 1
  BY <1>1, ReadersEnd
<1>3. PICK p : p = path'
  OBVIOUS
<1>4. p = SubSeq(path, 1, n)
  BY <1>1, <1>2, <1>3, ReadersEnd
<1>5. /\ TypeOK /\ TreeOK /\ PathOK /\ LostOK /\ Last(path).c \in Live /\ Last(path).c \in Held
      /\ {Last(path).c} \in SUBSET Live /\ Live \in SUBSET Int
  BY <1>1, ReadersEnd, LiveAreNumbers DEF IndInv
<1>6. Live' = Live /\ \A x : KeyFor(x)' = KeyFor(x) /\ Children(x)' = Children(x)
  BY <1>1, QuietFrame
<1>7. /\ B \in SUBSET Live /\ Last(path).c \in B /\ \A o \in B : Children(o) \subseteq B
      /\ \A b \in B : b = Last(path).c \/ \E o \in B : b \in Children(o)
  BY <1>5, BelowIsClosed, BelowHasOwner
<1>8. \A i \in 1 .. n : path[i].c \in Live \ lost /\ path[i].c \notin B
  <2>1. \A i \in 1 .. n : path[i].c < Last(path).c /\ i \in 1 .. Len(path)
    BY <1>1, <1>2, ReadersEnd, ReadersPath
  <2>2. ASSUME NEW i \in 1 .. n  PROVE path[i].c \in Live \ lost /\ path[i].c \notin B
    <3>1. path[i].c \in Live \ lost /\ path[i].c \in Int
      BY <1>5, <2>1, ReadersPath
    <3>2. PICK m \in Int : m = path[i].c
      BY <3>1
    <3>3. \A b \in {Last(path).c} : m < b
      BY <2>1, <3>2
    <3>4. \A b \in B : m < b
      BY <1>5, <3>3, BelowIsAfter
    <3>5. ~(m < m)
      BY <3>2
    <3>6. m \notin B
      BY <3>4, <3>5
    <3> QED BY <3>1, <3>2, <3>6
  <2> QED BY <2>2
<1> HIDE DEF B
<1>9. PathIn(p)' /\ Len(p) = n /\ \A i \in 1 .. n : p[i] = path[i]
  <2>1. \A x \in {path[i].c : i \in 1 .. n} : x \in Live' \ lost' /\ KeyFor(x)' = KeyFor(x)
    BY <1>1, <1>6, <1>8
  <2>2. \A x \in Held : \A o \in DOMAIN members' : x \notin Children(o)'
    BY <1>1, <1>5, <1>6, HeldIsFree
  <2> QED BY <1>4, <1>5, <1>6, <2>1, <2>2, PathCarriesOver
<1>10. PathOK'
  BY <1>3, <1>9, NextPathOKIsPathIn
<1>11. Held' = Held \ {Last(path).c}
  <2>1. p \in Seq([c : Live' \ lost', key : Keys \cup {NULL}, held : BOOLEAN])
    BY <1>9 DEF PathIn
  <2> QED BY <1>1, <1>2, <1>3, <1>9, <2>1, HeldButLast
<1>12. LostOK'
  <2>1. ASSUME NEW c \in DOMAIN members, NEW b \in Children(c)  PROVE b \in B <=> c \in B
    <3>1. b # Last(path).c
      BY <1>5, HeldIsFree
    <3>2. c \in B => b \in B
      BY <1>7
    <3>3. ASSUME b \in B  PROVE c \in B
      <4>1. PICK o \in B : b \in Children(o)
        BY <1>7, <3>1, <3>3
      <4>2. o \in DOMAIN members
        BY <1>5, <1>7 DEF TypeOK
      <4> QED BY <1>5, <4>1, <4>2, OwnerIsUnique
    <3> QED BY <3>2, <3>3
  <2> QED BY <1>1, <1>5, <1>6, <1>7, <1>11, <2>1 DEF LostOK
<1>13. DestroyFreesAll' /\ lost' \subseteq Live
  BY <1>1, <1>5, <1>7 DEF DestroyFreesAll, TypeOK
<1> QED BY <1>1, <1>10, <1>12, <1>13, QuietKeeps

\* A reader goes on in a new container, which it holds.
LEMMA OpenContainerKeeps ==
  ASSUME IndInv, OpenContainer
  PROVE  IndInv'
<1>1. PICK b \in Fresh, key \in KeyFor(Current), k \in Kinds :
        /\ path' = Append(path, Step(b, key, TRUE))
        /\ kind' = [x \in Live \cup {b} |-> IF x = b THEN k ELSE kind[x]]
        /\ members' = [x \in DOMAIN members \cup {b} |-> IF x = b THEN <<>> ELSE members[x]]
        /\ allocs' = b
  BY DEF OpenContainer
<1>2. TypeOK /\ TreeOK /\ PathOK /\ LostOK /\ KeysUnique /\ status' = "reading" /\ status = "reading"
      /\ lost' = lost
  BY DEF IndInv, OpenContainer
<1>3. /\ DOMAIN members = Live \cup {Root} /\ Root \notin Live /\ lost \subseteq Live
      /\ Live \in SUBSET Int /\ allocs \in Nat /\ Live \subseteq 1 .. allocs
      /\ \A x \in Live : x <= allocs
  BY <1>2, LiveAreNumbers DEF TypeOK
<1>4. b = allocs + 1 /\ allocs < MaxBlocks /\ b \notin Live /\ b # Root /\ b # NULL
      /\ \A o \in DOMAIN members : b \notin Children(o)
  <2>1. Root \in DOMAIN members /\ b \in Fresh
    BY <1>3
  <2>2. b = allocs + 1 /\ b \notin Live /\ b # NULL /\ Free(Root, b)
    BY <2>1, FreshIsFree
  <2>3. allocs < MaxBlocks /\ b # Root
    BY <1>3, <2>1, <2>2 DEF Fresh, Root
  <2> QED BY <2>2, <2>3 DEF Free
<1>5. /\ Live' = Live \cup {b} /\ DOMAIN members' = Live' \cup {Root} /\ members'[b] = <<>>
      /\ \A x \in DOMAIN members : x \in DOMAIN members' /\ x # b /\ members'[x] = members[x]
      /\ \A x \in Live : kind'[x] = kind[x]
  BY <1>1, <1>3, <1>4 DEF Live
<1>6. /\ \A x \in DOMAIN members : /\ KeyFor(x)' = KeyFor(x) /\ IsObject(x)' = IsObject(x)
                                   /\ Children(x)' = Children(x)
      /\ Children(b)' = {}
  <2>1. \A x \in DOMAIN members : x \in Live' <=> x \in Live
    BY <1>3, <1>4, <1>5
  <2>2. \A x : Children(x)' = ChildrenIn(members'[x])
    BY DEF Children, ChildrenIn
  <2>3. ChildrenIn(<<>>) = {}
    BY DEF ChildrenIn
  <2> QED BY <1>3, <1>5, <2>1, <2>2, <2>3 DEF KeyFor, IsArray, IsObject, Children
<1>7. \A x \in DOMAIN members' : x \in DOMAIN members \/ x = b
  BY <1>3, <1>5
<1>8. PICK p : p = path
  OBVIOUS
<1>9. PICK q : q = path' /\ q = Append(p, Step(b, key, TRUE))
  BY <1>1, <1>8
<1>10. /\ p \in Seq([c : Live \ lost, key : Keys \cup {NULL}, held : BOOLEAN]) /\ Len(p) \in Nat
       /\ (p = <<>> <=> Len(p) = 0)
       /\ \A i \in 1 .. Len(p) : p[i].c \in Live \ lost
       /\ Current \in DOMAIN members
       /\ Current = IF p = <<>> THEN Root ELSE p[Len(p)].c
  <2>1. Current = IF p = <<>> THEN Root ELSE p[Len(p)].c
    BY <1>8 DEF Current, Last
  <2> QED BY <1>8, <2>1, ReadersPath
<1>11. PathIn(p)'
  <2>1. PICK n \in 0 .. Len(path) : n = Len(path)
    BY <1>8, <1>10
  <2>2. p = SubSeq(path, 1, n)
    BY <1>8, <1>10, <2>1, SubSeqFull
  <2>3. \A x \in {path[i].c : i \in 1 .. n} : x \in Live' \ lost' /\ KeyFor(x)' = KeyFor(x)
    BY <1>2, <1>3, <1>5, <1>6, <1>8, <1>10, <2>1
  <2>4. \A x \in Held : \A o \in DOMAIN members' : x \notin Children(o)'
    BY <1>2, <1>6, <1>7, HeldIsFree
  <2>5. KeyFor(Root)' = KeyFor(Root)
    BY <1>3, <1>6
  <2> QED BY <1>2, <2>2, <2>3, <2>4, <2>5, PathCarriesOver
<1>12. PathIn(q)'
  <2>0. b \in Live' \ lost' /\ \A x \in Live : x < b
    BY <1>2, <1>3, <1>4, <1>5
  <2>1. b \in Live' \ lost' /\ \A i \in 1 .. Len(p) : p[i].c < b
    BY <1>10, <2>0
  <2>2. key \in KeyFor(IF p = <<>> THEN Root ELSE p[Len(p)].c)' /\ key \in Keys \cup {NULL}
    <3>1. PICK c \in DOMAIN members : c = Current
      BY <1>10
    <3>2. key \in KeyFor(c)'
      BY <1>6, <3>1
    <3>3. key \in Keys \cup {NULL}
      BY DEF KeyFor
    <3> QED BY <1>10, <3>1, <3>2, <3>3
  <2>3. \A o \in DOMAIN members' : b \notin Children(o)'
    BY <1>4, <1>6, <1>7
  <2> QED BY <1>9, <1>11, <2>1, <2>2, <2>3, PathGoesOn
<1>13. PathOK'
  BY <1>9, <1>12, NextPathOKIsPathIn
<1>14. Held \cup {b} \subseteq Held'
  <2> DEFINE R == [c : Live' \ lost', key : Keys \cup {NULL}, held : BOOLEAN]
  <2>1. p \in Seq(R) /\ q \in Seq(R)
    BY <1>11, <1>12 DEF PathIn
  <2>2. Step(b, key, TRUE) \in R /\ Step(b, key, TRUE).held /\ Step(b, key, TRUE).c = b
    <3>1. b \in Live' \ lost' /\ key \in Keys \cup {NULL}
      BY <1>2, <1>3, <1>4, <1>5 DEF KeyFor
    <3> QED BY <3>1 DEF Step
  <2>3. Len(q) = Len(p) + 1 /\ q[Len(p) + 1] = Step(b, key, TRUE) /\ \A i \in 1 .. Len(p) : q[i] = p[i]
    <3>1. PICK s \in R : s = Step(b, key, TRUE)
      BY <2>2
    <3>2. q = Append(p, s) /\ p \in Seq(R)
      BY <1>9, <2>1, <3>1
    <3> HIDE DEF R
    <3>3. Len(q) = Len(p) + 1 /\ q[Len(p) + 1] = s /\ \A i \in 1 .. Len(p) : q[i] = p[i]
      BY <3>2, AppendProperties
    <3> QED BY <3>1, <3>3
  <2>4. \A x : x \in Held' <=> \E i \in 1 .. Len(q) : q[i].held /\ q[i].c = x
    BY <1>9, <2>1, NextHeldOnPath
  <2>5. \A x : x \in Held <=> \E i \in 1 .. Len(p) : p[i].held /\ p[i].c = x
    BY <1>8, <1>10, HeldOnPath
  <2>6. Len(p) + 1 \in 1 .. Len(q) /\ \A i \in 1 .. Len(p) : i \in 1 .. Len(q)
    BY <1>10, <2>3
  <2>7. b \in Held'
    BY <2>2, <2>3, <2>4, <2>6
  <2>8. \A x \in Held : x \in Held'
    BY <2>3, <2>4, <2>5, <2>6
  <2> QED BY <2>7, <2>8
<1>15. TypeOK'
  <2>1. Live' \subseteq 1 .. allocs' /\ allocs' \in 0 .. MaxBlocks
    <3>1. MaxBlocks \in Nat
      BY DocumentAssumption
    <3>2. b \in 0 .. MaxBlocks /\ 1 .. allocs \subseteq 1 .. b /\ b \in 1 .. b
      BY <1>3, <1>4, <3>1
    <3> QED BY <1>1, <1>3, <1>5, <3>2
  <2>2. kind' \in [Live' -> Kinds]
    <3>1. kind \in [Live -> Kinds]
      BY <1>2 DEF TypeOK
    <3> QED BY <1>1, <1>5, <3>1
  <2>3. \A x \in DOMAIN members' : \A i \in DOMAIN members'[x] :
          members'[x][i].child \in Live' \cup {NULL} /\ members'[x][i].key \in KeyFor(x)'
    BY <1>2, <1>5, <1>6, <1>7 DEF TypeOK
  <2>4. \A i \in DOMAIN path' : path'[i].c \in Live'
    BY <1>13, NextPathIsLive
  <2> QED BY <1>2, <1>3, <1>5, <2>1, <2>2, <2>3, <2>4 DEF TypeOK
<1>16. TreeOK'
  <2>1. \A x \in DOMAIN members' : members'[x] \in Seq(MemberSet') /\ Len(members'[x]) <= MaxMembers
    <3>1. MemberSet \subseteq MemberSet'
      BY <1>5 DEF MemberSet
    <3>2. \A x \in DOMAIN members : members[x] \in Seq(MemberSet') /\ Len(members[x]) <= MaxMembers
      BY <1>2, <3>1, SeqMonotonic DEF TreeOK
    <3>3. <<>> \in Seq(MemberSet') /\ Len(<<>>) <= MaxMembers
      BY EmptySeq, DocumentAssumption
    <3> QED BY <1>5, <1>7, <3>2, <3>3
  <2>2. OneOwner'
    BY <1>2, <1>5, <1>7 DEF TreeOK, OneOwner
  <2>3. \A x \in DOMAIN members' : \A y \in Children(x)' : x < y
    BY <1>2, <1>6, <1>7 DEF TreeOK
  <2> QED BY <2>1, <2>2, <2>3 DEF TreeOK
<1>17. LostOK'
  <2>1. \A x \in DOMAIN members' : \A y \in Children(x)' : y \in lost' <=> x \in lost'
    BY <1>2, <1>6, <1>7 DEF LostOK
  <2>2. \A y \in Live' : y \in Held' \cup lost' \/ \E o \in DOMAIN members' : y \in Children(o)'
    BY <1>2, <1>5, <1>6, <1>14 DEF LostOK
  <2> QED BY <2>1, <2>2 DEF LostOK
<1>18. KeysUnique'
  BY <1>2, <1>5, <1>6, <1>7 DEF KeysUnique
<1> QED BY <1>2, <1>13, <1>15, <1>16, <1>17, <1>18 DEF IndInv, DestroyFreesAll

\* A reader goes on in the object of a shorthand, which has its place already.
LEMMA OpenShorthandKeeps ==
  ASSUME IndInv, OpenShorthand
  PROVE  IndInv'
<1>1. PICK c, p : c = Current /\ p = path
  OBVIOUS
<1>2. PICK key \in Keys : /\ SetIn(c, key, "object") /\ allocs' # allocs
                          /\ path' = Append(path, Step(allocs', key, FALSE))
  BY <1>1 DEF OpenShorthand
<1>3. status = "reading" /\ status' = "reading" /\ lost' = lost
  BY <1>2 DEF OpenShorthand, SetIn
<1>4. /\ p \in Seq([c : Live \ lost, key : Keys \cup {NULL}, held : BOOLEAN]) /\ Len(p) \in Nat
      /\ (p = <<>> <=> Len(p) = 0)
      /\ \A i \in 1 .. Len(p) : p[i].c \in Live \ lost
      /\ c \in (DOMAIN members) \ lost
      /\ c = IF p = <<>> THEN Root ELSE p[Len(p)].c
  <2>1. Current = IF path = <<>> THEN Root ELSE path[Len(path)].c
    BY DEF Current, Last
  <2> QED BY <1>1, <2>1, ReadersPath
<1>5. PICK ms, child : child \in Fresh \cup {NULL} /\ Calls(c, ms, "object", child)
  BY <1>2, <1>4, SetIsCall DEF Kinds
<1>6. Effect(c, ms, child)
  BY <1>5, HoldsEffect
<1>7. child = allocs' /\ child # NULL
  BY <1>2, <1>6 DEF Effect, New
<1>8. child = allocs + 1 /\ child \notin Live /\ Free(c, child)
  BY <1>4, <1>5, <1>7, FreshIsFree
<1>9. PICK q : q = path' /\ q = Append(p, Step(child, key, FALSE))
  BY <1>1, <1>2, <1>7
<1>10. PathIn(p)'
  BY <1>1, <1>3, <1>5, CallWhileReading
<1>11. PathIn(q)'
  <2>1. child \in Live' \ lost'
    BY <1>3, <1>6, <1>7, <1>8 DEF Effect, Free
  <2>2. \A i \in 1 .. Len(p) : p[i].c < child
    <3>1. Live \in SUBSET Int /\ allocs \in Nat /\ \A x \in Live : x <= allocs
      BY LiveAreNumbers DEF IndInv
    <3>2. \A x \in Live : x < child
      BY <1>8, <3>1
    <3> QED BY <1>4, <3>2
  <2>3. key \in KeyFor(IF p = <<>> THEN Root ELSE p[Len(p)].c)'
    <3>1. key \in KeyFor(c)
      BY <1>2, LiveAreNumbers DEF SetIn, KeyFor, IsObject, IsArray, IndInv
    <3>2. KeyFor(c)' = KeyFor(c)
      BY <1>5, <1>6, HoldsFrame DEF Effect
    <3>3. key \in KeyFor(c)'
      BY <3>1, <3>2
    <3> QED BY <1>4, <3>3
  <2> QED BY <1>9, <1>10, <2>1, <2>2, <2>3, PathGoesOn
<1>12. PathOK'
  BY <1>9, <1>11, NextPathOKIsPathIn
<1>13. Held \subseteq Held'
  <2> DEFINE R == [c : Live' \ lost', key : Keys \cup {NULL}, held : BOOLEAN]
  <2>1. p \in Seq(R) /\ q \in Seq(R)
    BY <1>10, <1>11 DEF PathIn
  <2>2. Step(child, key, FALSE) \in R
    <3>1. child \in Live' \ lost'
      BY <1>3, <1>6, <1>7, <1>8 DEF Effect, Free
    <3> QED BY <3>1 DEF Step
  <2>3. Len(q) = Len(p) + 1 /\ \A i \in 1 .. Len(p) : q[i] = p[i]
    <3>1. PICK s \in R : s = Step(child, key, FALSE)
      BY <2>2
    <3>2. q = Append(p, s) /\ p \in Seq(R)
      BY <1>9, <2>1, <3>1
    <3> HIDE DEF R
    <3> QED BY <3>2, AppendProperties
  <2>4. \A x : x \in Held' <=> \E i \in 1 .. Len(q) : q[i].held /\ q[i].c = x
    BY <1>9, <2>1, NextHeldOnPath
  <2>5. \A x : x \in Held <=> \E i \in 1 .. Len(p) : p[i].held /\ p[i].c = x
    BY <1>1, <1>4, HeldOnPath
  <2>6. \A i \in 1 .. Len(p) : i \in 1 .. Len(q)
    BY <1>4, <2>3
  <2> QED BY <2>3, <2>4, <2>5, <2>6
<1> QED BY <1>3, <1>5, <1>12, <1>13, CallKeepsInv

-----------------------------------------------------------------------------
(* The theorems. *)

\* Documents are trees: every member refers to a container that is allocated,
\* no two to the same, each after the one that holds it, and a reader that
\* stops leaves behind what it reports as lost and nothing else.  This is what
\* kdf_doc_create_alloc sets up, and what every call of kdf_object.c,
\* kdf_array.c and both readers keeps, wherever it fails.
THEOREM DocumentIsSound == Spec => []IndInv
<1>1. Init => IndInv
  <2> SUFFICES ASSUME Init  PROVE IndInv
    OBVIOUS
  <2>1. /\ Live = {} /\ DOMAIN members = {Root} /\ members[Root] = <<>> /\ path = <<>>
        /\ lost = {} /\ allocs = 0 /\ status = "none" /\ kind = <<>> /\ Held = {}
    BY DEF Init, Live, Held, Range
  <2>2. Children(Root) = {}
    BY <2>1 DEF Children, ChildrenIn
  <2>3. TypeOK
    BY <2>1, DocumentAssumption DEF TypeOK
  <2>4. TreeOK
    BY <2>1, <2>2, EmptySeq, DocumentAssumption DEF TreeOK, OneOwner
  <2>5. PathOK
    BY <2>1, EmptySeq DEF PathOK
  <2>6. LostOK /\ KeysUnique /\ DestroyFreesAll
    BY <2>1, <2>2 DEF LostOK, KeysUnique, DestroyFreesAll
  <2> QED BY <2>3, <2>4, <2>5, <2>6 DEF IndInv
<1>2. IndInv /\ [Next]_vars => IndInv'
  BY CreateKeeps, SetKeeps, RemoveMemberKeeps, ClearKeeps, DestroyKeeps, ReadPlainKeeps,
     OpenContainerKeeps, OpenShorthandKeeps, CloseContainerKeeps, CloseNoMemoryKeeps,
     ReturnNullKeeps DEF Next
<1> QED BY <1>1, <1>2, PTL DEF Spec

\* Every container belongs to one place, so that destroying the document frees
\* it once.
THEOREM EachOwnedOnce == Spec => []OwnedOnce
<1>1. IndInv => OwnedOnce
  <2> SUFFICES ASSUME IndInv  PROVE OwnedOnce
    OBVIOUS
  <2>1. TypeOK /\ TreeOK /\ PathOK /\ LostOK /\ KeysUnique
    BY DEF IndInv
  <2>2. ASSUME NEW b \in Live
        PROVE  /\ Cardinality(Places(b)) <= 1
               /\ Places(b) = {} <=> \A o \in DOMAIN members : b \notin Children(o)
    <3>1. b # NULL
      BY <2>1, LiveAreNumbers
    <3>2. \A x, y \in Places(b) : x = y
      BY <2>1, <3>1 DEF TreeOK, OneOwner, Places
    <3>3. Cardinality(Places(b)) <= 1
      <4>1. CASE Places(b) = {}
        <5>1. Cardinality(Places(b)) = 0
          BY <4>1, FS_EmptySet
        <5> QED BY <5>1
      <4>2. CASE Places(b) # {}
        <5>1. PICK x : Places(b) = {x}
          BY <3>2, <4>2
        <5>2. Cardinality({x}) = 1
          BY FS_Singleton
        <5> QED BY <5>1, <5>2
      <4> QED BY <4>1, <4>2
    <3>4. \A o \in DOMAIN members : DOMAIN members[o] \subseteq 1 .. MaxMembers
      <4>1. ASSUME NEW o \in DOMAIN members
            PROVE  /\ DOMAIN members[o] = 1 .. Len(members[o])
                   /\ Len(members[o]) \in Nat /\ Len(members[o]) <= MaxMembers
        BY MembersAreRecords
      <4> QED BY <4>1, DocumentAssumption
    <3>5. Places(b) = {} <=> \A o \in DOMAIN members : b \notin Children(o)
      <4>1. ASSUME NEW o \in DOMAIN members, b \in Children(o)  PROVE Places(b) # {}
        <5>1. PICK i \in DOMAIN members[o] : members[o][i].child = b
          BY <4>1 DEF Children, ChildrenIn
        <5>2. <<o, i>> \in Places(b)
          BY <3>4, <5>1 DEF Places
        <5> QED BY <5>2
      <4>2. ASSUME NEW x \in Places(b)  PROVE b \in Children(x[1]) /\ x[1] \in DOMAIN members
        BY <3>1 DEF Places, Children, ChildrenIn
      <4> QED BY <4>1, <4>2
    <3> QED BY <3>3, <3>5
  <2>3. \A b \in Held : b \notin lost /\ \A o \in DOMAIN members : b \notin Children(o)
    BY <2>1, HeldIsFree
  <2>4. lost \subseteq DOMAIN members
    BY <2>1 DEF TypeOK
  <2>5. \A b \in Live : Places(b) = {} <=> b \in Held \/ (b \in lost /\ \A l \in lost : b \notin Children(l))
    BY <2>1, <2>2, <2>3, <2>4 DEF LostOK
  <2> QED BY <2>1, <2>2, <2>3, <2>5 DEF OwnedOnce, KeysUnique
<1> QED BY <1>1, DocumentIsSound, PTL

\* Whatever is not lost can be reached from the root object or from a reader.
THEOREM NothingLeftBehind == Spec => []AllReached
<1>1. IndInv => AllReached
  <2> SUFFICES ASSUME IndInv, NEW S \in SUBSET (Live \ lost), S # {}
               PROVE  \E b \in S : b \in Held \/ \E o \in DOMAIN members \ S : b \in Children(o)
    BY DEF AllReached
  <2>1. TypeOK /\ TreeOK /\ LostOK
    BY DEF IndInv
  <2>2. /\ Live \in SUBSET Int /\ IsFiniteSet(S) /\ S \in SUBSET Int
        /\ DOMAIN members = Live \cup {Root} /\ Root \in Int
    <3>1. Live \in SUBSET Int /\ IsFiniteSet(Live) /\ S \in SUBSET Live
      BY <2>1, LiveAreNumbers
    <3>2. IsFiniteSet(S)
      BY <3>1, FS_Subset
    <3> QED BY <2>1, <3>1, <3>2 DEF TypeOK, Root
  <2>3. PICK m \in S : \A y \in S : m <= y
    BY <2>2, HasMin
  <2>4. CASE m \notin Held
    <3>1. PICK o \in DOMAIN members : m \in Children(o)
      BY <2>1, <2>4 DEF LostOK
    <3>2. o < m /\ o \in Int /\ m \in Int
      BY <2>1, <2>2, <3>1 DEF TreeOK
    <3>3. o \notin S
      BY <2>3, <3>2
    <3> QED BY <3>1, <3>3
  <2> QED BY <2>4
<1> QED BY <1>1, DocumentIsSound, PTL

\* A document that was destroyed leaves allocated only what a reader reported
\* as lost.
THEOREM DestroyedFreesAll == Spec => []DestroyFreesAll
<1>1. IndInv => DestroyFreesAll
  BY DEF IndInv
<1> QED BY <1>1, DocumentIsSound, PTL

\* A call changes the container it is made on, and frees what that drops, with
\* all below: other containers keep their place and what they hold.
THEOREM OthersStay == Spec => HandlesStable
<1> DEFINE Stable == \E c \in DOMAIN members \cap DOMAIN members' :
             /\ \A b \in DOMAIN members \ ((Live \ DOMAIN kind') \cup {c}) : members'[b] = members[b]
             /\ \A b \in Live : b \in Live \ DOMAIN kind' <=>
                  \E o \in DOMAIN members : b \in Children(o) /\
                    (o \in Live \ DOMAIN kind' \/ (o = c /\ b \notin ChildrenIn(members'[c])))
<1>1. ASSUME IndInv, NEW c, NEW ms, NEW k, NEW child, Calls(c, ms, k, child)
      PROVE  Stable
  <2>1. Effect(c, ms, child)
    BY <1>1, HoldsEffect
  <2>2. c \in (DOMAIN members) \ lost
    BY <1>1 DEF Calls, Callable
  <2>3. /\ Freed(c, ms) \in SUBSET Live
        /\ \A b \in Live : b \in Freed(c, ms) <=>
             \E o \in DOMAIN members : b \in Children(o) /\
               (o \in Freed(c, ms) \/ (o = c /\ b \notin ChildrenIn(ms)))
    BY <1>1, <2>2, FreedIsBelow
  <2>4. /\ DOMAIN kind' = (Live \ Freed(c, ms)) \cup New(child)
        /\ DOMAIN members' = DOMAIN kind' \cup {Root} /\ c \in DOMAIN members' /\ members'[c] = ms
        /\ \A b \in DOMAIN members' \ {c} :
             members'[b] = IF b \in New(child) THEN <<>> ELSE members[b]
    BY <2>1 DEF Effect, Live
  <2>5. Live \ DOMAIN kind' = Freed(c, ms)
    BY <2>3, <2>4 DEF New
  <2>6. New(child) \cap DOMAIN members = {} /\ DOMAIN members = Live \cup {Root}
    BY <1>1, HoldsFrame DEF IndInv, TypeOK
  <2>7. \A b \in DOMAIN members \ (Freed(c, ms) \cup {c}) : members'[b] = members[b]
    BY <2>4, <2>6
  <2> QED BY <2>2, <2>3, <2>4, <2>5, <2>7
<1>2. ASSUME IndInv, DOMAIN members \subseteq DOMAIN members', Live \subseteq DOMAIN kind',
             \A b \in DOMAIN members : members'[b] = members[b]
      PROVE  Stable
  <2>1. Root \in DOMAIN members \cap DOMAIN members' /\ members'[Root] = members[Root]
    BY <1>2 DEF IndInv, TypeOK
  <2>2. Live \ DOMAIN kind' = {}
    BY <1>2
  <2>3. Children(Root) = ChildrenIn(members'[Root])
    BY <2>1 DEF Children
  <2> QED BY <1>2, <2>1, <2>2, <2>3
<1> HIDE DEF Stable
<1>3. IndInv /\ Next => Stable
  <2> SUFFICES ASSUME IndInv, Next  PROVE Stable
    OBVIOUS
  <2>1. CASE Set \/ RemoveMember \/ Clear
    BY <1>1, <2>1, SetStep, RemoveMemberStep, ClearStep
  <2>2. CASE Destroy \/ ReturnNull
    BY <1>1, <2>2, RootEmptyStep DEF Destroy, ReturnNull
  <2>3. CASE ReadPlain
    <3>1. PICK c : c = Current
      OBVIOUS
    <3> QED BY <1>1, <2>3, <3>1, ReadPlainStep
  <2>4. CASE OpenContainer
    <3>1. PICK b \in Fresh, k \in Kinds :
            /\ kind' = [x \in Live \cup {b} |-> IF x = b THEN k ELSE kind[x]]
            /\ members' = [x \in DOMAIN members \cup {b} |-> IF x = b THEN <<>> ELSE members[x]]
      BY <2>4 DEF OpenContainer
    <3>2. b \notin DOMAIN members
      <4>1. Root \in DOMAIN members /\ DOMAIN members = Live \cup {Root}
        BY DEF IndInv, TypeOK
      <4>2. b \notin Live /\ Free(Root, b) /\ Root \in Int
        BY <4>1, FreshIsFree DEF Root
      <4>3. ~(Root < Root)
        BY <4>2
      <4> QED BY <4>1, <4>2, <4>3 DEF Free
    <3> QED BY <1>2, <3>1, <3>2
  <2>5. CASE OpenShorthand
    <3>1. PICK c : c = Current
      OBVIOUS
    <3>2. PICK key \in Keys : SetIn(c, key, "object")
      BY <2>5, <3>1 DEF OpenShorthand
    <3>3. c \in (DOMAIN members) \ lost /\ "object" \in Kinds
      BY <3>1, ReadersPath DEF Kinds
    <3> QED BY <1>1, <3>2, <3>3, SetIsCall
  <2>6. CASE CloseContainer
    <3>1. CASE Last(path).held
      BY <1>1, <2>6, <3>1, CloseContainerStep
    <3>2. CASE ~Last(path).held
      BY <1>2, <2>6, <3>2 DEF CloseContainer, Live
    <3> QED BY <3>1, <3>2
  <2>7. CASE Create \/ CloseNoMemory \/ ReturnDocument
    BY <1>2, <2>7 DEF Create, CloseNoMemory, ReturnDocument, Live
  <2> QED BY <2>1, <2>2, <2>3, <2>4, <2>5, <2>6, <2>7 DEF Next
<1>4. IndInv /\ [Next]_vars => [Stable]_vars
  BY <1>3
<1>5. HandlesStable <=> [][Stable]_vars
  BY DEF HandlesStable, Stable
<1> QED BY <1>4, <1>5, DocumentIsSound, PTL DEF Spec

-----------------------------------------------------------------------------
(* What leaks. *)

\* What can be reached is what is not lost.
LEMMA ReachedIsKept ==
  ASSUME IndInv
  PROVE  Reached = Live \ lost
<1> DEFINE S == Children(Root) \cup Held
<1>1. /\ TypeOK /\ PathOK /\ LostOK /\ Root \notin Live /\ lost \in SUBSET Live
      /\ DOMAIN members = Live \cup {Root}
  BY LiveAreNumbers DEF IndInv, TypeOK
<1>2. S \in SUBSET (Live \ lost)
  <2>1. Children(Root) \in SUBSET (Live \ lost)
    BY <1>1, ChildrenAreLive DEF LostOK
  <2> QED BY <1>1, <2>1, HeldIsFree
<1>3. Live \ lost \in SUBSET Live /\ \A c \in Live \ lost : Children(c) \subseteq Live \ lost
  BY <1>1, ChildrenAreLive DEF LostOK
<1>4. S \in SUBSET Live
  BY <1>2
<1> HIDE DEF S
<1>5. Below(S) \subseteq Live \ lost
  BY <1>2, <1>3, BelowIsLeast
<1>6. /\ Below(S) \in SUBSET Live /\ S \subseteq Below(S)
      /\ \A c \in Below(S) : Children(c) \subseteq Below(S)
  BY <1>1, <1>4, BelowIsClosed
<1>7. Below(S) \cup lost = Live
  <2>1. PICK T : T = Below(S) \cup lost
    OBVIOUS
  <2>2. T \in SUBSET Live
    BY <1>1, <1>6, <2>1
  <2>3. \A o \in T : Children(o) \subseteq T
    <3>1. \A o \in lost : Children(o) \subseteq lost
      BY <1>1 DEF LostOK
    <3> QED BY <1>6, <2>1, <3>1
  <2>4. Children(Root) \cup Held \cup lost \subseteq T
    BY <1>6, <2>1 DEF S
  <2> QED BY <2>1, <2>2, <2>3, <2>4, AllBelow
<1> QED BY <1>5, <1>7 DEF Reached, S

\* What is below a held container was not lost.
LEMMA HeldBelowIsKept ==
  ASSUME IndInv, NEW D \in SUBSET Held
  PROVE  Below(D) \in SUBSET (Live \ lost) /\ (D = {} => Below(D) = {})
<1>1. /\ TypeOK /\ PathOK /\ LostOK /\ DOMAIN members = Live \cup {Root}
  BY DEF IndInv, TypeOK
<1>2. D \in SUBSET (Live \ lost)
  BY <1>1, HeldIsFree
<1>3. Live \ lost \in SUBSET Live /\ \A c \in Live \ lost : Children(c) \subseteq Live \ lost
  BY <1>1, ChildrenAreLive DEF LostOK
<1>4. Below(D) \subseteq Live \ lost
  BY <1>2, <1>3, BelowIsLeast
<1>5. D = {} => Below(D) \subseteq {}
  <2>1. {} \in SUBSET Live /\ \A c \in {} : Children(c) \subseteq {}
    OBVIOUS
  <2> QED BY <2>1, BelowIsLeast
<1> QED BY <1>4, <1>5

\* Each step loses what is below the containers it drops, and nothing else.
LEMMA DroppedIsLost ==
  ASSUME IndInv, Next
  PROVE  Dropped \in SUBSET Held /\ lost' = lost \cup Below(Dropped)
<1>1. ASSUME lost' = lost, Dropped = {}
      PROVE  Dropped \in SUBSET Held /\ lost' = lost \cup Below(Dropped)
  BY <1>1, HeldBelowIsKept
<1>2. ASSUME UNCHANGED <<path, lost>>, status' # "gone"
      PROVE  lost' = lost /\ Dropped = {}
  <2>1. Held' = Held
    BY <1>2 DEF Held
  <2> QED BY <1>2, <2>1 DEF Dropped
<1>3. CASE Create \/ ReturnDocument
  BY <1>1, <1>2, <1>3 DEF Create, ReturnDocument
<1>4. CASE Set \/ RemoveMember \/ Clear
  BY <1>1, <1>2, <1>4 DEF Set, RemoveMember, Clear, SetIn, PushIn
<1>5. CASE ReadPlain
  BY <1>1, <1>2, <1>5 DEF ReadPlain, SetIn, PushIn
<1>6. CASE Destroy
  <2>1. Held = {}
    BY <1>6 DEF Destroy, IndInv, TypeOK, Held, Range
  <2> QED BY <1>1, <1>6, <2>1 DEF Destroy, Dropped
<1>7. CASE OpenContainer
  <2>1. PICK b \in Fresh : \E k \in Kinds :
          members' = [x \in DOMAIN members \cup {b} |-> IF x = b THEN <<>> ELSE members[x]]
    BY <1>7 DEF OpenContainer
  <2>2. Root \in DOMAIN members /\ DOMAIN members = Live \cup {Root} /\ Root \in Int
    BY DEF IndInv, TypeOK, Root
  <2>3. b \notin Live /\ Root < b
    BY <2>2, FreshIsFree DEF Free
  <2>4. b \in DOMAIN members' /\ b \notin DOMAIN members
    BY <2>1, <2>2, <2>3
  <2> QED BY <1>1, <1>7, <2>4 DEF OpenContainer, Dropped
<1>8. CASE OpenShorthand
  <2>1. PICK c : c = Current
    OBVIOUS
  <2>2. PICK key \in Keys : SetIn(c, key, "object") /\ allocs' # allocs
    BY <1>8, <2>1 DEF OpenShorthand
  <2>3. c \in (DOMAIN members) \ lost
    BY <2>1, ReadersPath
  <2>4. PICK ms, child : child \in Fresh \cup {NULL} /\ Calls(c, ms, "object", child)
    BY <2>2, <2>3, SetIsCall DEF Kinds
  <2>5. Effect(c, ms, child)
    BY <2>4, HoldsEffect
  <2>6. child = allocs' /\ child # NULL /\ child \in DOMAIN members'
    BY <2>2, <2>5 DEF Effect, New
  <2>7. child \notin DOMAIN members
    <3>1. child \notin Live /\ Free(Root, child) /\ DOMAIN members = Live \cup {Root} /\ Root \in Int
      BY <2>4, <2>6, FreshIsFree DEF IndInv, TypeOK, Root
    <3> QED BY <3>1 DEF Free
  <2> QED BY <1>1, <1>8, <2>2, <2>6, <2>7 DEF OpenShorthand, SetIn, Dropped
<1>9. ASSUME CloseContainer \/ CloseNoMemory
      PROVE  /\ Last(path).c \in Held \/ ~Last(path).held
             /\ Held' = IF Last(path).held THEN Held \ {Last(path).c} ELSE Held
  <2>1. path # <<>> /\ path' = Front(path)
    BY <1>9 DEF CloseContainer, CloseNoMemory
  <2>2. PICK n \in 0 .. Len(path) : n = Len(path) - 1
    BY <2>1, ReadersEnd
  <2>3. PICK p : p = path'
    OBVIOUS
  <2>4. p = SubSeq(path, 1, n)
    BY <2>1, <2>2, <2>3, ReadersEnd
  <2> DEFINE R == [c : Live \ lost, key : Keys \cup {NULL}, held : BOOLEAN]
  <2>5. path \in Seq(R)
    BY ReadersPath
  <2>6. p \in Seq(R) /\ Len(p) = n /\ \A i \in 1 .. n : p[i] = path[i]
    <3> HIDE DEF R
    <3>1. \A i \in 1 .. n : i \in 1 .. Len(path)
      BY <2>2, ReadersPath
    <3>2. /\ SubSeq(path, 1, n) \in Seq(R)
          /\ Len(SubSeq(path, 1, n)) = IF 1 <= n THEN n - 1 + 1 ELSE 0
          /\ \A i \in 1 .. n - 1 + 1 : SubSeq(path, 1, n)[i] = path[1 + i - 1]
      BY <2>5, <3>1, SubSeqProperties
    <3> QED BY <2>2, <2>4, <3>2
  <2> HIDE DEF R
  <2>7. Held' = IF Last(path).held THEN Held \ {Last(path).c} ELSE Held
    BY <2>1, <2>2, <2>3, <2>6, HeldButLast
  <2> QED BY <2>1, <2>7, ReadersEnd
<1>10. CASE CloseContainer
  <2>1. status' # "gone" /\ lost' = lost /\ path # <<>>
    BY <1>10 DEF CloseContainer
  <2>2. CASE Last(path).held
    <3>1. PICK c, ms, child : child = Last(path).c /\ Calls(c, ms, NULL, child)
      BY <1>10, <2>2, CloseContainerStep
    <3>2. Effect(c, ms, child)
      BY <3>1, HoldsEffect
    <3>3. child \in Live /\ child # NULL
      BY <2>1, <3>1, ReadersEnd, LiveAreNumbers DEF IndInv
    <3>4. child \in ChildrenIn(ms) /\ child \notin Children(c)
      BY <3>1, <3>3 DEF Calls, Callable, Free
    <3>5. members' # members
      BY <3>2, <3>4 DEF Effect, Children
    <3> QED BY <1>1, <2>1, <3>5 DEF Dropped
  <2>3. CASE ~Last(path).held
    BY <1>1, <1>9, <1>10, <2>1, <2>3 DEF Dropped
  <2> QED BY <2>2, <2>3
<1>11. CASE CloseNoMemory
  <2>1. Last(path).held /\ status' # "gone" /\ members' = members /\ lost' = lost \cup Below({Last(path).c})
    BY <1>11 DEF CloseNoMemory
  <2>2. Held \ Held' = {Last(path).c}
    BY <1>9, <1>11, <2>1
  <2> QED BY <2>1, <2>2 DEF Dropped
<1>12. CASE ReturnNull
  BY <1>12 DEF ReturnNull, Dropped
<1> QED BY <1>3, <1>4, <1>5, <1>6, <1>7, <1>8, <1>10, <1>11, <1>12 DEF Next

\* What kdf_doc_destroy (kdf_document.c) leaves allocated is what a reader held
\* and gave up, for all trees and all ways to fail.
THEOREM ReadersLeak == Spec => OnlyReadersLeak
<1> DEFINE Leaks == Reached \cap (DOMAIN kind' \ Reached') = Below(Dropped)
<1> DEFINE Kept == Reached = Live \ lost
<1>1. IndInv => Kept
  BY ReachedIsKept
<1>2. IndInv' => Kept'
  <2> HIDE DEF Kept
  <2> QED BY <1>1, PTL
<1>3. IndInv /\ IndInv' /\ Next => Leaks
  <2> SUFFICES ASSUME IndInv, IndInv', Next  PROVE Leaks
    OBVIOUS
  <2>1. Dropped \in SUBSET Held /\ lost' = lost \cup Below(Dropped)
    BY DroppedIsLost
  <2>2. PICK D \in SUBSET Held : D = Dropped
    BY <2>1
  <2>3. PICK B : B = Below(D)
    OBVIOUS
  <2>4. B \in SUBSET (Live \ lost)
    BY <2>3, HeldBelowIsKept
  <2>5. lost' \in SUBSET DOMAIN kind' /\ Live' = DOMAIN kind'
    BY DEF IndInv, TypeOK, Live
  <2>6. Reached \cap (DOMAIN kind' \ Reached') = B
    BY <1>1, <1>2, <2>1, <2>2, <2>3, <2>4, <2>5
  <2> QED BY <2>2, <2>3, <2>6
<1>4. IndInv /\ IndInv' /\ [Next]_vars => [Leaks]_vars
  BY <1>3
<1>5. OnlyReadersLeak <=> [][Leaks]_vars
  BY DEF OnlyReadersLeak
<1> QED BY <1>4, <1>5, DocumentIsSound, PTL DEF Spec
=============================================================================
