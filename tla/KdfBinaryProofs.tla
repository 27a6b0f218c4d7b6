--------------------------- MODULE KdfBinaryProofs ---------------------------
(***************************************************************************)
(* What kdf_binary_write wrote, kdf_binary_read reads back, whichever      *)
(* document, and where anything fails.                                     *)
(***************************************************************************)
EXTENDS KdfBinary, CommonProofs

-----------------------------------------------------------------------------
(* The recursive definitions, unfolded. *)

\* The members of a container, filled in one by one.
FilledFrom(v, st, low, below) ==
  \A i \in 1 .. Len(below) :
    Filled(v, st, low, below, i)
      = Put(Filled(v, st, low, below, i - 1), Kept(KeyOf(v, i), st, low), below[i])
\* Each step of the filling is one insertion (kdf_object.c:79-129).
LEMMA FilledByOne ==
  ASSUME NEW v, NEW st, NEW low, NEW below, Len(below) \in Nat
  PROVE  /\ Filled(v, st, low, below, 0) = <<>>
         /\ v.type # "array" => FilledFrom(v, st, low, below)
<1> DEFINE n == Len(below)
           Step(i, x) == Put(x, Kept(KeyOf(v, i), st, low), below[i])
           S == {k \in Nat : \E f : f = [i \in 0 .. k |-> IF i = 0 THEN <<>> ELSE Step(i, f[i - 1])]}
<1> HIDE DEF Step
<1>1. 0 .. n \subseteq S
  <2>1. 0 \in S
    <3>1. [i \in 0 .. 0 |-> <<>>] = [i \in 0 .. 0 |-> IF i = 0 THEN <<>> ELSE Step(i, [j \in 0 .. 0 |-> <<>>][i - 1])]
      OBVIOUS
    <3> QED BY <3>1
  <2>2. ASSUME NEW k \in 0 .. n - 1, k \in S  PROVE k + 1 \in S
    <3>1. PICK f : f = [i \in 0 .. k |-> IF i = 0 THEN <<>> ELSE Step(i, f[i - 1])]
      BY <2>2
    <3> DEFINE g == [i \in 0 .. k + 1 |-> IF i = 0 THEN <<>> ELSE Step(i, f[i - 1])]
    <3>2. \A i \in 0 .. k : g[i] = f[i]
      BY <3>1
    <3>3. \A i \in 0 .. k + 1 : i # 0 => g[i - 1] = f[i - 1]
      BY <3>2
    <3>4. g = [i \in 0 .. k + 1 |-> IF i = 0 THEN <<>> ELSE Step(i, g[i - 1])]
      BY <3>3
    <3>5. k + 1 \in Nat
      OBVIOUS
    <3> HIDE DEF g
    <3> QED BY <3>4, <3>5
  <2> HIDE DEF S
  <2> QED BY <2>1, <2>2, InductionUpTo
<1> DEFINE F == CHOOSE f : f = [i \in 0 .. n |-> IF i = 0 THEN <<>> ELSE Step(i, f[i - 1])]
<1>2. F = [i \in 0 .. n |-> IF i = 0 THEN <<>> ELSE Step(i, F[i - 1])]
  <2>1. n \in S
    <3>1. n \in 0 .. n
      OBVIOUS
    <3> HIDE DEF S
    <3> QED BY <1>1, <3>1
  <2> QED BY <2>1
<1>3. \A i : v.type # "array" => Filled(v, st, low, below, i) = F[i]
  BY DEF Filled, Step
<1> HIDE DEF F
<1>4. F[0] = <<>> /\ \A i \in 1 .. n : F[i] = Step(i, F[i - 1])
  BY <1>2
<1>5. v.type = "array" => Filled(v, st, low, below, 0) = <<>>
  BY DEF Filled
<1> QED BY <1>3, <1>4, <1>5 DEF Step, FilledFrom

\* A member is a value nested less deeply.
LEMMA MembersBelow ==
  /\ Depth \in [Values -> Nat]
  /\ \A v \in Values :
       /\ Members(v) \in Seq([key : Contents \cup {NULL}, value : Values])
       /\ \A i \in DOMAIN Members(v) :
            Members(v)[i].value \in Values /\ Depth[Members(v)[i].value] < Depth[v]
<1>1. Depth \in [Values -> Nat]
  BY ValuesAssumption
<1>2. ASSUME NEW v \in Values
      PROVE  /\ Members(v) \in Seq([key : Contents \cup {NULL}, value : Values])
             /\ \A i \in DOMAIN Members(v) :
                  Members(v)[i].value \in Values /\ Depth[Members(v)[i].value] < Depth[v]
  <2>1. CASE v.type \in Containers /\ v.members # NULL
    <3>1. ContainerOK(v)
      BY <2>1, ValuesAssumption DEF PlainTypes
    <3>2. Members(v) = v.members /\ v.members \in Seq([key : Contents \cup {NULL}, value : Values])
      BY <2>1, <3>1 DEF ContainerOK, Members
    <3>3. \A i \in DOMAIN Members(v) : Depth[Members(v)[i].value] < Depth[v]
      BY <3>1 DEF ContainerOK
    <3>4. \A i \in DOMAIN Members(v) : Members(v)[i].value \in Values
      <4> DEFINE K == [key : Contents \cup {NULL}, value : Values]
      <4>1. \A k \in K : k.value \in Values
        OBVIOUS
      <4> HIDE DEF K
      <4>2. \A s \in Seq(K) : \A i \in DOMAIN s : s[i] \in K
        OBVIOUS
      <4>3. Members(v) \in Seq(K)
        BY <3>2 DEF K
      <4> QED BY <4>1, <4>2, <4>3
    <3> QED BY <3>2, <3>3, <3>4
  <2>2. CASE ~ (v.type \in Containers /\ v.members # NULL)
    BY <2>2 DEF Members
  <2> QED BY <2>1, <2>2
<1> QED BY <1>1, <1>2

\* What the three functions on trees make of a value, given what they make of
\* its members.
Below(v, f)  == [i \in DOMAIN Members(v) |-> f[Members(v)[i].value]]
Part(below, k) == [i \in DOMAIN below |-> below[i][k]]
Three(v, st, low, below) ==
  <<Collected(v, Part(below, 1)), Laid(v, st, Part(below, 2)), Rebuilt(v, st, low, Part(below, 3))>>
Threefold(f, st, low) == f = [u \in Values |-> Three(u, st, low, Below(u, f))]

\* Trees are finite, so that there is one function on them that does this.
LEMMA Recursion ==
  ASSUME NEW st, NEW low
  PROVE  \E f : Threefold(f, st, low)
<1> DEFINE Low(d) == {v \in Values : Depth[v] < d}
           Body(u, below) == Three(u, st, low, below)
           Approx(d, f) == f = [u \in Low(d) |-> Body(u, Below(u, f))]
           S == {d \in Nat : (\E f : Approx(d, f)) /\ \A f, g : Approx(d, f) /\ Approx(d, g) => f = g}
<1> HIDE DEF Body
<1>1. /\ Depth \in [Values -> Nat]
      /\ \A v \in Values : \A i \in DOMAIN Members(v) :
           Members(v)[i].value \in Values /\ Depth[Members(v)[i].value] < Depth[v]
  BY MembersBelow
<1>2. ASSUME NEW d \in Nat, NEW e \in Nat, e <= d, NEW f, Approx(d, f)
      PROVE  Approx(e, [u \in Low(e) |-> f[u]])
  <2> DEFINE g == [u \in Low(e) |-> f[u]]
  <2>1. Low(e) \subseteq Low(d)
    BY <1>1, <1>2
  <2>2. ASSUME NEW u \in Low(e)  PROVE Below(u, g) = Below(u, f)
    <3>1. \A i \in DOMAIN Members(u) : Members(u)[i].value \in Low(e)
      BY <1>1
    <3> HIDE DEF Low
    <3> QED BY <3>1 DEF Below
  <2>3. \A u \in Low(e) : g[u] = Body(u, Below(u, g))
    <3> HIDE DEF Low, g
    <3>1. \A u \in Low(e) : g[u] = f[u]
      BY DEF g
    <3> QED BY <1>2, <2>1, <2>2, <3>1
  <2> HIDE DEF Low
  <2>4. g = [u \in Low(e) |-> g[u]]
    OBVIOUS
  <2> HIDE DEF g
  <2>5. g = [u \in Low(e) |-> Body(u, Below(u, g))]
    BY <2>3, <2>4
  <2> QED BY <2>5 DEF g
<1>3. Nat \subseteq S
  <2>1. 0 \in S
    <3>1. Low(0) = {}
      BY <1>1
    <3>2. \A f : Approx(0, f) <=> f = [u \in {} |-> 0]
      BY <3>1
    <3> HIDE DEF Approx
    <3> QED BY <3>2
  <2>2. ASSUME NEW d \in Nat, d \in S  PROVE d + 1 \in S
    <3>1. PICK f : Approx(d, f)
      BY <2>2
    <3>2. \A g, h : Approx(d, g) /\ Approx(d, h) => g = h
      BY <2>2
    <3>3. \A u \in Low(d + 1) : \A i \in DOMAIN Members(u) : Members(u)[i].value \in Low(d)
      <4> SUFFICES ASSUME NEW u \in Low(d + 1), NEW i \in DOMAIN Members(u)
                   PROVE  Members(u)[i].value \in Low(d)
        OBVIOUS
      <4>1. u \in Values /\ Depth[u] \in Nat /\ Depth[u] < d + 1
        BY <1>1
      <4>2. Members(u)[i].value \in Values /\ Depth[Members(u)[i].value] < Depth[u]
            /\ Depth[Members(u)[i].value] \in Nat
        BY <1>1, <4>1
      <4> QED BY <4>1, <4>2
    <3> DEFINE g == [u \in Low(d + 1) |-> Body(u, Below(u, f))]
    <3>4. Approx(d + 1, g)
      <4>1. Low(d) \subseteq Low(d + 1)
        BY <1>1
      <4> HIDE DEF Low
      <4>2. \A u \in Low(d) : g[u] = f[u]
        BY <3>1, <4>1
      <4> HIDE DEF g
      <4>3. \A u \in Low(d + 1) : Below(u, g) = Below(u, f)
        BY <3>3, <4>2 DEF Below
      <4> QED BY <4>3 DEF g
    <3>5. ASSUME NEW h, Approx(d + 1, h)  PROVE h = g
      <4>1. Approx(d, [u \in Low(d) |-> h[u]])
        <5>1. d + 1 \in Nat /\ d <= d + 1
          OBVIOUS
        <5> HIDE DEF Approx
        <5> QED BY <1>2, <3>5, <5>1
      <4>2. [u \in Low(d) |-> h[u]] = f
        <5> HIDE DEF Approx
        <5> QED BY <3>1, <3>2, <4>1
      <4> HIDE DEF Low
      <4>3. \A u \in Low(d) : f[u] = h[u]
        BY <4>2
      <4>4. \A u \in Low(d + 1) : Below(u, h) = Below(u, f)
        BY <3>3, <4>3 DEF Below
      <4> QED BY <3>5, <4>4
    <3>6. d + 1 \in Nat
      OBVIOUS
    <3> HIDE DEF Approx, g
    <3> QED BY <3>4, <3>5, <3>6
  <2> HIDE DEF S
  <2> QED BY <2>1, <2>2, Induction
<1> DEFINE At(d) == CHOOSE f : Approx(d, f)
           F == [u \in Values |-> At(Depth[u] + 1)[u]]
<1>4. \A d \in Nat : Approx(d, At(d)) /\ \A f : Approx(d, f) => f = At(d)
  <2> HIDE DEF Approx
  <2>1. \A d \in Nat : (\E f : Approx(d, f)) /\ \A f, g : Approx(d, f) /\ Approx(d, g) => f = g
    BY <1>3
  <2> QED BY <2>1
<1> HIDE DEF At
<1>5. ASSUME NEW u \in Values  PROVE F[u] = Body(u, Below(u, F))
  <2> DEFINE d == Depth[u] + 1
  <2>1. d \in Nat /\ u \in Low(d)
    BY <1>1
  <2>2. F[u] = Body(u, Below(u, At(d)))
    <3> HIDE DEF Low
    <3>1. At(d)[u] = Body(u, Below(u, At(d)))
      BY <1>4, <2>1
    <3> QED BY <3>1
  <2>3. ASSUME NEW i \in DOMAIN Members(u)
        PROVE  F[Members(u)[i].value] = At(d)[Members(u)[i].value]
    <3> DEFINE w == Members(u)[i].value
               e == Depth[w] + 1
    <3>1. w \in Values /\ e \in Nat /\ e <= d /\ w \in Low(e)
      <4>1. w \in Values /\ Depth[w] < Depth[u] /\ Depth[w] \in Nat /\ Depth[u] \in Nat
        BY <1>1
      <4> QED BY <4>1
    <3>2. [x \in Low(e) |-> At(d)[x]] = At(e)
      <4>1. Approx(d, At(d))
        BY <1>4, <2>1
      <4> HIDE DEF Approx, d, e
      <4>2. Approx(e, [x \in Low(e) |-> At(d)[x]])
        BY <1>2, <2>1, <3>1, <4>1
      <4> QED BY <1>4, <3>1, <4>2
    <3> HIDE DEF Low, d
    <3>3. At(e)[w] = At(d)[w]
      BY <3>1, <3>2
    <3> QED BY <3>1, <3>3
  <2> HIDE DEF F
  <2>4. Below(u, F) = Below(u, At(d))
    BY <2>3 DEF Below
  <2> QED BY <2>2, <2>4
<1>6. F = [u \in Values |-> F[u]]
  OBVIOUS
<1> HIDE DEF F
<1>7. F = [u \in Values |-> Body(u, Below(u, F))]
  BY <1>5, <1>6
<1>8. Threefold(F, st, low)
  BY <1>7 DEF Body, Threefold
<1> QED BY <1>8

\* So each of the three satisfies the equation that its definition states.
LEMMA Unfolded ==
  ASSUME NEW st, NEW low, NEW v \in Values
  PROVE  /\ StringsOf(v) = Collected(v, [i \in DOMAIN Members(v) |-> StringsOf(Child(v, i))])
         /\ Written(v, st) = Laid(v, st, [i \in DOMAIN Members(v) |-> Written(Child(v, i), st)])
         /\ Restored(v, st, low)
              = Rebuilt(v, st, low, [i \in DOMAIN Members(v) |-> Restored(Child(v, i), st, low)])
<1>0. PICK f : Threefold(f, st, low)
  BY Recursion
<1>1. f = [u \in Values |-> Three(u, st, low, Below(u, f))]
  BY <1>0 DEF Threefold
<1>2. \A u \in Values : /\ f[u][1] = Collected(u, Part(Below(u, f), 1))
                        /\ f[u][2] = Laid(u, st, Part(Below(u, f), 2))
                        /\ f[u][3] = Rebuilt(u, st, low, Part(Below(u, f), 3))
  <2>1. \A u \in Values : f[u] = Three(u, st, low, Below(u, f))
    BY <1>1
  <2> QED BY <2>1 DEF Three
<1>3. \A u \in Values : \A k : Part(Below(u, f), k) = [i \in DOMAIN Members(u) |-> f[Members(u)[i].value][k]]
  BY DEF Part, Below
<1>4. \A u \in Values : \A i \in DOMAIN Members(u) : Members(u)[i].value \in Values
  BY MembersBelow
<1>5. ASSUME NEW k, NEW u \in Values
      PROVE  Part(Below(u, f), k)
               = [i \in DOMAIN Members(u) |-> [x \in Values |-> f[x][k]][Members(u)[i].value]]
  BY <1>3, <1>4
<1> DEFINE F1 == CHOOSE g : g = [u \in Values |->
                   Collected(u, [i \in DOMAIN Members(u) |-> g[Members(u)[i].value]])]
           F2 == CHOOSE g : g = [u \in Values |->
                   Laid(u, st, [i \in DOMAIN Members(u) |-> g[Members(u)[i].value]])]
           F3 == CHOOSE g : g = [u \in Values |->
                   Rebuilt(u, st, low, [i \in DOMAIN Members(u) |-> g[Members(u)[i].value]])]
<1>6. F1 = [u \in Values |-> Collected(u, [i \in DOMAIN Members(u) |-> F1[Members(u)[i].value]])]
  <2> DEFINE g == [x \in Values |-> f[x][1]]
  <2>1. \A u \in Values : g[u] = Collected(u, [i \in DOMAIN Members(u) |-> g[Members(u)[i].value]])
    BY <1>2, <1>5
  <2>2. g = [u \in Values |-> g[u]]
    OBVIOUS
  <2> HIDE DEF g
  <2>3. g = [u \in Values |-> Collected(u, [i \in DOMAIN Members(u) |-> g[Members(u)[i].value]])]
    BY <2>1, <2>2
  <2> QED BY <2>3
<1>7. F2 = [u \in Values |-> Laid(u, st, [i \in DOMAIN Members(u) |-> F2[Members(u)[i].value]])]
  <2> DEFINE g == [x \in Values |-> f[x][2]]
  <2>1. \A u \in Values : g[u] = Laid(u, st, [i \in DOMAIN Members(u) |-> g[Members(u)[i].value]])
    BY <1>2, <1>5
  <2>2. g = [u \in Values |-> g[u]]
    OBVIOUS
  <2> HIDE DEF g
  <2>3. g = [u \in Values |-> Laid(u, st, [i \in DOMAIN Members(u) |-> g[Members(u)[i].value]])]
    BY <2>1, <2>2
  <2> QED BY <2>3
<1>8. F3 = [u \in Values |-> Rebuilt(u, st, low, [i \in DOMAIN Members(u) |-> F3[Members(u)[i].value]])]
  <2> DEFINE g == [x \in Values |-> f[x][3]]
  <2>1. \A u \in Values : g[u] = Rebuilt(u, st, low, [i \in DOMAIN Members(u) |-> g[Members(u)[i].value]])
    BY <1>2, <1>5
  <2>2. g = [u \in Values |-> g[u]]
    OBVIOUS
  <2> HIDE DEF g
  <2>3. g = [u \in Values |-> Rebuilt(u, st, low, [i \in DOMAIN Members(u) |-> g[Members(u)[i].value]])]
    BY <2>1, <2>2
  <2> QED BY <2>3
<1>9. \A u : StringsOf(u) = F1[u] /\ Written(u, st) = F2[u] /\ Restored(u, st, low) = F3[u]
  BY DEF StringsOf, Written, Restored
<1> HIDE DEF F1, F2, F3
<1>10. StringsOf(v) = Collected(v, [i \in DOMAIN Members(v) |-> StringsOf(Child(v, i))])
  BY <1>6, <1>9 DEF Child
<1>11. Written(v, st) = Laid(v, st, [i \in DOMAIN Members(v) |-> Written(Child(v, i), st)])
  <2>1. F2[v] = Laid(v, st, [i \in DOMAIN Members(v) |-> F2[Child(v, i)]])
    BY <1>7 DEF Child
  <2>2. [i \in DOMAIN Members(v) |-> F2[Child(v, i)]] = [i \in DOMAIN Members(v) |-> Written(Child(v, i), st)]
    BY <1>9
  <2> QED BY <1>9, <2>1, <2>2
<1>12. Restored(v, st, low) = Rebuilt(v, st, low, [i \in DOMAIN Members(v) |-> Restored(Child(v, i), st, low)])
  <2>1. F3[v] = Rebuilt(v, st, low, [i \in DOMAIN Members(v) |-> F3[Child(v, i)]])
    BY <1>8 DEF Child
  <2>2. [i \in DOMAIN Members(v) |-> F3[Child(v, i)]]
          = [i \in DOMAIN Members(v) |-> Restored(Child(v, i), st, low)]
    BY <1>9
  <2> QED BY <1>9, <2>1, <2>2
<1> QED BY <1>10, <1>11, <1>12

-----------------------------------------------------------------------------
(* What is in a stream. *)
Items == Int \cup Contents \cup {v.lit : v \in Values} \cup {v.version : v \in Values}

\* Tags are the numbers of the types.
LEMMA Tags ==
  ASSUME NEW t \in Range(Types)
  PROVE  Tag(t) \in Int /\ Tag(t) + 1 \in DOMAIN Types /\ Types[Tag(t) + 1] = t
<1>1. PICK i \in DOMAIN Types : Types[i] = t
  BY DEF Range
<1> DEFINE c == CHOOSE j \in DOMAIN Types : Types[j] = t
<1>2. c \in DOMAIN Types /\ Types[c] = t
  BY <1>1
<1>3. DOMAIN Types \subseteq Int
  BY DEF Types
<1>4. Tag(t) = c - 1
  BY DEF Tag
<1> HIDE DEF c
<1>5. Tag(t) + 1 = c /\ Tag(t) \in Int
  BY <1>2, <1>3, <1>4
<1> QED BY <1>2, <1>5

\* Every value has one of the types, and the fields of its type.
LEMMA ValuesTyped ==
  ASSUME NEW v \in Values
  PROVE  /\ v.type \in Range(Types)
         /\ (v.type \in PlainTypes /\ PlainOK(v)) \/ (v.type \in Containers /\ ContainerOK(v))
         /\ v.type \in Containers => v.type \notin PlainTypes
         /\ Members(v) \in Seq([key : Contents \cup {NULL}, value : Values])
         /\ Len(Members(v)) \in Nat /\ DOMAIN Members(v) = 1 .. Len(Members(v))
         /\ \A i \in 1 .. Len(Members(v)) :
              Child(v, i) \in Values /\ KeyOf(v, i) \in Contents \cup {NULL}
<1>1. (v.type \in PlainTypes /\ PlainOK(v)) \/ (v.type \in Containers /\ ContainerOK(v))
  BY ValuesAssumption
<1>2. v.type \in Range(Types)
  <2>1. Containers \subseteq Range(Types)
    <3>1. Types[12] = "array" /\ Types[13] = "object" /\ Types[16] = "subresource"
          /\ {12, 13, 16} \subseteq DOMAIN Types
      BY DEF Types
    <3> QED BY <3>1 DEF Containers, ObjectTypes, Range
  <2> QED BY <1>1, <2>1 DEF PlainTypes
<1> DEFINE K == [key : Contents \cup {NULL}, value : Values]
<1>3. \A k \in K : k.value \in Values /\ k.key \in Contents \cup {NULL}
  OBVIOUS
<1>4. Members(v) \in Seq(K)
  BY MembersBelow
<1> HIDE DEF K
<1>5. \A s \in Seq(K) : /\ Len(s) \in Nat /\ DOMAIN s = 1 .. Len(s)
                        /\ \A i \in 1 .. Len(s) : s[i] \in K
  OBVIOUS
<1>6. \A i \in 1 .. Len(Members(v)) : Child(v, i) \in Values /\ KeyOf(v, i) \in Contents \cup {NULL}
  BY <1>3, <1>4, <1>5 DEF Child, KeyOf
<1> QED BY <1>1, <1>2, <1>4, <1>5, <1>6 DEF PlainTypes, K

\* Indices lead back to the strings.
LEMMA Indices ==
  ASSUME NEW st \in Seq(Contents), NEW s
  PROVE  /\ IndexIn(st, s) \in Int
         /\ s \in Range(st) => /\ IndexIn(st, s) + 1 \in 1 .. Len(st) /\ st[IndexIn(st, s) + 1] = s
                               /\ IndexIn(st, s) # NoIndex /\ IndexIn(st, s) >= 0
                               /\ ~ (IndexIn(st, s) >= Len(st))
         /\ s \notin Range(st) => IndexIn(st, s) = NoIndex
<1>1. CASE s \in Range(st)
  <2> DEFINE c == CHOOSE i \in DOMAIN st : st[i] = s
  <2>1. c \in DOMAIN st /\ st[c] = s
    BY <1>1 DEF Range
  <2>2. IndexIn(st, s) = c - 1
    BY <1>1 DEF IndexIn
  <2>3. DOMAIN st = 1 .. Len(st) /\ Len(st) \in Nat
    OBVIOUS
  <2> HIDE DEF c
  <2>4. c \in Int /\ c >= 1 /\ c <= Len(st) /\ (c - 1) + 1 = c
    BY <2>1, <2>3
  <2> QED BY <1>1, <2>1, <2>2, <2>3, <2>4 DEF NoIndex
<1>2. CASE s \notin Range(st)
  BY <1>2 DEF IndexIn, NoIndex
<1> QED BY <1>1, <1>2

\* Headers and leads consist of items.
LEMMA HeadersTyped ==
  ASSUME NEW st \in Seq(Contents), NEW v \in Values
  PROVE  /\ HeaderOf(v, st) \in Seq(Items)
         /\ \A i \in 1 .. Len(Members(v)) : LeadOf(v, i, st) \in Seq(Items)
<1>1. Len(Members(v)) \in Items /\ v.lit \in Items /\ v.version \in Items
      /\ (\A s : IndexIn(st, s) \in Items) /\ \A t \in Range(Types) : Tag(t) \in Items
  BY Indices, Tags, ValuesTyped DEF Items
<1>2. \A x, y, z \in Items : <<x>> \in Seq(Items) /\ <<x, y>> \in Seq(Items) /\ <<x, y, z>> \in Seq(Items)
  OBVIOUS
<1>3. HeaderOf(v, st) \in Seq(Items)
  <2>1. <<>> \in Seq(Items)
    OBVIOUS
  <2> QED BY <1>1, <1>2, <2>1 DEF HeaderOf
<1>4. ASSUME NEW i \in 1 .. Len(Members(v))  PROVE LeadOf(v, i, st) \in Seq(Items)
  <2>1. Child(v, i).type \in Range(Types)
    BY ValuesTyped
  <2>2. LeadOf(v, i, st) = (IF v.type = "array" THEN <<>> ELSE <<IndexIn(st, KeyOf(v, i))>>) \o <<Tag(Child(v, i).type)>>
    BY DEF LeadOf, Child
  <2>3. <<Tag(Child(v, i).type)>> \in Seq(Items)
    BY <1>1, <1>2, <2>1
  <2>4. (IF v.type = "array" THEN <<>> ELSE <<IndexIn(st, KeyOf(v, i))>>) \in Seq(Items)
    BY <1>1, <1>2
  <2> QED BY <2>2, <2>3, <2>4, Concatenated
<1> QED BY <1>3, <1>4

\* What is written of the members of a value.
Parts(v, st) == [i \in DOMAIN Members(v) |-> LeadOf(v, i, st) \o Written(Child(v, i), st)]

\* What is written of a value is its header and its members one by one.
LEMMA WrittenLaid ==
  ASSUME NEW st, NEW v \in Values
  PROVE  Written(v, st) = HeaderOf(v, st) \o FlattenSeq(Parts(v, st))
<1> DEFINE below == [i \in DOMAIN Members(v) |-> Written(Child(v, i), st)]
<1>1. Written(v, st) = Laid(v, st, below)
  BY Unfolded
<1>2. [i \in DOMAIN below |-> LeadOf(v, i, st) \o below[i]] = Parts(v, st)
  BY DEF Parts
<1> HIDE DEF below
<1> QED BY <1>1, <1>2 DEF Laid

\* Values are written as sequences of items.
LEMMA WrittenTyped ==
  ASSUME NEW st \in Seq(Contents)
  PROVE  \A v \in Values : Written(v, st) \in Seq(Items) /\ Parts(v, st) \in Seq(Seq(Items))
<1> DEFINE S == {d \in Nat : \A v \in Values : Depth[v] < d => Written(v, st) \in Seq(Items)}
<1>0. ASSUME NEW v \in Values, \A i \in 1 .. Len(Members(v)) : Written(Child(v, i), st) \in Seq(Items)
      PROVE  Written(v, st) \in Seq(Items) /\ Parts(v, st) \in Seq(Seq(Items))
  <2>1. Len(Members(v)) \in Nat /\ DOMAIN Members(v) = 1 .. Len(Members(v))
    BY ValuesTyped
  <2>2. \A i \in 1 .. Len(Members(v)) : LeadOf(v, i, st) \o Written(Child(v, i), st) \in Seq(Items)
    BY <1>0, HeadersTyped, Concatenated
  <2>3. Parts(v, st) \in Seq(Seq(Items))
    BY <2>1, <2>2 DEF Parts
  <2>4. FlattenSeq(Parts(v, st)) \in Seq(Items)
    BY <2>3, Flattened
  <2> QED BY <2>3, <2>4, HeadersTyped, WrittenLaid, Concatenated
<1>1. Nat \subseteq S
  <2>1. 0 \in S
    BY MembersBelow
  <2>2. ASSUME NEW d \in Nat, d \in S  PROVE d + 1 \in S
    <3>1. ASSUME NEW v \in Values, Depth[v] < d + 1  PROVE Written(v, st) \in Seq(Items)
      <4>1. \A i \in 1 .. Len(Members(v)) : Child(v, i) \in Values /\ Depth[Child(v, i)] < d
        <5>1. \A i \in 1 .. Len(Members(v)) : Child(v, i) \in Values /\ Depth[Child(v, i)] < Depth[v]
          BY MembersBelow, ValuesTyped DEF Child
        <5>2. \A u \in Values : Depth[u] \in Nat
          BY MembersBelow
        <5> QED BY <3>1, <5>1, <5>2
      <4> QED BY <1>0, <2>2, <4>1
    <3> QED BY <3>1
  <2> HIDE DEF S
  <2> QED BY <2>1, <2>2, Induction
<1>2. \A v \in Values : Written(v, st) \in Seq(Items)
  <2>1. \A v \in Values : Depth[v] + 1 \in Nat /\ Depth[v] < Depth[v] + 1
    BY MembersBelow
  <2> QED BY <1>1, <2>1
<1> QED BY <1>0, <1>2, ValuesTyped

\* Where in what is written of v its member i begins.
Spot(v, i, st) ==
  Len(HeaderOf(v, st)) + (CHOOSE at : Layout(Parts(v, st), FlattenSeq(Parts(v, st)), at))[i]

\* A header, the leads and the members follow one another.
LEMMA SpotsFollow ==
  ASSUME NEW st \in Seq(Contents), NEW v \in Values
  PROVE  /\ Written(v, st) \in Seq(Items) /\ HeaderOf(v, st) \in Seq(Items)
         /\ Spot(v, 1, st) = Len(HeaderOf(v, st))
         /\ Spot(v, Len(Members(v)) + 1, st) = Len(Written(v, st))
         /\ \A i \in 1 .. Len(Members(v)) + 1 : Spot(v, i, st) \in Nat
         /\ Stands(Written(v, st), 0, HeaderOf(v, st))
         /\ \A i \in 1 .. Len(Members(v)) :
              LET lead == LeadOf(v, i, st)
                  w    == Written(Child(v, i), st) IN
              /\ lead \in Seq(Items) /\ w \in Seq(Items)
              /\ Spot(v, i + 1, st) = Spot(v, i, st) + Len(lead) + Len(w)
              /\ Stands(Written(v, st), Spot(v, i, st), lead)
              /\ Stands(Written(v, st), Spot(v, i, st) + Len(lead), w)
<1> DEFINE n == Len(Members(v))
           h == HeaderOf(v, st)
           seqs == Parts(v, st)
           all == FlattenSeq(seqs)
           at == CHOOSE x : Layout(seqs, all, x)
           W == Written(v, st)
<1>1. /\ W \in Seq(Items) /\ h \in Seq(Items) /\ seqs \in Seq(Seq(Items))
      /\ n \in Nat /\ Len(seqs) = n /\ all \in Seq(Items) /\ W = h \o all
      /\ \A i \in 1 .. n : seqs[i] = LeadOf(v, i, st) \o Written(Child(v, i), st)
  <2>1. seqs \in Seq(Seq(Items)) /\ W \in Seq(Items)
    BY WrittenTyped
  <2>2. all \in Seq(Items)
    BY <2>1, Flattened
  <2>3. n \in Nat /\ DOMAIN Members(v) = 1 .. n
    BY ValuesTyped
  <2>4. Len(seqs) = n /\ \A i \in 1 .. n : seqs[i] = LeadOf(v, i, st) \o Written(Child(v, i), st)
    BY <2>3 DEF Parts
  <2> QED BY <2>1, <2>2, <2>3, <2>4, HeadersTyped, WrittenLaid
<1>2. Layout(seqs, all, at)
  BY <1>1, Flattened
<1>3. \A i : Spot(v, i, st) = Len(h) + at[i]
  BY DEF Spot
<1>4. Stands(W, 0, h) /\ Stands(W, Len(h), all) /\ Len(W) = Len(h) + Len(all) /\ Len(h) \in Nat
  BY <1>1, StandParts, Concatenated
<1>5. at \in [1 .. n + 1 -> Nat] /\ at[1] = 0 /\ at[n + 1] = Len(all)
  BY <1>1, <1>2 DEF Layout
<1> HIDE DEF at, all, W
<1>6. ASSUME NEW i \in 1 .. n
      PROVE  LET lead == LeadOf(v, i, st)
                 w    == Written(Child(v, i), st) IN
             /\ lead \in Seq(Items) /\ w \in Seq(Items)
             /\ Spot(v, i + 1, st) = Spot(v, i, st) + Len(lead) + Len(w)
             /\ Stands(W, Spot(v, i, st), lead)
             /\ Stands(W, Spot(v, i, st) + Len(lead), w)
  <2> DEFINE lead == LeadOf(v, i, st)
             w    == Written(Child(v, i), st)
  <2>1. lead \in Seq(Items) /\ w \in Seq(Items)
    BY HeadersTyped, ValuesTyped, WrittenTyped
  <2>2. seqs[i] = lead \o w
    BY <1>1
  <2> HIDE DEF lead, w
  <2>3. /\ seqs[i] \in Seq(Items) /\ Stands(seqs[i], 0, lead) /\ Stands(seqs[i], Len(lead), w)
        /\ Len(seqs[i]) = Len(lead) + Len(w) /\ Len(lead) \in Nat /\ Len(w) \in Nat
    BY <2>1, <2>2, StandParts, Concatenated
  <2>4. /\ at[i] \in Nat /\ at[i + 1] \in Nat /\ at[i + 1] = at[i] + Len(seqs[i])
        /\ \A j \in 1 .. Len(seqs[i]) : all[at[i] + j] = seqs[i][j]
    <3>1. i \in 1 .. n + 1 /\ i + 1 \in 1 .. n + 1 /\ i \in 1 .. Len(seqs)
      BY <1>1
    <3>2. at[i + 1] = at[i] + Len(seqs[i]) /\ \A j \in 1 .. Len(seqs[i]) : all[at[i] + j] = seqs[i][j]
      BY <1>2, <3>1 DEF Layout
    <3> QED BY <1>5, <3>1, <3>2
  <2>5. Stands(all, at[i], seqs[i])
    <3>1. at[i] + Len(seqs[i]) <= Len(all)
      BY LayoutFits, <1>1, <1>2, <2>4
    <3> QED BY <2>4, <3>1 DEF Stands
  <2>6. Stands(W, Len(h) + at[i], seqs[i])
    BY <1>1, <1>4, <2>3, <2>5, StandsWithin
  <2>7. Stands(W, Spot(v, i, st) + 0, lead) /\ Stands(W, Spot(v, i, st) + Len(lead), w)
    BY <1>1, <1>3, <2>1, <2>3, <2>6, StandsWithin
  <2>8. Spot(v, i, st) + 0 = Spot(v, i, st)
    BY <1>3, <1>4, <2>4
  <2>9. Spot(v, i + 1, st) = Spot(v, i, st) + Len(lead) + Len(w)
    BY SMTT(60), <1>3, <1>4, <2>3, <2>4
  <2> QED BY <2>1, <2>7, <2>8, <2>9 DEF lead, w
<1>7. Spot(v, 1, st) = Len(h) /\ Spot(v, n + 1, st) = Len(W)
  <2>1. Spot(v, 1, st) = Len(h) + 0
    BY <1>3, <1>5
  <2>2. Spot(v, n + 1, st) = Len(h) + Len(all)
    BY <1>3, <1>5
  <2> HIDE DEF n, h
  <2> QED BY <1>4, <2>1, <2>2
<1>8. \A i \in 1 .. n + 1 : Spot(v, i, st) \in Nat
  BY <1>3, <1>4, <1>5
<1> QED BY <1>1, <1>4, <1>6, <1>7, <1>8 DEF W

-----------------------------------------------------------------------------
(* What the first pass collects. *)
Texts == Contents \cup {NULL}

\* The strings of a value include its own and those of its members.
LEMMA StringsCollected ==
  ASSUME NEW v \in Values, \A i \in 1 .. Len(Members(v)) : StringsOf(Child(v, i)) \in Seq(Texts)
  PROVE  /\ StringsOf(v) \in Seq(Texts)
         /\ v.type \in StringTypes => v.lit \in Range(StringsOf(v))
         /\ v.type \in ObjectTypes /\ v.members # NULL => v.name \in Range(StringsOf(v))
         /\ \A i \in 1 .. Len(Members(v)) :
              /\ v.type # "array" => KeyOf(v, i) \in Range(StringsOf(v))
              /\ Range(StringsOf(Child(v, i))) \subseteq Range(StringsOf(v))
<1> DEFINE n == Len(Members(v))
           below == [i \in DOMAIN Members(v) |-> StringsOf(Child(v, i))]
           keyed == [i \in DOMAIN below |-> <<KeyOf(v, i)>> \o below[i]]
<1>1. n \in Nat /\ DOMAIN Members(v) = 1 .. n /\ \A i \in 1 .. n : KeyOf(v, i) \in Texts
  BY ValuesTyped DEF Texts
<1>2. StringsOf(v) = Collected(v, below)
  BY Unfolded
<1>3. /\ below \in Seq(Seq(Texts)) /\ DOMAIN below = 1 .. n /\ Len(below) = n
      /\ \A i \in 1 .. n : below[i] = StringsOf(Child(v, i))
  BY <1>1
<1> HIDE DEF below
<1>4. \A x \in Texts : <<x>> \in Seq(Texts) /\ x \in Range(<<x>>)
  BY DEF Range
<1>5. \A s, t \in Seq(Texts) : /\ s \o t \in Seq(Texts)
                               /\ Range(s) \subseteq Range(s \o t) /\ Range(t) \subseteq Range(s \o t)
  <2> SUFFICES ASSUME NEW s \in Seq(Texts), NEW t \in Seq(Texts)
               PROVE  /\ s \o t \in Seq(Texts)
                      /\ Range(s) \subseteq Range(s \o t) /\ Range(t) \subseteq Range(s \o t)
    OBVIOUS
  <2>1. /\ s \o t \in Seq(Texts) /\ Len(s \o t) = Len(s) + Len(t) /\ Len(s) \in Nat /\ Len(t) \in Nat
        /\ \A j \in 1 .. Len(s) : (s \o t)[j] = s[j]
        /\ \A j \in 1 .. Len(t) : (s \o t)[Len(s) + j] = t[j]
    BY Concatenated
  <2> DEFINE u == s \o t
  <2> HIDE DEF u
  <2>2. DOMAIN s = 1 .. Len(s) /\ DOMAIN t = 1 .. Len(t) /\ DOMAIN u = 1 .. Len(s) + Len(t)
    <3>1. u \in Seq(Texts) /\ Len(u) = Len(s) + Len(t)
      BY <2>1 DEF u
    <3>2. DOMAIN u = 1 .. Len(u)
      BY <3>1
    <3> QED BY <3>1, <3>2
  <2>3. /\ \A j \in 1 .. Len(s) : j \in DOMAIN u /\ u[j] = s[j]
        /\ \A j \in 1 .. Len(t) : Len(s) + j \in DOMAIN u /\ u[Len(s) + j] = t[j]
    BY <2>1, <2>2 DEF u
  <2> QED BY ZenonT(60), <2>1, <2>2, <2>3 DEF Range, u
<1>6. keyed \in Seq(Seq(Texts)) /\ Len(keyed) = n
      /\ \A i \in 1 .. n : keyed[i] = <<KeyOf(v, i)>> \o below[i]
  <2>1. \A i \in 1 .. n : <<KeyOf(v, i)>> \o below[i] \in Seq(Texts)
    BY <1>1, <1>3, <1>4, <1>5
  <2> QED BY <1>1, <1>3, <2>1
<1> HIDE DEF keyed
<1>7. CASE v.type \in StringTypes
  <2>1. v.type \notin Containers
    BY <1>7 DEF StringTypes, Containers, ObjectTypes
  <2>2. v.lit \in Texts
    BY <2>1, ValuesTyped, <1>7 DEF PlainOK, Texts
  <2>3. n = 0
    BY <2>1 DEF Members
  <2>4. StringsOf(v) = <<v.lit>>
    BY <1>2, <1>7 DEF Collected
  <2>5. v.type \notin ObjectTypes
    BY <2>1 DEF Containers
  <2> QED BY <1>4, <2>2, <2>3, <2>4, <2>5
<1>8. CASE v.type \notin StringTypes /\ v.type \in ObjectTypes /\ v.members # NULL
  <2>1. StringsOf(v) = <<v.name>> \o FlattenSeq(keyed)
    BY <1>2, <1>8 DEF Collected, keyed
  <2>2. v.name \in Texts
    BY <1>8, ValuesTyped DEF ContainerOK, Containers, Texts, PlainTypes
  <2>3. FlattenSeq(keyed) \in Seq(Texts)
    BY <1>6, Flattened
  <2>4. StringsOf(v) \in Seq(Texts) /\ v.name \in Range(StringsOf(v))
        /\ Range(FlattenSeq(keyed)) \subseteq Range(StringsOf(v))
    BY <1>4, <1>5, <2>1, <2>2, <2>3
  <2>5. ASSUME NEW i \in 1 .. n
        PROVE  /\ KeyOf(v, i) \in Range(StringsOf(v))
               /\ Range(StringsOf(Child(v, i))) \subseteq Range(StringsOf(v))
    <3>1. Range(keyed[i]) \subseteq Range(FlattenSeq(keyed))
      BY <1>6, FlattenedHas
    <3>2. KeyOf(v, i) \in Range(keyed[i]) /\ Range(below[i]) \subseteq Range(keyed[i])
      BY <1>1, <1>3, <1>4, <1>5, <1>6
    <3> QED BY <1>3, <2>4, <3>1, <3>2
  <2> QED BY <1>8, <2>4, <2>5
<1>9. CASE v.type \notin StringTypes /\ ~ (v.type \in ObjectTypes /\ v.members # NULL)
  <2>1. StringsOf(v) = FlattenSeq(below)
    BY <1>2, <1>9 DEF Collected
  <2>2. StringsOf(v) \in Seq(Texts)
    BY <1>3, <2>1, Flattened
  <2>3. \A i \in 1 .. n : Range(below[i]) \subseteq Range(StringsOf(v))
    BY <1>3, <2>1, FlattenedHas
  <2>4. n = 0 \/ v.type = "array"
    BY <1>9 DEF Members, Containers
  <2> QED BY <1>1, <1>3, <1>9, <2>2, <2>3, <2>4
<1> QED BY <1>7, <1>8, <1>9

\* The first pass collects strings and null pointers.
LEMMA StringsTyped == \A v \in Values : StringsOf(v) \in Seq(Texts)
<1> DEFINE S == {d \in Nat : \A v \in Values : Depth[v] < d => StringsOf(v) \in Seq(Texts)}
<1>1. Nat \subseteq S
  <2>1. 0 \in S
    BY MembersBelow
  <2>2. ASSUME NEW d \in Nat, d \in S  PROVE d + 1 \in S
    <3>1. ASSUME NEW v \in Values, Depth[v] < d + 1  PROVE StringsOf(v) \in Seq(Texts)
      <4>1. \A i \in 1 .. Len(Members(v)) : Child(v, i) \in Values /\ Depth[Child(v, i)] < d
        <5>1. \A i \in 1 .. Len(Members(v)) : Child(v, i) \in Values /\ Depth[Child(v, i)] < Depth[v]
          BY MembersBelow, ValuesTyped DEF Child
        <5>2. \A u \in Values : Depth[u] \in Nat
          BY MembersBelow
        <5> QED BY <3>1, <5>1, <5>2
      <4> QED BY <2>2, <4>1, StringsCollected
    <3> QED BY <3>1
  <2> HIDE DEF S
  <2> QED BY <2>1, <2>2, Induction
<1>2. \A v \in Values : Depth[v] + 1 \in Nat /\ Depth[v] < Depth[v] + 1
  BY MembersBelow
<1> QED BY <1>1, <1>2

-----------------------------------------------------------------------------
(* The stream of a document: magic, string table, root object. *)
TableParts(st) == [i \in DOMAIN st |-> IF st[i] = EMPTY THEN <<0>> ELSE <<1, st[i]>>]
StringSpot(st, i) ==
  4 + (CHOOSE at : Layout(TableParts(st), FlattenSeq(TableParts(st)), at))[i]
RootSpot(st) == StringSpot(st, Len(st) + 1)

\* In a stream the head, the count, each string and the root object have their
\* places, and the root object is the last.
LEMMA StreamLaid ==
  ASSUME NEW st \in Seq(Contents), NEW root \in Values
  PROVE  /\ Stream(root, st) \in Seq(Items) /\ Len(st) \in Nat
         /\ Stands(Stream(root, st), 0, <<Magic, 1, 0>>)
         /\ Stands(Stream(root, st), 3, <<Len(st)>>)
         /\ StringSpot(st, 1) = 4
         /\ \A i \in 1 .. Len(st) + 1 : StringSpot(st, i) \in Nat
         /\ \A i \in 1 .. Len(st) :
              /\ StringSpot(st, i + 1) = StringSpot(st, i) + Len(TableParts(st)[i])
              /\ Stands(Stream(root, st), StringSpot(st, i), TableParts(st)[i])
         /\ Stands(Stream(root, st), RootSpot(st), Written(root, st))
         /\ Len(Stream(root, st)) = RootSpot(st) + Len(Written(root, st))
<1> DEFINE n == Len(st)
           parts == TableParts(st)
           all == FlattenSeq(parts)
           at == CHOOSE x : Layout(parts, all, x)
           W == Written(root, st)
           head == <<Magic, 1, 0>>
           S == Stream(root, st)
<1>1. n \in Nat /\ DOMAIN st = 1 .. n /\ \A i \in 1 .. n : st[i] \in Contents
  OBVIOUS
<1>2. \A x, y, z \in Items : <<x>> \in Seq(Items) /\ <<x, y>> \in Seq(Items) /\ <<x, y, z>> \in Seq(Items)
  OBVIOUS
<1>3. {n, Magic, 0, 1} \cup Contents \subseteq Items
  BY <1>1 DEF Items, Magic
<1>4. parts \in Seq(Seq(Items)) /\ Len(parts) = n
  <2>1. \A i \in 1 .. n : (IF st[i] = EMPTY THEN <<0>> ELSE <<1, st[i]>>) \in Seq(Items)
    BY <1>1, <1>2, <1>3
  <2> QED BY <1>1, <2>1 DEF TableParts
<1>5. all \in Seq(Items) /\ Layout(parts, all, at)
  BY <1>4, Flattened
<1> DEFINE one == <<n>>
<1>6. W \in Seq(Items) /\ head \in Seq(Items) /\ one \in Seq(Items) /\ Len(one) = 1 /\ Len(head) = 3
  BY <1>2, <1>3, WrittenTyped
<1>7. S = (head \o (one \o all)) \o W
  BY DEF Stream, WrittenTable, TableParts
<1>8. \A i : StringSpot(st, i) = 4 + at[i]
  BY DEF StringSpot
<1> HIDE DEF all, at, W, head, parts, one
<1> DEFINE t == one \o all
           ht == head \o t
<1>9. /\ t \in Seq(Items) /\ Stands(t, 0, one) /\ Stands(t, 1, all) /\ Len(t) = 1 + Len(all)
  <2>1. /\ t \in Seq(Items) /\ Stands(t, 0, one) /\ Stands(t, Len(one), all)
        /\ Len(t) = Len(one) + Len(all)
    BY <1>5, <1>6, StandParts, Concatenated
  <2> HIDE DEF t
  <2> QED BY <1>6, <2>1
<1> HIDE DEF t
<1>10. /\ ht \in Seq(Items) /\ Stands(ht, 0, head) /\ Stands(ht, 3, t) /\ Len(ht) = 3 + Len(t)
  <2>1. /\ ht \in Seq(Items) /\ Stands(ht, 0, head) /\ Stands(ht, Len(head), t)
        /\ Len(ht) = Len(head) + Len(t)
    BY <1>6, <1>9, StandParts, Concatenated
  <2> HIDE DEF ht
  <2> QED BY <1>6, <2>1
<1> HIDE DEF ht
<1>11. S = ht \o W
  BY <1>7 DEF ht, t
<1> HIDE DEF S
<1>12. /\ S \in Seq(Items) /\ Stands(S, 0, ht) /\ Stands(S, Len(ht), W) /\ Len(S) = Len(ht) + Len(W)
  BY <1>6, <1>10, <1>11, StandParts, Concatenated
<1>13. Stands(S, 0 + 0, head) /\ Stands(S, 0 + 3, t)
  BY <1>6, <1>9, <1>10, <1>12, StandsWithin
<1>14. Stands(S, 3 + 0, one) /\ Stands(S, 3 + 1, all)
  <2>1. Stands(S, 3, t)
    BY <1>13
  <2> QED BY <1>5, <1>6, <1>9, <1>12, <2>1, StandsWithin
<1>15. Len(ht) = 4 + Len(all) /\ Len(all) \in Nat
  BY <1>5, <1>9, <1>10
<1>16. at \in [1 .. n + 1 -> Nat] /\ at[1] = 0 /\ at[n + 1] = Len(all)
  BY <1>4, <1>5 DEF Layout
<1>17. StringSpot(st, 1) = 4 /\ RootSpot(st) = Len(ht)
  <2>1. StringSpot(st, 1) = 4 + 0 /\ RootSpot(st) = 4 + Len(all)
    BY <1>8, <1>16 DEF RootSpot
  <2> QED BY <1>15, <2>1
<1>18. \A i \in 1 .. n + 1 : StringSpot(st, i) \in Nat
  BY <1>8, <1>16
<1>19. ASSUME NEW i \in 1 .. n
       PROVE  /\ StringSpot(st, i + 1) = StringSpot(st, i) + Len(parts[i])
              /\ Stands(S, StringSpot(st, i), parts[i])
  <2>1. i \in 1 .. n + 1 /\ i + 1 \in 1 .. n + 1 /\ i \in 1 .. Len(parts)
    BY <1>1, <1>4
  <2>2. at[i + 1] = at[i] + Len(parts[i]) /\ \A j \in 1 .. Len(parts[i]) : all[at[i] + j] = parts[i][j]
    BY <1>5, <2>1 DEF Layout
  <2>3. at[i] \in Nat /\ parts[i] \in Seq(Items) /\ Len(parts[i]) \in Nat
    <3>1. \A s \in Seq(Seq(Items)) : \A j \in 1 .. Len(s) : s[j] \in Seq(Items) /\ Len(s[j]) \in Nat
      OBVIOUS
    <3> QED BY <1>4, <1>16, <2>1, <3>1
  <2>4. at[i] + Len(parts[i]) <= Len(all)
    BY <1>4, <1>5, <2>1, LayoutFits
  <2>5. Stands(all, at[i], parts[i])
    BY <2>2, <2>3, <2>4 DEF Stands
  <2>6. Stands(S, 4 + at[i], parts[i])
    BY <1>5, <1>12, <1>14, <2>3, <2>5, StandsWithin
  <2>7. StringSpot(st, i + 1) = StringSpot(st, i) + Len(parts[i])
    BY <1>8, <2>2, <2>3
  <2> QED BY <1>8, <2>6, <2>7
<1>20. Stands(S, 0, head) /\ Stands(S, 3, one)
  BY <1>13, <1>14
<1>21. Len(S) = RootSpot(st) + Len(W) /\ Stands(S, RootSpot(st), W)
  BY <1>12, <1>17
<1> QED BY <1>1, <1>12, <1>17, <1>18, <1>19, <1>20, <1>21 DEF S, W, head, parts, one

-----------------------------------------------------------------------------
(* The writer. *)

\* The second pass asks only for strings that the first has collected, unless
\* the table could not grow.
Indexed(v) == lean \/ Range(StringsOf(v)) \subseteq Range(strings) \cup {NULL}

\* The invariant of the writer: what was accepted and what remains make up the
\* stream of the document, or the former is a shorter beginning of it.
WriterInv ==
  /\ doc \in Documents /\ lean \in BOOLEAN /\ strings \in Seq(Contents) /\ werror \in {"ok", "io"}
  /\ status \in {"collecting", "writing", "magic", "count", "strings", "tree", "doc", "null"}
  /\ status = "collecting" =>
       /\ out = <<>> /\ werror = "ok" /\ todo \in Seq(Texts)
       /\ lean \/ Range(StringsOf(doc)) \subseteq Range(strings) \cup Range(todo) \cup {NULL}
  /\ status # "collecting" =>
       /\ out \in Seq(Items) /\ todo \in Seq(Items) /\ Indexed(doc)
       /\ werror = "ok" => out \o todo = Stream(doc, strings)
       /\ werror = "io" => /\ Len(out) + Len(todo) < Len(Stream(doc, strings))
                           /\ Begins(out, Stream(doc, strings))
  /\ status \notin {"collecting", "writing"} => todo = <<>>

\* A document is a value.
LEMMA DocumentsTyped ==
  ASSUME doc \in Documents
  PROVE  doc \in Values /\ doc.type = "object"
BY ValuesAssumption

\* Each string is added to the table unless it is there, NULL, or finds no room.
LEMMA CollectKeeps ==
  ASSUME WriterInv, Collect
  PROVE  WriterInv'
<1>1. /\ doc \in Documents /\ lean \in BOOLEAN /\ strings \in Seq(Contents) /\ werror = "ok"
      /\ status = "collecting" /\ out = <<>> /\ todo \in Seq(Texts) /\ todo # <<>>
      /\ lean \/ Range(StringsOf(doc)) \subseteq Range(strings) \cup Range(todo) \cup {NULL}
  BY DEF WriterInv, Collect
<1>2. /\ strings' \in TablesAfter(strings, Head(todo), lean) /\ todo' = Tail(todo)
      /\ doc' = doc /\ lean' = lean /\ werror' = werror /\ out' = out /\ status' = status
  BY DEF Collect
<1>3. PICK x : x = Head(todo)
  OBVIOUS
<1>4. x \in Texts /\ Tail(todo) \in Seq(Texts) /\ Range(todo) = {x} \cup Range(Tail(todo))
  BY <1>1, <1>3, HeadAndTail
<1>5. /\ strings' \in Seq(Contents) /\ Range(strings) \subseteq Range(strings')
      /\ lean \/ x \in Range(strings') \cup {NULL}
  <2>1. CASE x = NULL \/ x \in Range(strings)
    <3>1. strings' = strings
      BY <1>2, <1>3, <2>1 DEF TablesAfter
    <3> QED BY <1>1, <2>1, <3>1
  <2>2. CASE ~ (x = NULL \/ x \in Range(strings))
    <3>1. x \in Contents
      BY <1>4, <2>2 DEF Texts
    <3>2. strings' = Append(strings, x) \/ (strings' = strings /\ lean)
      BY <1>1, <1>2, <1>3, <2>2 DEF TablesAfter
    <3>3. Append(strings, x) \in Seq(Contents) /\ Range(Append(strings, x)) = Range(strings) \cup {x}
      BY <1>1, <3>1, Appended
    <3> QED BY <1>1, <3>2, <3>3
  <2> QED BY <2>1, <2>2
<1>6. lean' \/ Range(StringsOf(doc'))
                 \subseteq Range(strings') \cup Range(todo') \cup {NULL}
  BY <1>1, <1>2, <1>4, <1>5
<1> QED BY <1>1, <1>2, <1>4, <1>5, <1>6 DEF WriterInv

\* The second pass begins when nothing is left to collect.
LEMMA StartWritingKeeps ==
  ASSUME WriterInv, StartWriting
  PROVE  WriterInv'
<1>1. /\ doc \in Documents /\ lean \in BOOLEAN /\ strings \in Seq(Contents) /\ werror = "ok"
      /\ status = "collecting" /\ out = <<>> /\ todo = <<>>
      /\ lean \/ Range(StringsOf(doc)) \subseteq Range(strings) \cup Range(todo) \cup {NULL}
  BY DEF WriterInv, StartWriting
<1>2. /\ strings' = strings /\ todo' = Stream(doc, strings) /\ status' = "writing"
      /\ doc' = doc /\ lean' = lean /\ werror' = werror /\ out' = out
  BY DEF StartWriting
<1>3. Range(<<>>) = {}
  BY DEF Range
<1>4. PICK S : S = Stream(doc, strings)
  OBVIOUS
<1>5. S \in Seq(Items)
  BY <1>1, <1>4, StreamLaid, DocumentsTyped
<1>6. <<>> \o S = S /\ <<>> \in Seq(Items)
  BY <1>5
<1>7. Stream(doc', strings') = S
  BY <1>2, <1>4
<1>8. Indexed(doc)'
  BY <1>1, <1>2, <1>3 DEF Indexed
<1>9. (out \o todo)' = S
  BY <1>1, <1>2, <1>4, <1>6
<1> QED BY <1>1, <1>2, <1>4, <1>5, <1>6, <1>7, <1>8, <1>9 DEF WriterInv

\* A write is accepted, or its failure sticks.
LEMMA WriteItemKeeps ==
  ASSUME WriterInv, WriteItem
  PROVE  WriterInv'
<1>1. /\ doc \in Documents /\ lean \in BOOLEAN /\ strings \in Seq(Contents) /\ werror \in {"ok", "io"}
      /\ status = "writing" /\ out \in Seq(Items) /\ todo \in Seq(Items) /\ todo # <<>> /\ Indexed(doc)
      /\ werror = "ok" => out \o todo = Stream(doc, strings)
      /\ werror = "io" => /\ Len(out) + Len(todo) < Len(Stream(doc, strings))
                          /\ Begins(out, Stream(doc, strings))
  BY DEF WriterInv, WriteItem
<1>2. /\ \E written \in BwWrite(out, werror, Head(todo)) : out' = written[1] /\ werror' = written[2]
      /\ todo' = Tail(todo) /\ doc' = doc /\ lean' = lean /\ strings' = strings /\ status' = status
  BY DEF WriteItem
<1>3. PICK S : S = Stream(doc, strings)
  OBVIOUS
<1>4. PICK x, rest : x = Head(todo) /\ rest = Tail(todo)
  OBVIOUS
<1>5. S \in Seq(Items) /\ Len(S) \in Nat
  <2>1. S \in Seq(Items)
    BY <1>1, <1>3, StreamLaid, DocumentsTyped
  <2> QED BY <2>1
<1>6. x \in Items /\ rest \in Seq(Items) /\ Len(todo) = Len(rest) + 1 /\ Len(rest) \in Nat
  BY <1>1, <1>4, HeadAndTail
<1>7. /\ Append(out, x) \in Seq(Items) /\ Len(out) \in Nat
      /\ Append(out, x) \o rest = out \o todo
  BY <1>1, <1>4
<1>8. \/ werror = "ok" /\ out' = Append(out, x) /\ werror' = "ok"
      \/ werror = "ok" /\ out' = out /\ werror' = "io"
      \/ werror = "io" /\ out' = out /\ werror' = "io"
  BY <1>1, <1>2, <1>4 DEF BwWrite
<1>9. werror = "ok" => Begins(out, S) /\ Len(S) = Len(out) + Len(todo)
  BY <1>1, <1>3, BeginsConcat
<1>10. out' \in Seq(Items) /\ werror' \in {"ok", "io"}
  BY <1>1, <1>7, <1>8
<1>11. Stream(doc', strings') = S /\ Indexed(doc)' /\ todo' = rest
  BY <1>1, <1>2, <1>3, <1>4 DEF Indexed
<1>12. werror' = "ok" => out' \o todo' = S
  BY <1>1, <1>3, <1>7, <1>8, <1>11
<1>13. ASSUME werror' = "io"  PROVE Len(out') + Len(todo') < Len(S) /\ Begins(out', S)
  <2>1. out' = out /\ Begins(out, S) /\ Len(out) + Len(todo) <= Len(S)
    BY <1>1, <1>3, <1>5, <1>6, <1>7, <1>8, <1>9, <1>13
  <2>2. Len(out) + Len(rest) < Len(out) + Len(todo)
    BY <1>6, <1>7
  <2> QED BY <1>5, <1>6, <1>7, <1>11, <2>1, <2>2
<1> QED BY <1>1, <1>2, <1>6, <1>10, <1>11, <1>12, <1>13 DEF WriterInv

\* The reader leaves the writer's side alone.
LEMMA ReadKeepsWriter ==
  ASSUME WriterInv, Read \/ Reopen \/ UNCHANGED vars
  PROVE  WriterInv'
<1>1. UNCHANGED <<doc, lean, strings, todo, werror, out>>
  BY DEF Read, Reopen, vars, writerVars, ReadMagic, ReadCount, ReadString, ReadRoot, ReadHeader,
         ReadPlain, OpenArray, OpenObject, CloseContainer, ReturnDocument, ReturnNull
<1>2. \/ status' = status
      \/ /\ status' \in {"magic", "count", "strings", "tree", "doc", "null"} /\ status # "collecting"
         /\ status = "writing" => todo = <<>>
  BY DEF Read, Reopen, vars, ReadMagic, ReadCount, ReadString, ReadRoot, ReadHeader, InMember,
         ReadPlain, OpenArray, OpenObject, CloseContainer, ReturnDocument, ReturnNull, ReadsNext
<1>3. Indexed(doc)' <=> Indexed(doc)
  BY <1>1 DEF Indexed
<1> QED BY <1>1, <1>2, <1>3 DEF WriterInv

\* All strings are still to be collected.
LEMMA WriterStarts ==
  ASSUME Init
  PROVE  WriterInv
<1>1. /\ doc \in Documents /\ lean \in BOOLEAN /\ strings = <<>> /\ todo = StringsOf(doc)
      /\ werror = "ok" /\ out = <<>> /\ status = "collecting"
  BY BinaryAssumption DEF Init
<1>2. StringsOf(doc) \in Seq(Texts)
  BY <1>1, StringsTyped, DocumentsTyped
<1>3. <<>> \in Seq(Contents)
  OBVIOUS
<1> QED BY <1>1, <1>2, <1>3 DEF WriterInv

\* So the invariant of the writer holds, and the reader leaves it alone.
LEMMA WriterSound == Spec => []WriterInv
<1>1. Init => WriterInv
  BY WriterStarts
<1>2. WriterInv /\ [Next]_vars => WriterInv'
  BY CollectKeeps, StartWritingKeeps, WriteItemKeeps, ReadKeepsWriter DEF Next, Write
<1> QED BY <1>1, <1>2, PTL DEF Spec

\* What the write function was given is an unbroken beginning of the stream of
\* the document, and KDF_OK says that it was all (kdf_binary_writer.c:11-19, 279-315).
THEOREM WriterIsHonest == Spec => []WriterHonest
<1>1. WriterInv => WriterHonest
  <2> SUFFICES ASSUME WriterInv, status # "collecting"
               PROVE  /\ IsPrefix(out, Stream(doc, strings))
                      /\ todo = <<>> /\ werror = "ok" => out = Stream(doc, strings)
    BY DEF WriterHonest
  <2>1. /\ doc \in Documents /\ strings \in Seq(Contents) /\ werror \in {"ok", "io"}
        /\ out \in Seq(Items) /\ todo \in Seq(Items)
        /\ werror = "ok" => out \o todo = Stream(doc, strings)
        /\ werror = "io" => Begins(out, Stream(doc, strings))
    BY DEF WriterInv
  <2>2. PICK S : S = Stream(doc, strings)
    OBVIOUS
  <2>3. S \in Seq(Items)
    BY <2>1, <2>2, StreamLaid, DocumentsTyped
  <2>4. Begins(out, S)
    BY <2>1, <2>2, BeginsConcat
  <2>5. IsPrefix(out, S)
    BY <2>1, <2>3, <2>4, BeginsIsPrefix
  <2>6. out \o <<>> = out
    BY <2>1
  <2> QED BY <2>1, <2>2, <2>5, <2>6
<1> QED BY <1>1, WriterSound, PTL

-----------------------------------------------------------------------------
(* What the reader makes of a value. *)
IndexedIn(v, st, low) == low \/ Range(StringsOf(v)) \subseteq Range(st) \cup {NULL}

\* An index that was written leads back to its string, or to none if the
\* string found no room.
LEMMA KeptRead ==
  ASSUME NEW st \in Seq(Contents), NEW low \in BOOLEAN, NEW s \in Texts,
         low \/ s \in Range(st) \cup {NULL}
  PROVE  LET i == IndexIn(st, s)
             got == IF i = NoIndex \/ i >= Len(st) THEN EMPTY ELSE st[i + 1] IN
         got = Kept(s, st, low) /\ (IF i >= 0 THEN got ELSE NULL) = KeptName(s, st, low)
<1>1. NULL \notin Range(st)
  <2>1. \A i \in DOMAIN st : st[i] \in Contents
    OBVIOUS
  <2> QED BY <2>1, BinaryAssumption DEF Range
<1>2. CASE s \in Range(st)
  <2>1. s # NULL
    BY <1>1, <1>2
  <2> QED BY <1>2, <2>1, Indices DEF Kept, KeptName
<1>3. CASE s \notin Range(st)
  <2>1. IndexIn(st, s) = NoIndex /\ ~ (NoIndex >= 0)
    BY <1>3, Indices DEF NoIndex
  <2>2. Kept(s, st, low) = EMPTY
    BY <1>3 DEF Kept
  <2>3. KeptName(s, st, low) = NULL
    BY <1>3 DEF KeptName
  <2> QED BY <2>1, <2>2, <2>3
<1> QED BY <1>2, <1>3

\* If the strings of a value are in the table, those of its members are.
LEMMA MembersIndexed ==
  ASSUME NEW st, NEW low, NEW v \in Values, IndexedIn(v, st, low)
  PROVE  /\ v.type \in StringTypes => v.lit \in Texts /\ (low \/ v.lit \in Range(st) \cup {NULL})
         /\ v.type \in ObjectTypes => v.name \in Texts /\ (low \/ v.name \in Range(st) \cup {NULL})
         /\ \A i \in 1 .. Len(Members(v)) :
              /\ IndexedIn(Child(v, i), st, low) /\ KeyOf(v, i) \in Texts
              /\ v.type # "array" => low \/ KeyOf(v, i) \in Range(st) \cup {NULL}
<1>1. \A i \in 1 .. Len(Members(v)) : StringsOf(Child(v, i)) \in Seq(Texts)
  BY ValuesTyped, StringsTyped
<1>2. /\ v.type \in StringTypes => v.lit \in Range(StringsOf(v))
      /\ v.type \in ObjectTypes /\ v.members # NULL => v.name \in Range(StringsOf(v))
      /\ \A i \in 1 .. Len(Members(v)) :
              /\ v.type # "array" => KeyOf(v, i) \in Range(StringsOf(v))
              /\ Range(StringsOf(Child(v, i))) \subseteq Range(StringsOf(v))
  BY <1>1, StringsCollected
<1>3. v.type \in ObjectTypes => v.name \in Texts /\ (v.members = NULL => v.name = NULL)
  BY ValuesTyped DEF ContainerOK, Containers, PlainTypes, Texts
<1>4. v.type \in StringTypes => v.lit \in Texts
  BY ValuesTyped DEF PlainOK, Texts, StringTypes, Containers, ObjectTypes
<1> QED BY <1>2, <1>3, <1>4, ValuesTyped DEF IndexedIn, Texts

\* The members of v as they are restored.
Rebuilds(v, st, low) == [i \in DOMAIN Members(v) |-> Restored(Child(v, i), st, low)]

\* The container v when its first i members were read.
Started(v, i, st, low) ==
  [type |-> v.type, name |-> KeptName(v.name, st, low), version |-> v.version,
   members |-> Filled(v, st, low, Rebuilds(v, st, low), i)]

\* Member i's key in the container that is read.
ReadKey(v, i, st, low) == IF v.type = "array" THEN NULL ELSE Kept(KeyOf(v, i), st, low)

\* A plain value is restored but for its string.
LEMMA RestoredPlain ==
  ASSUME NEW st, NEW low, NEW v \in Values, v.type \in PlainTypes
  PROVE  Restored(v, st, low)
           = [type |-> v.type, lit |-> IF v.type \in StringTypes THEN Kept(v.lit, st, low) ELSE v.lit]
<1>1. v.type \notin Containers /\ v = [type |-> v.type, lit |-> v.lit]
  BY ValuesTyped DEF PlainOK, PlainTypes
<1>2. Restored(v, st, low) = Rebuilt(v, st, low, Rebuilds(v, st, low))
  BY Unfolded DEF Rebuilds
<1>3. Restored(v, st, low)
        = [v EXCEPT !.lit = IF v.type \in StringTypes THEN Kept(v.lit, st, low) ELSE v.lit]
  BY <1>1, <1>2 DEF Rebuilt
<1>4. PICK t, l : t = v.type /\ l = v.lit
  OBVIOUS
<1> QED BY <1>1, <1>3, <1>4

\* When all its members were read, a container is what it was.
LEMMA RestoredContainer ==
  ASSUME NEW st, NEW low, NEW v \in Values, v.type \in Containers
  PROVE  Restored(v, st, low) = Started(v, Len(Members(v)), st, low)
<1>1. Restored(v, st, low) = Rebuilt(v, st, low, Rebuilds(v, st, low))
  BY Unfolded DEF Rebuilds
<1>2. Len(Rebuilds(v, st, low)) = Len(Members(v))
  BY ValuesTyped DEF Rebuilds
<1> QED BY <1>1, <1>2 DEF Rebuilt, Started

\* Before any of them was, it is new.
LEMMA StartedBlank ==
  ASSUME NEW st, NEW low, NEW v \in Values, v.type = "array"
  PROVE  Started(v, 0, st, low) = Blank("array")
<1>1. v.name = NULL /\ v.version = 0
  BY ValuesTyped DEF ContainerOK, PlainTypes, Containers
<1>2. Len(Rebuilds(v, st, low)) \in Nat
  BY ValuesTyped DEF Rebuilds
<1>3. Filled(v, st, low, Rebuilds(v, st, low), 0) = <<>>
  BY <1>2, FilledByOne
<1> QED BY <1>1, <1>3 DEF Started, Blank, KeptName

\* A member that is stored changes only the members.
LEMMA WithFields ==
  ASSUME NEW t, NEW n, NEW r, NEW m, NEW key, NEW x
  PROVE  With([type |-> t, name |-> n, version |-> r, members |-> m], key, x)
           = [type |-> t, name |-> n, version |-> r,
              members |-> IF t = "array" THEN Append(m, [key |-> NULL, value |-> x])
                          ELSE Put(m, key, x)]
<1> DEFINE Node(k) == [type |-> t, name |-> n, version |-> r, members |-> k]
           new == IF t = "array" THEN Append(m, [key |-> NULL, value |-> x]) ELSE Put(m, key, x)
<1>1. Node(m).type = t /\ Node(m).members = m
  OBVIOUS
<1>2. With(Node(m), key, x) = [Node(m) EXCEPT !.members = new]
  BY <1>1 DEF With
<1> HIDE DEF new
<1>3. [Node(m) EXCEPT !.members = new] = Node(new)
  OBVIOUS
<1> QED BY <1>2, <1>3 DEF new

\* Each member that is stored is the next one.
LEMMA StartedNext ==
  ASSUME NEW st, NEW low, NEW v \in Values, v.type \in Containers, NEW i \in 1 .. Len(Members(v))
  PROVE  With(Started(v, i - 1, st, low), ReadKey(v, i, st, low), Restored(Child(v, i), st, low))
           = Started(v, i, st, low)
<1> DEFINE below == Rebuilds(v, st, low)
           n == Len(Members(v))
<1>1. n \in Nat /\ DOMAIN below = 1 .. n /\ Len(below) = n /\ \A j \in 1 .. n : below[j] = Restored(Child(v, j), st, low)
  BY ValuesTyped DEF Rebuilds
<1> DEFINE sofar == Filled(v, st, low, below, i - 1)
           new == IF v.type = "array" THEN Append(sofar, [key |-> NULL, value |-> below[i]])
                  ELSE Put(sofar, ReadKey(v, i, st, low), below[i])
<1>4. With(Started(v, i - 1, st, low), ReadKey(v, i, st, low), below[i])
        = [type |-> v.type, name |-> KeptName(v.name, st, low), version |-> v.version, members |-> new]
  BY WithFields DEF Started
<1>5. Started(v, i, st, low)
        = [type |-> v.type, name |-> KeptName(v.name, st, low), version |-> v.version,
           members |-> Filled(v, st, low, below, i)]
  BY DEF Started
<1> HIDE DEF below
<1>2. CASE v.type = "array"
  <2>1. Filled(v, st, low, below, i - 1) = [j \in 1 .. i - 1 |-> [key |-> NULL, value |-> below[j]]]
        /\ Filled(v, st, low, below, i) = [j \in 1 .. i |-> [key |-> NULL, value |-> below[j]]]
    BY <1>2 DEF Filled
  <2>2. Append([j \in 1 .. i - 1 |-> [key |-> NULL, value |-> below[j]]], [key |-> NULL, value |-> below[i]])
          = [j \in 1 .. i |-> [key |-> NULL, value |-> below[j]]]
    <3> DEFINE m(j) == [key |-> NULL, value |-> below[j]]
    <3> HIDE DEF m
    <3>1. Append([j \in 1 .. i - 1 |-> m(j)], m(i)) = [j \in 1 .. i |-> m(j)]
      <4> DEFINE a == [j \in 1 .. i - 1 |-> m(j)]
                 X == {m(j) : j \in 1 .. i}
      <4>1. i - 1 \in Nat /\ a \in Seq(X) /\ Len(a) = i - 1 /\ m(i) \in X
        BY <1>1
      <4>2. Append(a, m(i)) \in Seq(X) /\ Len(Append(a, m(i))) = i
            /\ \A j \in 1 .. i : Append(a, m(i))[j] = m(j)
        BY <4>1
      <4>3. [j \in 1 .. i |-> m(j)] \in Seq(X) /\ Len([j \in 1 .. i |-> m(j)]) = i
        BY <1>1
      <4> HIDE DEF a, X
      <4>4. \A s, t \in Seq(X) : Len(s) = i /\ Len(t) = i /\ (\A j \in 1 .. i : s[j] = t[j]) => s = t
        BY SeqEqual
      <4>5. \A j \in 1 .. i : [k \in 1 .. i |-> m(k)][j] = m(j)
        OBVIOUS
      <4> QED BY <4>2, <4>3, <4>4, <4>5 DEF a
    <3> QED BY <3>1 DEF m
  <2>3. new = Filled(v, st, low, below, i)
    BY <1>2, <2>1, <2>2
  <2> QED BY <1>1, <1>4, <1>5, <2>3
<1>3. CASE v.type # "array"
  <2>1. FilledFrom(v, st, low, below)
    BY <1>1, <1>3, FilledByOne
  <2>2. i \in 1 .. Len(below)
    BY <1>1
  <2>3. new = Filled(v, st, low, below, i)
    BY <1>3, <2>1, <2>2 DEF ReadKey, FilledFrom
  <2> QED BY <1>1, <1>4, <1>5, <2>3
<1> QED BY <1>2, <1>3

-----------------------------------------------------------------------------
(* The containers that are being read. *)

\* A frame f of the stack, in which the container v is read.
FrameOK(f, v, st, low) ==
  /\ f = [left |-> f.left, key |-> f.key, node |-> f.node]
  /\ v \in Values /\ v.type \in Containers /\ IndexedIn(v, st, low)
  /\ \/ f.left = Unread /\ v.type # "array" /\ f.node = Blank(v.type)
     \/ /\ f.left \in 0 .. Len(Members(v))
        /\ f.node = Started(v, Len(Members(v)) - f.left, st, low)

\* Which member is next, and how much of what was written of v was read.
NextOf(f, v) == Len(Members(v)) - f.left + 1
ReadOf(f, v, st) == IF f.left = Unread THEN 0 ELSE Spot(v, NextOf(f, v), st)

\* Each open container src[k] stands at at[k] in the stream, and is the next
\* member of the one around it; the reader is at p.
Nest(stk, p, root, st, low, src, at) ==
  /\ stk \in Seq(Range(stk)) /\ stk # <<>>
  /\ src \in [1 .. Len(stk) -> Values] /\ at \in [1 .. Len(stk) -> Nat]
  /\ src[Len(stk)] = root /\ at[Len(stk)] = RootSpot(st)
  /\ p = at[1] + ReadOf(stk[1], src[1], st)
  /\ \A k \in 1 .. Len(stk) :
       FrameOK(stk[k], src[k], st, low) /\ Stands(Stream(root, st), at[k], Written(src[k], st))
  /\ \A k \in 1 .. Len(stk) - 1 :
       LET v == src[k + 1]
           i == NextOf(stk[k + 1], v) IN
       /\ stk[k + 1].left # Unread /\ stk[k + 1].left # 0
       /\ src[k] = Child(v, i) /\ stk[k].key = ReadKey(v, i, st, low)
       /\ at[k] = at[k + 1] + Spot(v, i, st) + Len(LeadOf(v, i, st))

\* The member that comes next.
NextIs(f, v, i, lead, c, st, low) ==
  /\ i \in 1 .. Len(Members(v)) /\ i \in Nat /\ c \in Values /\ IndexedIn(c, st, low)
  /\ c.type \in Range(Types)
  /\ lead \in Seq(Items) /\ Len(lead) = (IF v.type = "array" THEN 1 ELSE 2)
  /\ lead[Len(lead)] = Tag(c.type)
  /\ v.type # "array" => /\ lead[1] = IndexIn(st, KeyOf(v, i)) /\ KeyOf(v, i) \in Texts
                         /\ low \/ KeyOf(v, i) \in Range(st) \cup {NULL}
  /\ f.left = Len(Members(v)) - (i - 1) /\ f.node = Started(v, i - 1, st, low)
  /\ f.node.type = v.type
\* In a frame whose members are not all read, the next one is known.
LEMMA NextMember ==
  ASSUME NEW st \in Seq(Contents), NEW low, NEW v, NEW f, FrameOK(f, v, st, low),
         f.left # Unread, f.left # 0, NEW i, i = NextOf(f, v)
  PROVE  NextIs(f, v, i, LeadOf(v, i, st), Child(v, i), st, low)
<1> DEFINE n == Len(Members(v))
           lead == LeadOf(v, i, st)
           c == Child(v, i)
<1>1. v \in Values /\ IndexedIn(v, st, low) /\ n \in Nat /\ f.left \in 0 .. n
      /\ f.node = Started(v, n - f.left, st, low)
  BY ValuesTyped DEF FrameOK
<1>2. i \in 1 .. n /\ i \in Nat /\ i - 1 = n - f.left /\ f.left = n - (i - 1)
  BY <1>1 DEF NextOf
<1> HIDE DEF n
<1>3. c \in Values /\ c.type \in Range(Types)
  BY <1>1, <1>2, ValuesTyped DEF n
<1>4. /\ IndexedIn(c, st, low) /\ KeyOf(v, i) \in Texts
      /\ v.type # "array" => low \/ KeyOf(v, i) \in Range(st) \cup {NULL}
  BY <1>1, <1>2, MembersIndexed DEF n
<1>5. lead \in Seq(Items)
  BY <1>1, <1>2, HeadersTyped DEF n
<1> DEFINE one == IF v.type = "array" THEN <<>> ELSE <<IndexIn(st, KeyOf(v, i))>>
           two == <<Tag(c.type)>>
<1>6. /\ two \in Seq(Items) /\ Len(two) = 1 /\ two[1] = Tag(c.type)
      /\ one \in Seq(Items) /\ Len(one) = (IF v.type = "array" THEN 0 ELSE 1)
      /\ v.type # "array" => one[1] = IndexIn(st, KeyOf(v, i))
  <2>1. Tag(c.type) \in Items /\ IndexIn(st, KeyOf(v, i)) \in Items
    BY <1>3, Tags, Indices DEF Items
  <2> QED BY <2>1
<1>7. lead = one \o two
  BY DEF LeadOf, Child
<1> HIDE DEF one, two, lead, c
<1>8. /\ Len(lead) = (IF v.type = "array" THEN 1 ELSE 2) /\ lead[Len(lead)] = Tag(c.type)
      /\ v.type # "array" => lead[1] = IndexIn(st, KeyOf(v, i))
  <2>1. /\ Len(lead) = Len(one) + Len(two)
        /\ \A j \in 1 .. Len(one) : lead[j] = one[j]
        /\ \A j \in 1 .. Len(two) : lead[Len(one) + j] = two[j]
    BY <1>6, <1>7, Concatenated
  <2>2. CASE v.type = "array"
    <3>1. Len(one) = 0 /\ Len(lead) = 1 /\ lead[0 + 1] = two[1]
      BY <1>6, <2>1, <2>2
    <3> QED BY <1>6, <2>2, <3>1
  <2>3. CASE v.type # "array"
    <3>1. Len(one) = 1 /\ Len(lead) = 2 /\ lead[1 + 1] = two[1] /\ lead[1] = one[1]
      BY <1>6, <2>1, <2>3
    <3> QED BY <1>6, <2>3, <3>1
  <2> QED BY <2>2, <2>3
<1>9. f.node.type = v.type
  BY <1>1 DEF Started
<1> QED BY <1>1, <1>2, <1>3, <1>4, <1>5, <1>8, <1>9 DEF n, lead, c, NextIs

\* Updates of a frame, field by field.
NewNode(f, d, l)      == [f EXCEPT !.node = d, !.left = l]
NewHeader(f, l, n, r) == [f EXCEPT !.left = l, !.node.name = n, !.node.version = r]

\* A frame with another node and another number of members to come.
LEMMA FrameChanged ==
  ASSUME NEW a, NEW b, NEW k, NEW d, NEW l, NEW f, f = [left |-> a, key |-> k, node |-> b]
  PROVE  NewNode(f, d, l) = [left |-> l, key |-> k, node |-> d]
<1>1. PICK g : g = [f EXCEPT !.node = d]
  OBVIOUS
<1>2. g = [left |-> a, key |-> k, node |-> d]
  BY <1>1
<1>3. [g EXCEPT !.left = l] = [left |-> l, key |-> k, node |-> d]
  BY <1>2
<1>4. [f EXCEPT !.node = d, !.left = l] = [g EXCEPT !.left = l]
  BY <1>1
<1> QED BY <1>3, <1>4 DEF NewNode

\* A frame when the header of its object was read.
LEMMA HeaderFilled ==
  ASSUME NEW f, NEW a, NEW t, NEW k, NEW l, NEW n, NEW r, NEW u, NEW w, NEW m,
         f = [left |-> a, key |-> k, node |-> [type |-> t, name |-> u, version |-> w, members |-> m]]
  PROVE  NewHeader(f, l, n, r)
           = [left |-> l, key |-> k, node |-> [type |-> t, name |-> n, version |-> r, members |-> m]]
<1>1. PICK f1 : f1 = [f EXCEPT !.left = l]
  OBVIOUS
<1>2. PICK g : g = [type |-> t, name |-> u, version |-> w, members |-> m]
  OBVIOUS
<1>3. f1 = [left |-> l, key |-> k, node |-> g]
  BY <1>1, <1>2
<1>4. PICK g2 : g2 = [g EXCEPT !.name = n]
  OBVIOUS
<1>5. g2 = [type |-> t, name |-> n, version |-> w, members |-> m]
  BY <1>2, <1>4
<1>6. PICK f2 : f2 = [f1 EXCEPT !.node = g2]
  OBVIOUS
<1>7. f2 = [left |-> l, key |-> k, node |-> g2]
  BY <1>3, <1>6
<1>8. PICK g3 : g3 = [g2 EXCEPT !.version = r]
  OBVIOUS
<1>9. g3 = [type |-> t, name |-> n, version |-> r, members |-> m]
  BY <1>5, <1>8
<1>10. [f2 EXCEPT !.node = g3] = [left |-> l, key |-> k, node |-> g3]
  BY <1>7
<1>11. f1.node = g /\ f2.node = g2
  BY <1>3, <1>7
<1>12. f2 = [f1 EXCEPT !.node.name = n]
  BY <1>4, <1>6, <1>11
<1>13. [f2 EXCEPT !.node = g3] = [f2 EXCEPT !.node.version = r]
  BY <1>8, <1>11
<1>14. [f EXCEPT !.left = l, !.node.name = n, !.node.version = r] = [f2 EXCEPT !.node.version = r]
  BY <1>1, <1>12
<1> QED BY <1>9, <1>10, <1>13, <1>14 DEF NewHeader

\* The frame when the next member was stored.
Advanced(f, key, x) == [f EXCEPT !.node = With(@, key, x), !.left = @ - 1]

\* When the next member is stored, the frame is as it should be one member later.
LEMMA FrameAdvances ==
  ASSUME NEW st \in Seq(Contents), NEW low, NEW v, NEW f, FrameOK(f, v, st, low),
         f.left # Unread, f.left # 0
  PROVE  LET i  == NextOf(f, v)
             f2 == Advanced(f, ReadKey(v, i, st, low), Restored(Child(v, i), st, low)) IN
         /\ FrameOK(f2, v, st, low) /\ f2.left # Unread /\ f2.key = f.key
         /\ ReadOf(f, v, st) \in Nat
         /\ ReadOf(f2, v, st)
              = ReadOf(f, v, st) + Len(LeadOf(v, i, st)) + Len(Written(Child(v, i), st))
<1> DEFINE n == Len(Members(v))
           i == NextOf(f, v)
           lead == LeadOf(v, i, st)
           c == Child(v, i)
           key == ReadKey(v, i, st, low)
           x == Restored(c, st, low)
           f2 == Advanced(f, key, x)
<1>1. /\ v \in Values /\ v.type \in Containers /\ IndexedIn(v, st, low) /\ n \in Nat
      /\ f = [left |-> f.left, key |-> f.key, node |-> f.node]
  BY ValuesTyped DEF FrameOK
<1>2. /\ i \in 1 .. n /\ i \in Nat /\ f.left = n - (i - 1) /\ f.node = Started(v, i - 1, st, low)
  BY NextMember DEF NextIs
<1>3. With(f.node, key, x) = Started(v, i, st, low)
  BY <1>1, <1>2, StartedNext
<1> HIDE DEF key, x, lead, c
<1>4. f2 = [left |-> f.left - 1, key |-> f.key, node |-> Started(v, i, st, low)]
  <2>1. PICK a, b, l, k, d :
          a = f.left /\ b = f.node /\ l = f.left - 1 /\ k = f.key /\ d = With(f.node, key, x)
    OBVIOUS
  <2>2. f2 = NewNode(f, d, l)
    BY <2>1 DEF Advanced, NewNode
  <2>3. f = [left |-> a, key |-> k, node |-> b]
    BY <1>1, <2>1
  <2>4. NewNode(f, d, l) = [left |-> l, key |-> k, node |-> d]
    BY <2>3, FrameChanged
  <2> QED BY <1>3, <2>1, <2>2, <2>4
<1> HIDE DEF f2
<1>5. f2.left = f.left - 1 /\ f2.key = f.key /\ f2.node = Started(v, i, st, low)
      /\ f2 = [left |-> f2.left, key |-> f2.key, node |-> f2.node]
  BY <1>4
<1> HIDE DEF i, n
<1>6. f2.left \in 0 .. n /\ n - f2.left = i /\ f2.left = n - i
  BY <1>1, <1>2, <1>5
<1>7. f2.left # Unread
  BY <1>6, BinaryAssumption DEF Unread
<1>8. FrameOK(f2, v, st, low)
  <2>1. f2.node = Started(v, n - f2.left, st, low)
    BY <1>5, <1>6
  <2> QED BY <1>1, <1>5, <1>6, <2>1 DEF FrameOK, n
<1>9. ReadOf(f, v, st) = Spot(v, i, st) /\ ReadOf(f2, v, st) = Spot(v, i + 1, st)
  <2>1. NextOf(f2, v) = i + 1
    BY <1>1, <1>2, <1>6 DEF NextOf, n
  <2> QED BY <1>7, <2>1 DEF ReadOf, i
<1>10. Spot(v, i + 1, st) = Spot(v, i, st) + Len(lead) + Len(Written(c, st)) /\ Spot(v, i, st) \in Nat
  <2>1. i \in 1 .. n + 1
    BY <1>1, <1>2
  <2> QED BY <1>1, <1>2, <2>1, SpotsFollow DEF n, lead, c
<1> QED BY <1>5, <1>7, <1>8, <1>9, <1>10 DEF f2, i, key, x, c, lead

\* The innermost container has changed.
LEMMA NestChanged ==
  ASSUME NEW stk, NEW p, NEW root, NEW st, NEW low, NEW src, NEW at, Nest(stk, p, root, st, low, src, at),
         NEW f, FrameOK(f, src[1], st, low), f.key = stk[1].key,
         NEW q, q = at[1] + ReadOf(f, src[1], st)
  PROVE  Nest(Replaced(stk, f), q, root, st, low, src, at)
<1> DEFINE t == Replaced(stk, f)
           n == Len(stk)
<1>1. /\ n \in Nat \ {0} /\ t \in Seq(Range(t)) /\ Len(t) = n /\ t[1] = f /\ t # <<>>
      /\ \A k \in 2 .. n : t[k] = stk[k]
  BY StackOps DEF Nest, OnTop
<1> HIDE DEF t
<1>2. /\ src \in [1 .. n -> Values] /\ at \in [1 .. n -> Nat] /\ src[n] = root /\ at[n] = RootSpot(st)
      /\ \A k \in 1 .. n : FrameOK(stk[k], src[k], st, low) /\ Stands(Stream(root, st), at[k], Written(src[k], st))
      /\ \A k \in 1 .. n - 1 :
           LET v == src[k + 1]
               i == NextOf(stk[k + 1], v) IN
           /\ stk[k + 1].left # Unread /\ stk[k + 1].left # 0
           /\ src[k] = Child(v, i) /\ stk[k].key = ReadKey(v, i, st, low)
           /\ at[k] = at[k + 1] + Spot(v, i, st) + Len(LeadOf(v, i, st))
  BY DEF Nest
<1> HIDE DEF n
<1>3. \A k \in 1 .. n : FrameOK(t[k], src[k], st, low) /\ t[k].key = stk[k].key
  <2>1. \A k \in 1 .. n : k = 1 \/ k \in 2 .. n
    BY <1>1
  <2> QED BY <1>1, <1>2, <2>1
<1>4. \A k \in 1 .. n - 1 : k + 1 \in 2 .. n /\ k \in 1 .. n
  BY <1>1
<1>5. \A k \in 1 .. n - 1 :
           LET v == src[k + 1]
               i == NextOf(t[k + 1], v) IN
           /\ t[k + 1].left # Unread /\ t[k + 1].left # 0
           /\ src[k] = Child(v, i) /\ t[k].key = ReadKey(v, i, st, low)
           /\ at[k] = at[k + 1] + Spot(v, i, st) + Len(LeadOf(v, i, st))
  <2> SUFFICES ASSUME NEW k \in 1 .. n - 1
               PROVE  LET v == src[k + 1]
                          i == NextOf(t[k + 1], v) IN
                      /\ t[k + 1].left # Unread /\ t[k + 1].left # 0
                      /\ src[k] = Child(v, i) /\ t[k].key = ReadKey(v, i, st, low)
                      /\ at[k] = at[k + 1] + Spot(v, i, st) + Len(LeadOf(v, i, st))
    OBVIOUS
  <2>1. t[k + 1] = stk[k + 1] /\ t[k].key = stk[k].key
    BY <1>1, <1>3, <1>4
  <2> QED BY <1>2, <2>1
<1> QED BY <1>1, <1>2, <1>3, <1>5 DEF Nest, t

\* The next member is a container and is opened.
LEMMA NestOpened ==
  ASSUME NEW st \in Seq(Contents), NEW root \in Values,
         NEW stk, NEW p, NEW low, NEW src, NEW at, Nest(stk, p, root, st, low, src, at),
         stk[1].left # Unread, stk[1].left # 0,
         NEW f, FrameOK(f, Child(src[1], NextOf(stk[1], src[1])), st, low),
         f.key = ReadKey(src[1], NextOf(stk[1], src[1]), st, low),
         NEW q, q = p + Len(LeadOf(src[1], NextOf(stk[1], src[1]), st))
                      + ReadOf(f, Child(src[1], NextOf(stk[1], src[1])), st)
  PROVE  \E src2, at2 : Nest(Pushed(stk, f), q, root, st, low, src2, at2)
<1> DEFINE t == Pushed(stk, f)
           n == Len(stk)
           S == Stream(root, st)
<1>1. /\ n \in Nat \ {0} /\ t \in Seq(Range(t)) /\ Len(t) = n + 1 /\ t[1] = f /\ t # <<>>
      /\ \A k \in 2 .. n + 1 : t[k] = stk[k - 1]
  BY StackOps DEF Nest, OnTop
<1> HIDE DEF t
<1>2. /\ src \in [1 .. n -> Values] /\ at \in [1 .. n -> Nat] /\ src[n] = root /\ at[n] = RootSpot(st)
      /\ p = at[1] + ReadOf(stk[1], src[1], st)
      /\ \A k \in 1 .. n : FrameOK(stk[k], src[k], st, low) /\ Stands(S, at[k], Written(src[k], st))
      /\ \A k \in 1 .. n - 1 :
           LET v == src[k + 1]
               i == NextOf(stk[k + 1], v) IN
           /\ stk[k + 1].left # Unread /\ stk[k + 1].left # 0
           /\ src[k] = Child(v, i) /\ stk[k].key = ReadKey(v, i, st, low)
           /\ at[k] = at[k + 1] + Spot(v, i, st) + Len(LeadOf(v, i, st))
  BY DEF Nest
<1>3. PICK v, i, lead, c : v = src[1] /\ i = NextOf(stk[1], v) /\ lead = LeadOf(v, i, st) /\ c = Child(v, i)
  OBVIOUS
<1>4. v \in Values /\ FrameOK(stk[1], v, st, low) /\ at[1] \in Nat /\ Stands(S, at[1], Written(v, st))
  BY <1>1, <1>2, <1>3
<1>5. /\ i \in 1 .. Len(Members(v)) /\ c \in Values /\ lead \in Seq(Items) /\ Len(lead) \in Nat
  <2>1. i \in 1 .. Len(Members(v)) /\ c \in Values /\ lead \in Seq(Items)
    BY <1>2, <1>3, <1>4, NextMember DEF NextIs
  <2> QED BY <2>1
<1>6. /\ Spot(v, i, st) \in Nat /\ Written(v, st) \in Seq(Items) /\ Written(c, st) \in Seq(Items)
      /\ Stands(Written(v, st), Spot(v, i, st) + Len(lead), Written(c, st))
  <2>1. i \in 1 .. Len(Members(v)) + 1
    BY <1>4, <1>5, ValuesTyped
  <2> QED BY <1>3, <1>4, <1>5, <2>1, SpotsFollow
<1>7. S \in Seq(Items)
  BY StreamLaid
<1> DEFINE a == at[1] + Spot(v, i, st) + Len(lead)
           src2 == [k \in 1 .. n + 1 |-> IF k = 1 THEN c ELSE src[k - 1]]
           at2 == [k \in 1 .. n + 1 |-> IF k = 1 THEN a ELSE at[k - 1]]
<1>8. Stands(S, a, Written(c, st)) /\ a \in Nat
  <2>1. Stands(S, at[1] + (Spot(v, i, st) + Len(lead)), Written(c, st))
    BY <1>4, <1>6, <1>7, StandsWithin
  <2>2. at[1] + (Spot(v, i, st) + Len(lead)) = a /\ a \in Nat
    BY SMTT(60), <1>4, <1>5, <1>6
  <2> QED BY <2>1, <2>2
<1> HIDE DEF a, n
<1>9. \A k \in 1 .. n + 1 : k = 1 \/ (k \in 2 .. n + 1 /\ k - 1 \in 1 .. n /\ k # 1)
  BY <1>1
<1>10. /\ src2 \in [1 .. n + 1 -> Values] /\ at2 \in [1 .. n + 1 -> Nat]
       /\ src2[1] = c /\ at2[1] = a
       /\ \A k \in 1 .. n : src2[k + 1] = src[k] /\ at2[k + 1] = at[k]
  <2>1. \A k \in 1 .. n + 1 : k # 1 => src[k - 1] \in Values /\ at[k - 1] \in Nat
    BY <1>2, <1>9
  <2>2. \A k \in 1 .. n : k + 1 \in 1 .. n + 1 /\ k + 1 # 1 /\ (k + 1) - 1 = k
    BY <1>1
  <2>3. 1 \in 1 .. n + 1
    BY <1>1
  <2> QED BY <1>5, <1>8, <2>1, <2>2, <2>3
<1> HIDE DEF src2, at2
<1>11. \A k \in 1 .. n : t[k + 1] = stk[k]
  <2>1. \A k \in 1 .. n : k + 1 \in 2 .. n + 1 /\ (k + 1) - 1 = k
    BY <1>1
  <2> QED BY <1>1, <2>1
<1>12. \A k \in 1 .. n + 1 :
         FrameOK(t[k], src2[k], st, low) /\ Stands(S, at2[k], Written(src2[k], st))
  <2> SUFFICES ASSUME NEW k \in 1 .. n + 1
               PROVE  FrameOK(t[k], src2[k], st, low) /\ Stands(S, at2[k], Written(src2[k], st))
    OBVIOUS
  <2>1. CASE k = 1
    BY <1>1, <1>3, <1>8, <1>10, <2>1
  <2>2. CASE k # 1
    <3>1. PICK j \in 1 .. n : k = j + 1
      BY <1>9, <2>2
    <3> QED BY <1>2, <1>10, <1>11, <3>1
  <2> QED BY <2>1, <2>2
<1>13. ASSUME NEW k \in 1 .. (n + 1) - 1
       PROVE  LET u == src2[k + 1]
                  j == NextOf(t[k + 1], u) IN
              /\ t[k + 1].left # Unread /\ t[k + 1].left # 0
              /\ src2[k] = Child(u, j) /\ t[k].key = ReadKey(u, j, st, low)
              /\ at2[k] = at2[k + 1] + Spot(u, j, st) + Len(LeadOf(u, j, st))
  <2>1. k \in 1 .. n /\ t[k + 1] = stk[k] /\ src2[k + 1] = src[k] /\ at2[k + 1] = at[k]
    <3>1. k \in 1 .. n
      BY <1>1
    <3> QED BY <1>10, <1>11, <3>1
  <2>2. CASE k = 1
    BY <1>1, <1>3, <1>10, <2>1, <2>2 DEF a
  <2>3. CASE k # 1
    <3>0. k - 1 \in 1 .. n - 1 /\ k = (k - 1) + 1
      BY <1>1, <2>1, <2>3
    <3>1. PICK j \in 1 .. n - 1 : k = j + 1
      BY <3>0
    <3>2. j \in 1 .. n
      BY <1>1
    <3>3. t[k] = stk[j] /\ src2[k] = src[j] /\ at2[k] = at[j]
      BY <1>10, <1>11, <3>1, <3>2
    <3> QED BY <1>2, <2>1, <3>1, <3>3
  <2> QED BY <2>2, <2>3
<1>14. src2[n + 1] = root /\ at2[n + 1] = RootSpot(st)
  <2>1. n \in 1 .. n
    BY <1>1
  <2> QED BY <1>2, <1>10, <2>1 DEF n
<1>15. q = at2[1] + ReadOf(t[1], src2[1], st)
  <2>1. p = at[1] + Spot(v, i, st)
    BY <1>2, <1>3 DEF ReadOf
  <2>2. q = p + Len(lead) + ReadOf(f, c, st)
    BY <1>3
  <2> QED BY <1>1, <1>10, <2>1, <2>2 DEF a
<1>16. Nest(t, q, root, st, low, src2, at2)
  BY <1>1, <1>10, <1>12, <1>13, <1>14, <1>15 DEF Nest
<1> QED BY <1>16 DEF t

\* A container all of whose members were read is what is restored of it, and
\* the reader is at its end.
LEMMA FrameComplete ==
  ASSUME NEW st \in Seq(Contents), NEW low, NEW v, NEW f, FrameOK(f, v, st, low), f.left = 0
  PROVE  f.node = Restored(v, st, low) /\ ReadOf(f, v, st) = Len(Written(v, st))
<1> DEFINE n == Len(Members(v))
<1>1. v \in Values /\ v.type \in Containers /\ n \in Nat /\ 0 # Unread
  BY ValuesTyped, BinaryAssumption DEF FrameOK, Unread
<1>2. f.node = Started(v, n - 0, st, low) /\ NextOf(f, v) = n + 1
  <2>1. f.node = Started(v, n - f.left, st, low) /\ NextOf(f, v) = n - 0 + 1
    BY <1>1 DEF FrameOK, NextOf
  <2> HIDE DEF n
  <2> QED BY <1>1, <2>1
<1>3. n - 0 = n
  BY <1>1
<1>4. f.node = Restored(v, st, low)
  BY <1>1, <1>2, <1>3, RestoredContainer
<1>5. ReadOf(f, v, st) = Spot(v, n + 1, st)
  BY <1>1, <1>2 DEF ReadOf
<1> QED BY <1>1, <1>4, <1>5, SpotsFollow

\* The innermost container is complete and becomes a member of the next.
LEMMA NestClosed ==
  ASSUME NEW st \in Seq(Contents), NEW root \in Values,
         NEW stk, NEW p, NEW low, NEW src, NEW at, Nest(stk, p, root, st, low, src, at),
         stk[1].left = 0, Len(stk) > 1
  PROVE  \E src2, at2 :
           Nest(Merged(stk, Advanced(stk[2], stk[1].key, stk[1].node)), p, root, st, low, src2, at2)
<1> DEFINE f == Advanced(stk[2], stk[1].key, stk[1].node)
           t == Merged(stk, f)
           n == Len(stk)
           S == Stream(root, st)
<1>0. stk \in Seq(Range(stk)) /\ stk # <<>> /\ n > 1
  BY DEF Nest
<1>1. /\ n \in Nat \ {0, 1} /\ t \in Seq(Range(t)) /\ Len(t) = n - 1 /\ t[1] = f /\ t # <<>>
      /\ \A k \in 2 .. n - 1 : t[k] = stk[k + 1]
  <2>1. /\ n \in Nat \ {0} /\ OnTop(t, f, n - 1)
        /\ \A k \in 2 .. n - 1 : t[k] = stk[k + 1]
    BY <1>0, StackOps
  <2> HIDE DEF t, n, f
  <2> QED BY <1>0, <2>1 DEF OnTop
<1> HIDE DEF t
<1>2. /\ src \in [1 .. n -> Values] /\ at \in [1 .. n -> Nat] /\ src[n] = root /\ at[n] = RootSpot(st)
      /\ p = at[1] + ReadOf(stk[1], src[1], st)
      /\ \A k \in 1 .. n : FrameOK(stk[k], src[k], st, low) /\ Stands(S, at[k], Written(src[k], st))
      /\ \A k \in 1 .. n - 1 :
           LET v == src[k + 1]
               i == NextOf(stk[k + 1], v) IN
           /\ stk[k + 1].left # Unread /\ stk[k + 1].left # 0
           /\ src[k] = Child(v, i) /\ stk[k].key = ReadKey(v, i, st, low)
           /\ at[k] = at[k + 1] + Spot(v, i, st) + Len(LeadOf(v, i, st))
  BY DEF Nest
<1>3. PICK v, i, lead, c : v = src[2] /\ i = NextOf(stk[2], v) /\ lead = LeadOf(v, i, st) /\ c = Child(v, i)
  OBVIOUS
<1>4. /\ stk[2].left # Unread /\ stk[2].left # 0 /\ src[1] = c /\ stk[1].key = ReadKey(v, i, st, low)
      /\ at[1] = at[2] + Spot(v, i, st) + Len(lead)
  <2>1. 1 \in 1 .. n - 1 /\ 1 + 1 = 2
    BY <1>1
  <2> QED BY <1>2, <1>3, <2>1
<1>5. /\ FrameOK(stk[2], v, st, low) /\ FrameOK(stk[1], c, st, low)
      /\ at[1] \in Nat /\ at[2] \in Nat
  <2>1. 1 \in 1 .. n /\ 2 \in 1 .. n
    BY <1>1
  <2> QED BY <1>2, <1>3, <1>4, <2>1
<1>6. stk[1].node = Restored(c, st, low) /\ ReadOf(stk[1], c, st) = Len(Written(c, st))
  BY <1>5, FrameComplete
<1>7. /\ FrameOK(f, v, st, low) /\ f.key = stk[2].key /\ ReadOf(stk[2], v, st) \in Nat
      /\ ReadOf(f, v, st) = ReadOf(stk[2], v, st) + Len(lead) + Len(Written(c, st))
  BY <1>3, <1>4, <1>5, <1>6, FrameAdvances
<1>8. p = at[2] + ReadOf(f, v, st)
  <2>1. ReadOf(stk[2], v, st) = Spot(v, i, st)
    BY <1>3, <1>4 DEF ReadOf
  <2>2. Len(lead) \in Nat /\ Len(Written(c, st)) \in Nat
    <3>1. c \in Values /\ lead \in Seq(Items)
      BY <1>3, <1>4, <1>5, NextMember DEF NextIs
    <3>2. Written(c, st) \in Seq(Items)
      BY <3>1, WrittenTyped
    <3> QED BY <3>1, <3>2
  <2>3. p = at[1] + Len(Written(c, st))
    BY <1>2, <1>4, <1>6
  <2>4. \A a, b, x, y \in Nat : (a + b + x) + y = a + (b + x + y)
    OBVIOUS
  <2> HIDE DEF f
  <2> QED BY <1>4, <1>5, <1>7, <2>1, <2>2, <2>3, <2>4
<1> HIDE DEF f, n
<1> DEFINE src2 == [k \in 1 .. n - 1 |-> src[k + 1]]
           at2 == [k \in 1 .. n - 1 |-> at[k + 1]]
<1>9. \A k \in 1 .. n - 1 : k + 1 \in 1 .. n /\ (k = 1 \/ k \in 2 .. n - 1)
  BY <1>1
<1>10. src2 \in [1 .. n - 1 -> Values] /\ at2 \in [1 .. n - 1 -> Nat]
       /\ \A k \in 1 .. n - 1 : src2[k] = src[k + 1] /\ at2[k] = at[k + 1]
  BY <1>2, <1>9
<1> HIDE DEF src2, at2
<1>11. n - 1 \in 1 .. n - 1 /\ 1 \in 1 .. n - 1 /\ 1 + 1 = 2 /\ (n - 1) + 1 = n
  BY <1>1
<1>12. \A k \in 1 .. n - 1 : FrameOK(t[k], src2[k], st, low) /\ t[k].key = stk[k + 1].key
                             /\ Stands(S, at2[k], Written(src2[k], st))
  <2> SUFFICES ASSUME NEW k \in 1 .. n - 1
               PROVE  FrameOK(t[k], src2[k], st, low) /\ t[k].key = stk[k + 1].key
                      /\ Stands(S, at2[k], Written(src2[k], st))
    OBVIOUS
  <2>1. CASE k = 1
    BY <1>1, <1>2, <1>3, <1>7, <1>9, <1>10, <1>11, <2>1
  <2>2. CASE k # 1
    BY <1>1, <1>2, <1>9, <1>10, <2>2
  <2> QED BY <2>1, <2>2
<1>13. ASSUME NEW k \in 1 .. (n - 1) - 1
       PROVE  LET u == src2[k + 1]
                  j == NextOf(t[k + 1], u) IN
              /\ t[k + 1].left # Unread /\ t[k + 1].left # 0
              /\ src2[k] = Child(u, j) /\ t[k].key = ReadKey(u, j, st, low)
              /\ at2[k] = at2[k + 1] + Spot(u, j, st) + Len(LeadOf(u, j, st))
  <2>1. k \in 1 .. n - 1 /\ k + 1 \in 1 .. n - 1 /\ k + 1 \in 2 .. n - 1
    BY SMTT(60), <1>1
  <2>2. /\ t[k + 1] = stk[(k + 1) + 1] /\ t[k].key = stk[k + 1].key
        /\ src2[k] = src[k + 1] /\ at2[k] = at[k + 1]
        /\ src2[k + 1] = src[(k + 1) + 1] /\ at2[k + 1] = at[(k + 1) + 1]
    BY <1>1, <1>10, <1>12, <2>1
  <2> QED BY <1>2, <2>1, <2>2
<1>14. Nest(t, p, root, st, low, src2, at2)
  <2>1. src2[n - 1] = root /\ at2[n - 1] = RootSpot(st) /\ src2[1] = v /\ at2[1] = at[2]
    BY <1>2, <1>3, <1>10, <1>11
  <2> QED BY <1>1, <1>8, <1>10, <1>12, <1>13, <2>1 DEF Nest
<1> QED BY <1>14 DEF t, f

-----------------------------------------------------------------------------
(* The reader. *)
\* The reader's string table when k strings were read; the containers that are
\* open when the reader is at p.
PartTable(k) == [i \in 1 .. Len(strings) |-> IF i <= k THEN strings[i] ELSE Junk]
Opened(stk, p) == \E src, at : Nest(stk, p, doc, strings, lean, src, at)

\* The invariant of the reader: the strings read so far are the writer's, each
\* open container stands at its place in the stream and is filled as far as it
\* was read, and the document that is returned is the one to be restored.
ReaderInv ==
  /\ pos \in 0 .. Len(out) /\ wild \in BOOLEAN
  /\ status \in {"collecting", "writing", "magic"} => pos = 0
  /\ status = "count" => pos = 3
  /\ status = "strings" =>
       \E k \in 0 .. Len(strings) : pos = StringSpot(strings, k + 1) /\ table = PartTable(k)
  /\ status = "tree" => table = strings /\ stack # <<>> /\ Opened(stack, pos)
  /\ status = "doc" => /\ pos = Len(Stream(doc, strings))
                       /\ result = Restored(doc, strings, lean)
  /\ status # "tree" => stack = <<>>
  /\ status \notin {"strings", "tree"} => table = <<>>

\* What the reader finds is what the writer wrote, as far as it was accepted.
LEMMA OutHolds ==
  ASSUME WriterInv, status # "collecting"
  PROVE  /\ out \in Seq(Items) /\ Len(out) \in Nat /\ Len(Stream(doc, strings)) \in Nat
         /\ strings \in Seq(Contents) /\ lean \in BOOLEAN /\ doc \in Values /\ doc.type = "object"
         /\ IndexedIn(doc, strings, lean)
         /\ Len(out) <= Len(Stream(doc, strings))
         /\ \A j \in 1 .. Len(out) : out[j] = Stream(doc, strings)[j]
         /\ werror = "io" => Len(out) < Len(Stream(doc, strings))
         /\ werror = "ok" /\ todo = <<>> => out = Stream(doc, strings)
         /\ werror \in {"ok", "io"}
<1>1. /\ doc \in Documents /\ lean \in BOOLEAN /\ strings \in Seq(Contents) /\ werror \in {"ok", "io"}
      /\ out \in Seq(Items) /\ todo \in Seq(Items) /\ Indexed(doc)
      /\ werror = "ok" => out \o todo = Stream(doc, strings)
      /\ werror = "io" => /\ Len(out) + Len(todo) < Len(Stream(doc, strings))
                          /\ Begins(out, Stream(doc, strings))
  BY DEF WriterInv
<1>2. doc \in Values /\ doc.type = "object"
  BY <1>1, DocumentsTyped
<1>3. PICK S : S = Stream(doc, strings)
  OBVIOUS
<1>4. S \in Seq(Items)
  BY <1>1, <1>2, <1>3, StreamLaid
<1>5. Len(S) \in Nat /\ Len(out) \in Nat /\ Len(todo) \in Nat
  BY <1>1, <1>4
<1>6. Begins(out, S)
  BY <1>1, <1>3, BeginsConcat
<1>7. werror = "io" => Len(out) < Len(S)
  BY <1>1, <1>3, <1>5
<1>8. out \o <<>> = out
  BY <1>1
<1> QED BY <1>1, <1>2, <1>3, <1>5, <1>6, <1>7, <1>8 DEF Begins, Indexed, IndexedIn

\* What stands in the document's stream is in the accepted part, as far as that goes.
LEMMA OutStands ==
  ASSUME WriterInv, status # "collecting", NEW s, Len(s) \in Nat, NEW p, Stands(Stream(doc, strings), p, s),
         NEW j \in 1 .. Len(s), p + j <= Len(out)
  PROVE  out[p + j] = s[j]
<1>1. p \in Nat /\ p + j \in Nat /\ p + j >= 1 /\ Stream(doc, strings)[p + j] = s[j]
  BY DEF Stands
<1>2. p + j \in 1 .. Len(out)
  BY <1>1, OutHolds
<1> QED BY <1>1, <1>2, OutHolds

\* br_get_string gives back what kdf_binary_write looked up.
LEMMA StringRead ==
  ASSUME WriterInv, status # "collecting", table = strings, NEW s \in Texts,
         lean \/ s \in Range(strings) \cup {NULL},
         NEW i, i = IndexIn(strings, s)
  PROVE  /\ GetString(i) = Kept(s, strings, lean)
         /\ (IF i >= 0 THEN GetString(i) ELSE NULL) = KeptName(s, strings, lean)
<1>1. PICK st, low : st = strings /\ low = lean
  OBVIOUS
<1>2. st \in Seq(Contents) /\ low \in BOOLEAN /\ (low \/ s \in Range(st) \cup {NULL}) /\ i = IndexIn(st, s)
  BY <1>1, OutHolds
<1> DEFINE got == IF i = NoIndex \/ i >= Len(st) THEN EMPTY ELSE st[i + 1]
<1>3. got = Kept(s, st, low) /\ (IF i >= 0 THEN got ELSE NULL) = KeptName(s, st, low)
  BY <1>2, KeptRead
<1>4. GetString(i) = got
  BY <1>1 DEF GetString
<1> HIDE DEF got
<1> QED BY <1>1, <1>3, <1>4

\* The calls before the tree is read.
LEMMA ReadMagicKeeps ==
  ASSUME WriterInv, ReaderInv, ReadMagic
  PROVE  ReaderInv'
<1>1. /\ status = "magic" /\ pos = 0 /\ pos' = pos + 3 /\ status' = "count" /\ pos + 3 <= Len(out)
      /\ out' = out /\ table' = table /\ stack' = stack /\ wild' = wild /\ wild \in BOOLEAN
      /\ table = <<>> /\ stack = <<>>
  BY DEF ReadMagic, ReaderInv, Has, writerVars
<1>2. Len(out) \in Nat
  BY <1>1, OutHolds
<1> QED BY <1>1, <1>2 DEF ReaderInv

\* br_read_string_table: the count is the number of strings that follow.
LEMMA ReadCountKeeps ==
  ASSUME WriterInv, ReaderInv, ReadCount
  PROVE  ReaderInv'
<1>1. /\ status = "count" /\ pos = 3 /\ pos' = pos + 1 /\ status' = "strings" /\ pos + 1 <= Len(out)
      /\ table' = [i \in 1 .. out[pos + 1] |-> Junk]
      /\ out' = out /\ strings' = strings /\ stack' = stack /\ wild' = wild /\ wild \in BOOLEAN
      /\ stack = <<>>
  BY DEF ReadCount, ReaderInv, Has, Next1, writerVars
<1>2. PICK st : st = strings
  OBVIOUS
<1> DEFINE n == Len(st)
           one == <<n>>
<1>3. st \in Seq(Contents) /\ doc \in Values /\ Len(out) \in Nat /\ n \in Nat
  BY <1>1, <1>2, OutHolds
<1>4. Stands(Stream(doc, st), 3, one) /\ StringSpot(st, 1) = 4
  BY <1>3, StreamLaid
<1>5. Len(one) = 1 /\ one[1] = n
  OBVIOUS
<1> HIDE DEF one
<1>6. out[3 + 1] = n
  BY <1>1, <1>2, <1>4, <1>5, OutStands
<1> HIDE DEF n
<1>7. table' = [i \in 1 .. n |-> Junk] /\ pos' = 4
  BY <1>1, <1>6
<1>8. [i \in 1 .. n |-> Junk] = [i \in 1 .. n |-> IF i <= 0 THEN st[i] ELSE Junk]
  BY <1>3
<1>9. 0 \in 0 .. n /\ StringSpot(st, 0 + 1) = 4 /\ 4 \in 0 .. Len(out)
  BY <1>1, <1>3, <1>4
<1>10. PartTable(0)' = [i \in 1 .. n |-> IF i <= 0 THEN st[i] ELSE Junk]
  BY <1>1, <1>2 DEF PartTable, n
<1>11. \E k \in 0 .. Len(strings') : pos' = StringSpot(strings', k + 1) /\ table' = PartTable(k)'
  BY <1>1, <1>2, <1>7, <1>8, <1>9, <1>10 DEF n
<1> QED BY <1>1, <1>7, <1>9, <1>11 DEF ReaderInv

\* The slots of the table are filled in order, each with its string.
LEMMA ReadStringKeeps ==
  ASSUME WriterInv, ReaderInv, ReadString
  PROVE  ReaderInv'
<1>1. /\ status = "strings" /\ status' = status /\ Junk \in Range(table) /\ pos + 1 <= Len(out)
      /\ out' = out /\ strings' = strings /\ stack' = stack /\ wild' = wild /\ wild \in BOOLEAN
      /\ stack = <<>> /\ pos \in Nat
  BY OutHolds DEF ReadString, ReaderInv, Has, writerVars
<1>2. PICK st : st = strings
  OBVIOUS
<1> DEFINE n == Len(st)
           Slots(k) == [i \in 1 .. n |-> IF i <= k THEN st[i] ELSE Junk]
<1>3. /\ st \in Seq(Contents) /\ doc \in Values /\ Len(out) \in Nat /\ n \in Nat
      /\ \A i \in 1 .. n : st[i] \in Contents /\ st[i] # Junk
  <2>1. st \in Seq(Contents) /\ doc \in Values /\ Len(out) \in Nat
    BY <1>1, <1>2, OutHolds
  <2>2. n \in Nat /\ \A i \in 1 .. n : st[i] \in Contents
    BY <2>1
  <2> QED BY <2>1, <2>2, BinaryAssumption
<1>4. PICK k \in 0 .. n : pos = StringSpot(st, k + 1) /\ table = Slots(k)
  BY <1>1, <1>2 DEF ReaderInv, PartTable
<1> DEFINE c == CHOOSE j \in DOMAIN table : table[j] = Junk /\ \A m \in 1 .. j - 1 : table[m] # Junk
<1>5. k + 1 \in 1 .. n /\ c = k + 1
  <2>1. \A i \in 1 .. n : Slots(k)[i] = IF i <= k THEN st[i] ELSE Junk
    OBVIOUS
  <2>2. DOMAIN table = 1 .. n
    BY <1>4
  <2>3. k # n
    <3>1. PICK i \in 1 .. n : table[i] = Junk
      BY <1>1, <2>2 DEF Range
    <3> HIDE DEF Slots, n
    <3> QED BY <1>3, <1>4, <2>1, <3>1
  <2> HIDE DEF Slots, n
  <2>4. k + 1 \in 1 .. n
    BY <1>3, <2>3
  <2>5. \A i \in 1 .. n : table[i] = Junk <=> i > k
    BY <1>3, <1>4, <2>1
  <2>6. table[k + 1] = Junk /\ \A m \in 1 .. (k + 1) - 1 : table[m] # Junk
    BY <1>3, <2>4, <2>5
  <2>7. \A j \in 1 .. n : table[j] = Junk /\ (\A m \in 1 .. j - 1 : table[m] # Junk) => j = k + 1
    <3> SUFFICES ASSUME NEW j \in 1 .. n, table[j] = Junk, \A m \in 1 .. j - 1 : table[m] # Junk,
                        j # k + 1
                 PROVE  FALSE
      OBVIOUS
    <3>1. j > k /\ k + 1 \in 1 .. j - 1
      BY <1>3, <2>4, <2>5
    <3> QED BY <2>6, <3>1
  <2> QED BY <2>2, <2>4, <2>6, <2>7
<1> HIDE DEF c
<1>6. \/ /\ out[pos + 1] = 0 /\ table' = [table EXCEPT ![c] = EMPTY] /\ pos' = pos + 1
      \/ /\ out[pos + 1] # 0 /\ pos + 2 <= Len(out)
         /\ table' = [table EXCEPT ![c] = out[pos + 2]] /\ pos' = pos + 2
  BY DEF ReadString, Has, Next1, c
<1>7. PICK x : x = st[k + 1]
  OBVIOUS
<1> DEFINE part == IF x = EMPTY THEN <<0>> ELSE <<1, x>>
<1>8. /\ Stands(Stream(doc, st), pos, part)
      /\ StringSpot(st, (k + 1) + 1) = pos + Len(part)
  <2>1. TableParts(st)[k + 1] = part
    <3>1. DOMAIN st = 1 .. n
      BY <1>3
    <3> QED BY <1>5, <1>7, <3>1 DEF TableParts
  <2> HIDE DEF part
  <2> QED BY <1>3, <1>4, <1>5, <2>1, StreamLaid
<1>9. /\ x = EMPTY => Len(part) = 1 /\ part[1] = 0
      /\ x # EMPTY => Len(part) = 2 /\ part[1] = 1 /\ part[2] = x
      /\ Len(part) \in {1, 2}
  OBVIOUS
<1> HIDE DEF part
<1>10. out[pos + 1] = part[1]
  <2>1. 1 \in 1 .. Len(part) /\ Len(part) \in Nat
    BY <1>9
  <2> QED BY <1>1, <1>2, <1>8, <2>1, OutStands
<1>11. /\ table' = [table EXCEPT ![k + 1] = x] /\ pos' = pos + Len(part) /\ pos' \in Nat
       /\ pos' <= Len(out)
  <2>1. CASE x = EMPTY
    <3>1. table' = [table EXCEPT ![k + 1] = EMPTY] /\ pos' = pos + 1
      BY <1>5, <1>6, <1>9, <1>10, <2>1
    <3>2. Len(part) = 1 /\ pos + 1 \in Nat
      BY <1>1, <1>9, <2>1
    <3> QED BY <1>1, <2>1, <3>1, <3>2
  <2>2. CASE x # EMPTY
    <3>0. out[pos + 1] # 0
      BY <1>9, <1>10, <2>2
    <3>1. /\ pos + 2 <= Len(out) /\ table' = [table EXCEPT ![k + 1] = out[pos + 2]] /\ pos' = pos + 2
      BY <1>5, <1>6, <3>0
    <3>2. 2 \in 1 .. Len(part) /\ Len(part) \in Nat
      BY <1>9, <2>2
    <3>3. out[pos + 2] = part[2]
      BY <1>1, <1>2, <1>8, <3>1, <3>2, OutStands
    <3>4. Len(part) = 2 /\ part[2] = x /\ pos + 2 \in Nat
      BY <1>1, <1>9, <2>2
    <3> QED BY <3>1, <3>3, <3>4
  <2> QED BY <2>1, <2>2
<1>12. table' = Slots(k + 1)
  <2>1. [Slots(k) EXCEPT ![k + 1] = x] = Slots(k + 1)
    <3>1. [Slots(k) EXCEPT ![k + 1] = x] = [i \in 1 .. n |-> IF i = k + 1 THEN x ELSE IF i <= k THEN st[i] ELSE Junk]
      OBVIOUS
    <3>2. \A i \in 1 .. n : (IF i = k + 1 THEN x ELSE IF i <= k THEN st[i] ELSE Junk)
                              = IF i <= k + 1 THEN st[i] ELSE Junk
      <4> HIDE DEF n
      <4> QED BY <1>3, <1>7
    <3> QED BY <3>1, <3>2
  <2> HIDE DEF Slots
  <2> QED BY <1>4, <1>11, <2>1
<1>13. k + 1 \in 0 .. Len(strings')
  BY <1>1, <1>2, <1>3, <1>5
<1>14. PartTable(k + 1)' = Slots(k + 1)
  BY <1>1, <1>2 DEF PartTable
<1> HIDE DEF Slots, n
<1>15. \E m \in 0 .. Len(strings') : pos' = StringSpot(strings', m + 1) /\ table' = PartTable(m)'
  BY <1>1, <1>2, <1>8, <1>11, <1>12, <1>13, <1>14
<1>16. pos' \in 0 .. Len(out)
  BY <1>3, <1>11
<1> QED BY <1>1, <1>15, <1>16 DEF ReaderInv

\* The table is complete, and the root object comes next.
LEMMA ReadRootKeeps ==
  ASSUME WriterInv, ReaderInv, ReadRoot
  PROVE  ReaderInv'
<1>1. /\ status = "strings" /\ status' = "tree" /\ Junk \notin Range(table) /\ table' = table
      /\ stack' = <<Frame("object", Unread, NULL)>> /\ pos' = pos
      /\ out' = out /\ strings' = strings /\ wild' = wild /\ wild \in BOOLEAN /\ pos \in 0 .. Len(out)
      /\ doc' = doc /\ lean' = lean
  BY DEF ReadRoot, ReaderInv, writerVars
<1>2. PICK st, low, root, stk, p : st = strings /\ low = lean /\ root = doc /\ stk = stack' /\ p = pos
  OBVIOUS
<1> DEFINE n == Len(st)
           Slots(k) == [i \in 1 .. n |-> IF i <= k THEN st[i] ELSE Junk]
<1>3. st \in Seq(Contents) /\ root \in Values /\ root.type = "object" /\ IndexedIn(root, st, low) /\ n \in Nat
  <2>1. st \in Seq(Contents) /\ root \in Values /\ root.type = "object" /\ IndexedIn(root, st, low)
    BY <1>1, <1>2, OutHolds
  <2> QED BY <2>1
<1>4. PICK k \in 0 .. n : p = StringSpot(st, k + 1) /\ table = Slots(k)
  BY <1>1, <1>2 DEF ReaderInv, PartTable
<1>5. k = n
  <2> SUFFICES ASSUME k # n  PROVE FALSE
    OBVIOUS
  <2>1. n \in 1 .. n /\ ~ (n <= k)
    BY <1>3
  <2>2. table[n] = Junk /\ n \in DOMAIN table
    BY <1>4, <2>1
  <2> QED BY <1>1, <2>2 DEF Range
<1>6. table = st
  <2>1. st = [i \in 1 .. n |-> st[i]]
    BY <1>3
  <2>2. Slots(n) = [i \in 1 .. n |-> st[i]]
    OBVIOUS
  <2> QED BY <1>4, <1>5, <2>1, <2>2
<1> HIDE DEF Slots
<1> DEFINE f == Frame("object", Unread, NULL)
           one == <<f>>
           src == [k0 \in 1 .. 1 |-> root]
           at == [k0 \in 1 .. 1 |-> RootSpot(st)]
<1>7. p = RootSpot(st) /\ RootSpot(st) \in Nat /\ Stands(Stream(root, st), RootSpot(st), Written(root, st))
  <2>1. n + 1 \in 1 .. n + 1
    BY <1>3
  <2> QED BY <1>3, <1>4, <1>5, <2>1, StreamLaid DEF RootSpot
<1>8. FrameOK(f, root, st, low) /\ f.left = Unread
  <2>1. f = [left |-> Unread, key |-> NULL, node |-> Blank("object")]
    BY DEF Frame
  <2> HIDE DEF f
  <2>2. f.left = Unread /\ f.node = Blank("object") /\ f = [left |-> f.left, key |-> f.key, node |-> f.node]
    BY <2>1
  <2>3. "object" \in Containers
    BY DEF Containers, ObjectTypes
  <2> QED BY <1>3, <2>2, <2>3 DEF FrameOK
<1> HIDE DEF f
<1>9. /\ one \in Seq(Range(one)) /\ one # <<>> /\ Len(one) = 1 /\ one[1] = f
  <2>1. one # <<>> /\ Len(one) = 1 /\ one[1] = f /\ DOMAIN one = 1 .. 1 /\ one \in Seq({f})
    OBVIOUS
  <2> HIDE DEF one
  <2>2. Range(one) = {f}
    BY <2>1 DEF Range
  <2> QED BY <2>1, <2>2
<1>10. /\ src \in [1 .. 1 -> Values] /\ at \in [1 .. 1 -> Nat] /\ src[1] = root /\ at[1] = RootSpot(st)
       /\ \A k0 \in 1 .. 1 : k0 = 1
       /\ 1 .. 1 - 1 = {}
  BY <1>3, <1>7
<1> HIDE DEF one, src, at
<1>11. p = at[1] + ReadOf(one[1], src[1], st)
  BY <1>7, <1>8, <1>9, <1>10 DEF ReadOf
<1>12. Nest(one, p, root, st, low, src, at)
  BY <1>7, <1>8, <1>9, <1>10, <1>11 DEF Nest
<1>13. stk # <<>> /\ Nest(stk, p, root, st, low, src, at)
  BY <1>1, <1>2, <1>9, <1>12 DEF one, f
<1>14. Opened(stack, pos)'
  <2>1. \E s, a : Nest(stk, p, root, st, low, s, a)
    BY <1>13
  <2> QED BY <1>1, <1>2, <2>1 DEF Opened
<1> QED BY <1>1, <1>2, <1>6, <1>13, <1>14 DEF ReaderInv

\* In a step within the tree, only the position and the stack matter.
LEMMA StillReading ==
  ASSUME WriterInv, ReaderInv, status = "tree", UNCHANGED <<writerVars, status, table, wild>>,
         NEW stk, NEW p, stk = stack', p = pos', p \in Nat, p <= Len(out),
         \E src, at : Nest(stk, p, doc, strings, lean, src, at)
  PROVE  ReaderInv'
<1>1. out' = out /\ strings' = strings /\ doc' = doc /\ lean' = lean /\ table' = table /\ status' = status
      /\ wild' = wild /\ wild \in BOOLEAN /\ table = strings
  BY DEF writerVars, ReaderInv
<1>2. Opened(stack, pos)'
  BY <1>1 DEF Opened
<1>4. stk # <<>>
  BY DEF Nest
<1>3. pos' \in 0 .. Len(out)
  BY OutHolds
<1> QED BY <1>1, <1>2, <1>3, <1>4 DEF ReaderInv

\* What is known of the innermost container.
Innermost(src, at) ==
  /\ Nest(stack, pos, doc, strings, lean, src, at) /\ FrameOK(stack[1], src[1], strings, lean)
  /\ Top = stack[1] /\ Len(stack) \in Nat \ {0}
  /\ at[1] \in Nat /\ pos = at[1] + ReadOf(stack[1], src[1], strings)
  /\ Stands(Stream(doc, strings), at[1], Written(src[1], strings))
  /\ strings \in Seq(Contents) /\ lean \in BOOLEAN /\ doc \in Values /\ table = strings
  /\ out \in Seq(Items) /\ Len(out) \in Nat

\* While the tree is read there is such a container.
LEMMA InnermostKnown ==
  ASSUME WriterInv, ReaderInv, status = "tree"
  PROVE  \E src, at : Innermost(src, at)
<1>1. PICK src, at : Nest(stack, pos, doc, strings, lean, src, at)
  BY DEF ReaderInv, Opened
<1>2. PICK stk : stk = stack
  OBVIOUS
<1>3. stk \in Seq(Range(stk)) /\ stk # <<>>
  BY <1>1, <1>2 DEF Nest
<1>4. Len(stk) \in Nat \ {0} /\ Head(stk) = stk[1]
  BY <1>3, StackOps
<1>5. 1 \in 1 .. Len(stk)
  BY <1>4
<1>6. /\ FrameOK(stk[1], src[1], strings, lean) /\ pos = at[1] + ReadOf(stk[1], src[1], strings)
      /\ Stands(Stream(doc, strings), at[1], Written(src[1], strings)) /\ at[1] \in Nat
  BY <1>1, <1>2, <1>5 DEF Nest
<1> QED BY <1>1, <1>2, <1>4, <1>6, OutHolds DEF Innermost, Top, ReaderInv

\* br_read_object: the header of an object.
LEMMA ReadHeaderKeeps ==
  ASSUME WriterInv, ReaderInv, ReadHeader
  PROVE  ReaderInv'
<1>1. /\ status = "tree" /\ Top.left = Unread /\ pos + 3 <= Len(out) /\ pos' = pos + 3
      /\ UNCHANGED <<writerVars, status, table, wild>>
      /\ stack' = <<[Top EXCEPT
           !.left = out[pos + 3],
           !.node.name = IF out[pos + 1] >= 0 THEN GetString(out[pos + 1]) ELSE @,
           !.node.version = out[pos + 2]]>> \o Tail(stack)
  BY DEF ReadHeader, Has, Next1
<1>2. PICK src, at : Innermost(src, at)
  BY <1>1, InnermostKnown
<1>3. PICK v, f, st, low, stk : v = src[1] /\ f = stack[1] /\ st = strings /\ low = lean /\ stk = stack
  OBVIOUS
<1>4. /\ st \in Seq(Contents) /\ low \in BOOLEAN /\ FrameOK(f, v, st, low) /\ f.left = Unread
      /\ Top = f /\ pos \in Nat /\ pos = at[1] /\ doc \in Values /\ Len(out) \in Nat
      /\ Stands(Stream(doc, st), pos, Written(v, st)) /\ table = st
      /\ Nest(stk, pos, doc, st, low, src, at)
  <2>1. /\ st \in Seq(Contents) /\ low \in BOOLEAN /\ FrameOK(f, v, st, low) /\ f.left = Unread
        /\ Top = f /\ at[1] \in Nat /\ pos = at[1] + ReadOf(f, v, st) /\ doc \in Values /\ Len(out) \in Nat
        /\ Stands(Stream(doc, st), at[1], Written(v, st)) /\ table = st
        /\ Nest(stk, pos, doc, st, low, src, at)
    BY <1>1, <1>2, <1>3 DEF Innermost
  <2>2. pos = at[1]
    BY <2>1 DEF ReadOf
  <2> QED BY <2>1, <2>2
<1> DEFINE n == Len(Members(v))
<1>5. /\ v \in Values /\ v.type \in ObjectTypes /\ IndexedIn(v, st, low) /\ f.node = Blank(v.type)
      /\ f = [left |-> f.left, key |-> f.key, node |-> f.node] /\ n \in Nat
  <2>1. v \in Values /\ n \in Nat
    BY <1>4, ValuesTyped DEF FrameOK
  <2>2. Unread \notin 0 .. n
    BY BinaryAssumption DEF Unread
  <2> QED BY <1>4, <2>1, <2>2 DEF FrameOK, Containers
<1> DEFINE h == <<IndexIn(st, v.name), v.version, n>>
<1>6. HeaderOf(v, st) = h
  <2>1. v.type # "null" /\ v.type \notin StringTypes /\ v.type # "array"
    BY <1>5 DEF ObjectTypes, StringTypes
  <2> QED BY <1>5, <2>1 DEF HeaderOf
<1>7. Len(h) = 3 /\ h[1] = IndexIn(st, v.name) /\ h[2] = v.version /\ h[3] = n
  OBVIOUS
<1> HIDE DEF h
<1>8. /\ Stands(Stream(doc, st), pos, h) /\ Spot(v, 1, st) = 3
  <2>1. /\ Written(v, st) \in Seq(Items) /\ h \in Seq(Items) /\ Stands(Written(v, st), 0, h)
        /\ Spot(v, 1, st) = 3
    BY <1>4, <1>5, <1>6, <1>7, SpotsFollow
  <2>2. Stream(doc, st) \in Seq(Items)
    BY <1>4, StreamLaid
  <2>3. Stands(Stream(doc, st), pos + 0, h)
    BY <1>4, <2>1, <2>2, StandsWithin
  <2> QED BY <1>4, <2>1, <2>3
<1>9. out[pos + 1] = h[1] /\ out[pos + 2] = h[2] /\ out[pos + 3] = h[3]
  <2>1. {1, 2, 3} \subseteq 1 .. Len(h) /\ Len(h) \in Nat
    BY <1>7
  <2>2. pos + 1 <= Len(out) /\ pos + 2 <= Len(out) /\ pos + 3 <= Len(out)
    BY <1>1, <1>4
  <2>3. \A j \in {1, 2, 3} : pos + j <= Len(out) => out[pos + j] = h[j]
    <3>1. status # "collecting"
      BY <1>1
    <3> QED BY <1>3, <1>8, <2>1, <3>1, OutStands
  <2> QED BY <2>2, <2>3
<1> DEFINE i == IndexIn(st, v.name)
           name == IF i >= 0 THEN GetString(i) ELSE NULL
<1>10. name = KeptName(v.name, st, low)
  <2>1. v.name \in Texts /\ (low \/ v.name \in Range(st) \cup {NULL})
    BY <1>4, <1>5, MembersIndexed
  <2>2. status # "collecting" /\ table = strings
    BY <1>1, <1>3, <1>4
  <2> QED BY <1>3, <2>1, <2>2, StringRead
<1>11. Blank(v.type) = [type |-> v.type, name |-> NULL, version |-> 0, members |-> <<>>]
  BY DEF Blank
<1> DEFINE g == [left |-> n, key |-> f.key, node |->
                   [type |-> v.type, name |-> name, version |-> v.version, members |-> <<>>]]
<1>12. stack' = <<g>> \o Tail(stk)
  <2>1. stack' = <<[f EXCEPT !.left = n, !.node.name = IF i >= 0 THEN GetString(i) ELSE @,
                             !.node.version = v.version]>> \o Tail(stk)
    BY <1>1, <1>3, <1>4, <1>7, <1>9
  <2>2. PICK s, k : s = GetString(i) /\ k = i
    OBVIOUS
  <2>3. PICK t, r, key : t = v.type /\ r = v.version /\ key = f.key
    OBVIOUS
  <2>4. f = [left |-> Unread, key |-> key, node |-> [type |-> t, name |-> NULL, version |-> 0, members |-> <<>>]]
    BY <1>4, <1>5, <1>11, <2>3
  <2> HIDE DEF n
  <2>5. f.node.name = NULL
    BY <2>4
  <2>6. PICK nm : nm = IF k >= 0 THEN s ELSE f.node.name
    OBVIOUS
  <2>7. NewHeader(f, n, nm, r)
          = [left |-> n, key |-> key, node |-> [type |-> t, name |-> nm, version |-> r, members |-> <<>>]]
    BY <2>4, HeaderFilled
  <2>8. stack' = <<NewHeader(f, n, nm, r)>> \o Tail(stk)
    BY <2>1, <2>2, <2>3, <2>6 DEF NewHeader
  <2>9. nm = name
    BY <2>2, <2>5, <2>6
  <2> QED BY <2>3, <2>7, <2>8, <2>9
<1> HIDE DEF name, i
<1>13. Started(v, 0, st, low)
         = [type |-> v.type, name |-> name, version |-> v.version, members |-> <<>>]
  <2>1. Len(Rebuilds(v, st, low)) \in Nat
    BY <1>5, ValuesTyped DEF Rebuilds
  <2>2. Filled(v, st, low, Rebuilds(v, st, low), 0) = <<>>
    BY <2>1, FilledByOne
  <2> QED BY <1>10, <2>2 DEF Started
<1> HIDE DEF g
<1>14. g.left = n /\ g.key = f.key /\ g.node = Started(v, 0, st, low)
       /\ g = [left |-> g.left, key |-> g.key, node |-> g.node]
  BY <1>13 DEF g
<1>15. FrameOK(g, v, st, low) /\ ReadOf(g, v, st) = 3
  <2>1. g.left \in 0 .. n /\ n - g.left = 0 /\ NextOf(g, v) = 1 /\ g.left # Unread
    BY <1>5, <1>14, BinaryAssumption DEF NextOf, Unread
  <2>2. FrameOK(g, v, st, low)
    BY <1>5, <1>14, <2>1 DEF FrameOK, Containers
  <2>3. ReadOf(g, v, st) = Spot(v, 1, st)
    BY <2>1 DEF ReadOf
  <2> QED BY <1>8, <2>2, <2>3
<1>16. PICK q : q = pos'
  OBVIOUS
<1>17. Nest(Replaced(stk, g), q, doc, st, low, src, at)
  <2>1. q = at[1] + ReadOf(g, src[1], st) /\ g.key = stk[1].key /\ FrameOK(g, src[1], st, low)
    BY <1>1, <1>3, <1>4, <1>14, <1>15, <1>16
  <2> QED BY <1>4, <2>1, NestChanged
<1>18. PICK stk2 : stk2 = stack'
  OBVIOUS
<1>19. \E s, a : Nest(stk2, q, doc, strings, lean, s, a)
  BY <1>3, <1>12, <1>17, <1>18 DEF Replaced
<1>20. q \in Nat /\ q <= Len(out)
  BY <1>1, <1>4, <1>16
<1> QED BY <1>1, <1>16, <1>18, <1>19, <1>20, StillReading

\* The reader is at the next member c of the innermost container v.
MemberAt(src, at, v, i, c) ==
  /\ Innermost(src, at) /\ v = src[1] /\ i = NextOf(stack[1], v) /\ c = Child(v, i)
  /\ stack[1].left # Unread /\ stack[1].left # 0
  /\ c \in Values /\ IndexedIn(c, strings, lean) /\ pos \in Nat
  /\ Lead \in {0, 1} /\ Len(LeadOf(v, i, strings)) = Lead + 1
  /\ Key = ReadKey(v, i, strings, lean) /\ TypeAt(Lead + 1) = c.type
  /\ Len(Written(c, strings)) \in Nat /\ Len(HeaderOf(c, strings)) \in Nat
  /\ Stands(Stream(doc, strings), pos + Lead + 1, HeaderOf(c, strings))
  /\ Spot(c, 1, strings) = Len(HeaderOf(c, strings))
  /\ Members(c) = <<>> => Len(Written(c, strings)) = Len(HeaderOf(c, strings))

\* While members are to come there is such a member.
LEMMA MemberAhead ==
  ASSUME WriterInv, ReaderInv, InMember
  PROVE  \E src, at, v, i, c : MemberAt(src, at, v, i, c)
<1>1. status = "tree" /\ Top.left # Unread /\ Top.left # 0 /\ pos + (Lead + 1) <= Len(out)
      /\ status # "collecting"
  BY DEF InMember, AllRead, Has
<1>2. PICK src, at : Innermost(src, at)
  BY <1>1, InnermostKnown
<1>3. PICK st, low, v, i, c, f :
        /\ st = strings /\ low = lean /\ v = src[1] /\ f = stack[1] /\ i = NextOf(f, v) /\ c = Child(v, i)
  OBVIOUS
<1>4. PICK S, p : S = Stream(doc, st) /\ p = pos
  OBVIOUS
<1>5. /\ st \in Seq(Contents) /\ FrameOK(f, v, st, low) /\ Top = f /\ f.left # Unread /\ f.left # 0
      /\ at[1] \in Nat /\ p = at[1] + ReadOf(f, v, st) /\ Stands(S, at[1], Written(v, st))
      /\ doc \in Values /\ table = strings
  BY <1>1, <1>2, <1>3, <1>4 DEF Innermost
<1> DEFINE lead == LeadOf(v, i, st)
<1>6. /\ i \in 1 .. Len(Members(v)) /\ i \in Nat /\ c \in Values /\ IndexedIn(c, st, low)
      /\ c.type \in Range(Types) /\ lead \in Seq(Items)
      /\ Len(lead) = (IF v.type = "array" THEN 1 ELSE 2)
      /\ lead[Len(lead)] = Tag(c.type) /\ f.node.type = v.type
      /\ v.type # "array" => /\ lead[1] = IndexIn(st, KeyOf(v, i)) /\ KeyOf(v, i) \in Texts
                             /\ low \/ KeyOf(v, i) \in Range(st) \cup {NULL}
  <2>1. NextIs(f, v, i, lead, c, st, low)
    BY <1>3, <1>5, NextMember
  <2> HIDE DEF lead
  <2> QED BY <2>1 DEF NextIs
<1>7. v \in Values
  BY <1>5 DEF FrameOK
<1>8. /\ Spot(v, i, st) \in Nat /\ p = at[1] + Spot(v, i, st) /\ p \in Nat
  <2>1. i \in 1 .. Len(Members(v)) + 1
    BY <1>6, <1>7, ValuesTyped
  <2>2. Spot(v, i, st) \in Nat
    BY <1>5, <1>7, <2>1, SpotsFollow
  <2>3. ReadOf(f, v, st) = Spot(v, i, st)
    BY <1>3, <1>5 DEF ReadOf
  <2> QED BY <1>5, <2>2, <2>3
<1>9. /\ Written(v, st) \in Seq(Items) /\ Written(c, st) \in Seq(Items)
      /\ Stands(Written(v, st), Spot(v, i, st), lead)
      /\ Stands(Written(v, st), Spot(v, i, st) + Len(lead), Written(c, st))
  BY <1>3, <1>5, <1>6, <1>7, SpotsFollow
<1>10. /\ HeaderOf(c, st) \in Seq(Items) /\ Stands(Written(c, st), 0, HeaderOf(c, st))
       /\ Spot(c, 1, st) = Len(HeaderOf(c, st))
       /\ Spot(c, Len(Members(c)) + 1, st) = Len(Written(c, st))
  BY <1>5, <1>6, SpotsFollow
<1> HIDE DEF lead
<1>11. S \in Seq(Items)
  BY <1>4, <1>5, StreamLaid
<1>12. Len(lead) \in {1, 2} /\ Lead = (IF v.type = "array" THEN 0 ELSE 1) /\ Len(lead) = Lead + 1
  BY <1>5, <1>6 DEF Lead
<1>13. Stands(S, p, lead)
  BY <1>5, <1>6, <1>8, <1>9, <1>11, StandsWithin
<1>14. Stands(S, p + Lead + 1, HeaderOf(c, st))
  <2>1. Stands(S, at[1] + (Spot(v, i, st) + Len(lead)), Written(c, st))
    BY <1>5, <1>9, <1>11, StandsWithin
  <2>2. Stands(S, (at[1] + (Spot(v, i, st) + Len(lead))) + 0, HeaderOf(c, st))
    BY <1>9, <1>10, <1>11, <2>1, StandsWithin
  <2>3. (at[1] + (Spot(v, i, st) + Len(lead))) + 0 = p + Lead + 1
    BY <1>5, <1>8, <1>12
  <2> QED BY <2>2, <2>3
<1>15. \A j \in 1 .. Len(lead) : out[p + j] = lead[j]
  <2> SUFFICES ASSUME NEW j \in 1 .. Len(lead)  PROVE out[p + j] = lead[j]
    OBVIOUS
  <2>1. p + j <= Len(out)
    <3>1. Len(out) \in Nat
      BY <1>1, OutHolds
    <3> QED BY <1>1, <1>4, <1>8, <1>12, <3>1
  <2>2. Len(lead) \in Nat /\ Stands(Stream(doc, strings), p, lead)
    BY <1>3, <1>4, <1>12, <1>13
  <2> QED BY <1>1, <2>1, <2>2, OutStands
<1>16. TypeAt(Lead + 1) = c.type
  <2>1. Next1(Lead + 1) = Tag(c.type)
    BY <1>4, <1>6, <1>12, <1>15 DEF Next1
  <2> QED BY <1>6, <2>1, Tags DEF TypeAt
<1>17. Key = ReadKey(v, i, st, low)
  <2>1. CASE v.type = "array"
    BY <1>12, <2>1 DEF Key, ReadKey
  <2>2. CASE v.type # "array"
    <3>1. PICK s, j : s = KeyOf(v, i) /\ j = IndexIn(st, s)
      OBVIOUS
    <3>2. Next1(1) = j
      <4>1. 1 \in 1 .. Len(lead)
        BY <1>12
      <4> QED BY <1>4, <1>6, <1>15, <2>2, <3>1, <4>1 DEF Next1
    <3>3. s \in Texts /\ (lean \/ s \in Range(strings) \cup {NULL}) /\ j = IndexIn(strings, s)
      BY <1>3, <1>6, <2>2, <3>1
    <3>4. GetString(j) = Kept(s, strings, lean)
      BY <1>1, <1>5, <3>3, StringRead
    <3>5. Lead # 0
      BY <1>12, <2>2
    <3> QED BY <1>3, <2>2, <3>1, <3>2, <3>4, <3>5 DEF Key, ReadKey
  <2> QED BY <2>1, <2>2
<1>18. Members(c) = <<>> => Len(Written(c, st)) = Len(HeaderOf(c, st))
  <2>1. Len(<<>>) + 1 = 1
    OBVIOUS
  <2> QED BY <1>10, <2>1
<1>19. Len(Written(c, st)) \in Nat /\ Len(HeaderOf(c, st)) \in Nat /\ Lead \in {0, 1}
  BY <1>9, <1>10, <1>12
<1>20. MemberAt(src, at, v, i, c)
  BY <1>2, <1>3, <1>4, <1>5, <1>6, <1>8, <1>10, <1>12, <1>14, <1>16, <1>17, <1>18, <1>19 DEF MemberAt, lead
<1> QED BY <1>20

\* br_read_value: a value that is complete is stored.
LEMMA ReadPlainKeeps ==
  ASSUME WriterInv, ReaderInv, ReadPlain
  PROVE  ReaderInv'
<1>1. PICK src, at, v, i, c : MemberAt(src, at, v, i, c)
  BY MemberAhead DEF ReadPlain
<1> DEFINE size == IF c.type = "null" THEN 0 ELSE 1
           lit == IF c.type = "null" THEN NULL
                  ELSE IF c.type \in StringTypes THEN GetString(Next1(Lead + 2)) ELSE Next1(Lead + 2)
<1>2. /\ status = "tree" /\ status # "collecting" /\ c.type \in PlainTypes
      /\ pos + (Lead + 1 + size) <= Len(out)
      /\ stack' = Stored([type |-> c.type, lit |-> lit]) /\ pos' = pos + Lead + 1 + size
      /\ UNCHANGED <<writerVars, status, table, wild>>
  BY <1>1 DEF ReadPlain, InMember, Has, MemberAt
<1>3. PICK st, low, f, stk, S, p, d :
        /\ st = strings /\ low = lean /\ f = stack[1] /\ stk = stack /\ S = Stream(doc, st)
        /\ p = pos /\ d = Lead
  OBVIOUS
<1>4. /\ Innermost(src, at) /\ v = src[1] /\ i = NextOf(f, v) /\ c = Child(v, i)
      /\ f.left # Unread /\ f.left # 0 /\ c \in Values /\ IndexedIn(c, st, low) /\ p \in Nat
      /\ d \in {0, 1} /\ Len(LeadOf(v, i, st)) = d + 1 /\ Key = ReadKey(v, i, st, low)
      /\ Len(Written(c, st)) \in Nat /\ Len(HeaderOf(c, st)) \in Nat
      /\ Stands(S, p + d + 1, HeaderOf(c, st))
      /\ Members(c) = <<>> => Len(Written(c, st)) = Len(HeaderOf(c, st))
  BY <1>1, <1>3 DEF MemberAt
<1>5. /\ st \in Seq(Contents) /\ low \in BOOLEAN /\ FrameOK(f, v, st, low) /\ Top = f /\ table = strings
      /\ Nest(stk, p, doc, st, low, src, at) /\ p = at[1] + ReadOf(f, v, st) /\ at[1] \in Nat
      /\ Len(out) \in Nat
  BY <1>3, <1>4 DEF Innermost
<1>6. c.type \notin Containers /\ Members(c) = <<>> /\ PlainOK(c) /\ c.type # "array" /\ c.type \notin ObjectTypes
  BY <1>2, <1>4, ValuesTyped DEF Members, PlainTypes, Containers
<1> DEFINE h == HeaderOf(c, st)
<1>7. /\ Len(h) = size
      /\ c.type # "null" => h[1] = IF c.type \in StringTypes THEN IndexIn(st, c.lit) ELSE c.lit
  <2>1. CASE c.type = "null"
    <3>1. h = <<>>
      BY <2>1 DEF HeaderOf, StringTypes, ObjectTypes
    <3> QED BY <2>1, <3>1
  <2>2. CASE c.type # "null" /\ c.type \in StringTypes
    <3>1. h = <<IndexIn(st, c.lit)>>
      BY <1>6, <2>2 DEF HeaderOf
    <3> QED BY <2>2, <3>1
  <2>3. CASE c.type # "null" /\ c.type \notin StringTypes
    <3>1. h = <<c.lit>>
      BY <1>6, <2>3 DEF HeaderOf
    <3> QED BY <2>3, <3>1
  <2> QED BY <2>1, <2>2, <2>3
<1> HIDE DEF h
<1>8. c.type # "null" => Next1(Lead + 2) = h[1]
  <2> SUFFICES ASSUME c.type # "null"  PROVE Next1(Lead + 2) = h[1]
    OBVIOUS
  <2>1. 1 \in 1 .. Len(h) /\ Len(h) \in Nat
    BY <1>7
  <2>2. (p + d + 1) + 1 <= Len(out) /\ p + (d + 2) = (p + d + 1) + 1
    BY <1>2, <1>3, <1>4, <1>5
  <2>3. Stands(Stream(doc, strings), p + d + 1, h)
    BY <1>3, <1>4 DEF h
  <2>4. out[(p + d + 1) + 1] = h[1]
    BY <1>2, <2>1, <2>2, <2>3, OutStands
  <2> QED BY <1>3, <2>2, <2>4 DEF Next1
<1>9. lit = IF c.type \in StringTypes THEN Kept(c.lit, st, low) ELSE c.lit
  <2>1. CASE c.type = "null"
    BY <1>6, <2>1 DEF PlainOK, StringTypes
  <2>2. CASE c.type # "null" /\ c.type \in StringTypes
    <3>1. PICK s, j : s = c.lit /\ j = IndexIn(st, s)
      OBVIOUS
    <3>2. s \in Texts /\ (lean \/ s \in Range(strings) \cup {NULL}) /\ j = IndexIn(strings, s)
      BY <1>3, <1>4, <2>2, <3>1, MembersIndexed
    <3>3. GetString(j) = Kept(s, strings, lean)
      BY <1>2, <1>5, <3>2, StringRead
    <3> QED BY <1>3, <1>7, <1>8, <2>2, <3>1, <3>3
  <2>3. CASE c.type # "null" /\ c.type \notin StringTypes
    BY <1>7, <1>8, <2>3
  <2> QED BY <2>1, <2>2, <2>3
<1>10. [type |-> c.type, lit |-> lit] = Restored(c, st, low)
  BY <1>2, <1>4, <1>9, RestoredPlain
<1> HIDE DEF lit
<1> DEFINE g == Advanced(f, ReadKey(v, i, st, low), Restored(c, st, low))
<1>11. stack' = <<g>> \o Tail(stk)
  BY <1>2, <1>3, <1>4, <1>5, <1>10 DEF Stored, Advanced
<1>12. /\ FrameOK(g, v, st, low) /\ g.key = f.key /\ ReadOf(f, v, st) \in Nat
       /\ ReadOf(g, v, st) = ReadOf(f, v, st) + Len(LeadOf(v, i, st)) + Len(Written(c, st))
  BY <1>4, <1>5, FrameAdvances
<1> HIDE DEF g
<1>13. PICK q, stk2 : q = pos' /\ stk2 = stack'
  OBVIOUS
<1>14. q = at[1] + ReadOf(g, v, st) /\ q \in Nat /\ q <= Len(out)
  <2>1. q = p + d + 1 + size /\ p + (d + 1 + size) <= Len(out) /\ size \in Nat
    BY <1>2, <1>3, <1>13
  <2>2. Len(Written(c, st)) = size
    BY <1>4, <1>6, <1>7 DEF h
  <2>3. ReadOf(g, v, st) = ReadOf(f, v, st) + (d + 1) + size
    BY <1>4, <1>12, <2>2
  <2> HIDE DEF size
  <2>4. PICK a, b, e, o : a = at[1] /\ b = ReadOf(f, v, st) /\ e = ReadOf(g, v, st) /\ o = Len(out)
    OBVIOUS
  <2>5. a \in Nat /\ b \in Nat /\ o \in Nat /\ p = a + b /\ e = b + (d + 1) + size
    BY <1>5, <1>12, <2>3, <2>4
  <2>6. q = p + d + 1 + size /\ p + (d + 1 + size) <= o /\ size \in Nat /\ d \in {0, 1}
    BY <1>4, <2>1, <2>4
  <2>7. q = a + e /\ q \in Nat /\ q <= o
    BY ONLY <2>5, <2>6
  <2> QED BY <2>4, <2>7
<1>15. Nest(Replaced(stk, g), q, doc, st, low, src, at)
  <2>1. q = at[1] + ReadOf(g, src[1], st) /\ g.key = stk[1].key /\ FrameOK(g, src[1], st, low)
    BY <1>3, <1>4, <1>12, <1>14
  <2> QED BY <1>5, <2>1, NestChanged
<1>16. \E s, a : Nest(stk2, q, doc, strings, lean, s, a)
  BY <1>3, <1>11, <1>13, <1>15 DEF Replaced
<1> QED BY <1>2, <1>13, <1>14, <1>16, StillReading

\* br_read_value: the next member is a container.
LEMMA FrameOpened ==
  ASSUME WriterInv, status = "tree", NEW src, NEW at, NEW v, NEW i, NEW c, MemberAt(src, at, v, i, c),
         NEW f, f.key = Key, FrameOK(f, c, strings, lean),
         UNCHANGED <<writerVars, status, table, wild>>, ReaderInv,
         stack' = <<f>> \o stack,
         pos' = pos + Lead + 1 + ReadOf(f, c, strings), pos' \in Nat, pos' <= Len(out)
  PROVE  ReaderInv'
<1>1. PICK st, low, stk, p, q, stk2, d :
        st = strings /\ low = lean /\ stk = stack /\ p = pos /\ q = pos' /\ stk2 = stack' /\ d = Lead
  OBVIOUS
<1>2. /\ Innermost(src, at) /\ v = src[1] /\ i = NextOf(stk[1], v) /\ c = Child(v, i)
      /\ stk[1].left # Unread /\ stk[1].left # 0 /\ p \in Nat /\ d \in {0, 1}
      /\ Len(LeadOf(v, i, st)) = d + 1 /\ f.key = ReadKey(v, i, st, low)
  BY <1>1 DEF MemberAt
<1>3. st \in Seq(Contents) /\ doc \in Values /\ Nest(stk, p, doc, st, low, src, at)
  BY <1>1, <1>2 DEF Innermost
<1>4. FrameOK(f, c, st, low) /\ q = p + d + 1 + ReadOf(f, c, st)
  BY <1>1
<1>5. ReadOf(f, c, st) \in Nat
  <2>1. c \in Values /\ (f.left # Unread => NextOf(f, c) \in 1 .. Len(Members(c)) + 1)
    BY <1>4, ValuesTyped DEF FrameOK, NextOf
  <2> QED BY <1>3, <2>1, SpotsFollow DEF ReadOf
<1>6. q = p + Len(LeadOf(v, i, st)) + ReadOf(f, c, st)
  BY <1>2, <1>4, <1>5
<1>7. \E src2, at2 : Nest(Pushed(stk, f), q, doc, st, low, src2, at2)
  <2>1. /\ FrameOK(f, Child(src[1], NextOf(stk[1], src[1])), st, low)
        /\ f.key = ReadKey(src[1], NextOf(stk[1], src[1]), st, low)
        /\ q = p + Len(LeadOf(src[1], NextOf(stk[1], src[1]), st))
                 + ReadOf(f, Child(src[1], NextOf(stk[1], src[1])), st)
    BY <1>2, <1>4, <1>6
  <2> QED BY <1>2, <1>3, <2>1, NestOpened
<1>8. stk2 = Pushed(stk, f)
  BY <1>1 DEF Pushed
<1>9. \E src2, at2 : Nest(stk2, q, doc, strings, lean, src2, at2)
  BY <1>1, <1>7, <1>8
<1>10. q \in Nat /\ q <= Len(out)
  BY <1>1
<1> QED BY <1>1, <1>9, <1>10, StillReading

\* br_read_value: the count of an array is the number of its members.
LEMMA OpenArrayKeeps ==
  ASSUME WriterInv, ReaderInv, OpenArray
  PROVE  ReaderInv'
<1>1. PICK src, at, v, i, c : MemberAt(src, at, v, i, c)
  BY MemberAhead DEF OpenArray
<1> DEFINE f == Frame("array", Next1(Lead + 2), Key)
<1>2. /\ status = "tree" /\ status # "collecting" /\ c.type = "array" /\ pos + (Lead + 2) <= Len(out)
      /\ stack' = <<f>> \o stack /\ pos' = pos + Lead + 2
      /\ UNCHANGED <<writerVars, status, table, wild>>
  BY <1>1 DEF OpenArray, InMember, Has, MemberAt
<1>3. PICK st, low, p, d, n : st = strings /\ low = lean /\ p = pos /\ d = Lead /\ n = Len(Members(c))
  OBVIOUS
<1>4. /\ c \in Values /\ IndexedIn(c, st, low) /\ p \in Nat /\ d \in {0, 1} /\ n \in Nat
      /\ Stands(Stream(doc, strings), p + d + 1, HeaderOf(c, st))
      /\ Spot(c, 1, st) = Len(HeaderOf(c, st)) /\ Innermost(src, at) /\ Len(out) \in Nat
  BY <1>1, <1>3, ValuesTyped DEF MemberAt, Innermost
<1> DEFINE h == <<n>>
<1>5. HeaderOf(c, st) = h
  <2>1. c.type # "null" /\ c.type \notin StringTypes /\ c.type \notin ObjectTypes
    BY <1>2 DEF StringTypes, ObjectTypes
  <2> QED BY <1>2, <1>3, <2>1 DEF HeaderOf
<1>6. Len(h) = 1 /\ h[1] = n
  OBVIOUS
<1> HIDE DEF h
<1>7. Next1(Lead + 2) = n
  <2>1. 1 \in 1 .. Len(h) /\ Len(h) \in Nat
    BY <1>6
  <2>2. (p + d + 1) + 1 <= Len(out) /\ p + (d + 2) = (p + d + 1) + 1
    BY <1>2, <1>3, <1>4
  <2>3. Stands(Stream(doc, strings), p + d + 1, h)
    BY <1>4, <1>5
  <2>4. out[(p + d + 1) + 1] = h[1]
    BY <1>2, <2>1, <2>2, <2>3, OutStands
  <2> QED BY <1>3, <1>6, <2>2, <2>4 DEF Next1
<1>8. f = [left |-> n, key |-> Key, node |-> Started(c, 0, st, low)]
  <2>1. Started(c, 0, st, low) = Blank("array")
    BY <1>2, <1>4, StartedBlank
  <2> QED BY <1>7, <2>1 DEF Frame
<1> HIDE DEF f
<1>9. f.left = n /\ f.key = Key /\ f.node = Started(c, 0, st, low)
      /\ f = [left |-> f.left, key |-> f.key, node |-> f.node]
  BY <1>8
<1>10. f.left \in 0 .. n /\ n - f.left = 0 /\ NextOf(f, c) = 1 /\ f.left # Unread
  BY <1>3, <1>4, <1>9, BinaryAssumption DEF NextOf, Unread
<1>11. FrameOK(f, c, st, low)
  BY <1>2, <1>3, <1>4, <1>9, <1>10 DEF FrameOK, Containers
<1>12. ReadOf(f, c, st) = 1
  BY <1>4, <1>5, <1>6, <1>10 DEF ReadOf
<1>13. pos' = pos + Lead + 1 + ReadOf(f, c, strings) /\ pos' \in Nat /\ pos' <= Len(out)
  BY <1>2, <1>3, <1>4, <1>12
<1>14. FrameOK(f, c, strings, lean) /\ f.key = Key
  BY <1>3, <1>9, <1>11
<1> QED BY <1>1, <1>2, <1>13, <1>14, FrameOpened

\* br_read_value: an object is opened before its header was read.
LEMMA OpenObjectKeeps ==
  ASSUME WriterInv, ReaderInv, OpenObject
  PROVE  ReaderInv'
<1>1. PICK src, at, v, i, c : MemberAt(src, at, v, i, c)
  BY MemberAhead DEF OpenObject
<1> DEFINE f == Frame(c.type, Unread, Key)
<1>2. /\ status = "tree" /\ c.type \in ObjectTypes /\ pos + (Lead + 1) <= Len(out)
      /\ stack' = <<f>> \o stack /\ pos' = pos + Lead + 1
      /\ UNCHANGED <<writerVars, status, table, wild>>
  BY <1>1 DEF OpenObject, InMember, Has, MemberAt
<1>3. c \in Values /\ IndexedIn(c, strings, lean) /\ pos \in Nat /\ Lead \in {0, 1} /\ Len(out) \in Nat
  BY <1>1 DEF MemberAt, Innermost
<1>4. f = [left |-> Unread, key |-> Key, node |-> Blank(c.type)]
  BY DEF Frame
<1> HIDE DEF f
<1>5. f.left = Unread /\ f.key = Key /\ f.node = Blank(c.type)
      /\ f = [left |-> f.left, key |-> f.key, node |-> f.node]
  BY <1>4
<1>6. FrameOK(f, c, strings, lean)
  BY <1>2, <1>3, <1>5 DEF FrameOK, Containers, ObjectTypes
<1>7. PICK d : d = Lead
  OBVIOUS
<1>8. pos' = pos + Lead + 1 + ReadOf(f, c, strings) /\ pos' \in Nat /\ pos' <= Len(out)
  <2>1. ReadOf(f, c, strings) = 0
    BY <1>5 DEF ReadOf
  <2> QED BY <1>2, <1>3, <1>7, <2>1
<1> QED BY <1>1, <1>2, <1>5, <1>6, <1>8, FrameOpened

\* A container is complete.
LEMMA CloseContainerKeeps ==
  ASSUME WriterInv, ReaderInv, CloseContainer
  PROVE  ReaderInv'
<1>1. /\ status = "tree" /\ Top.left = 0 /\ Len(stack) > 1 /\ pos' = pos
      /\ UNCHANGED <<writerVars, status, table, wild>>
  BY DEF CloseContainer, AllRead
<1>2. PICK src, at : Innermost(src, at)
  BY <1>1, InnermostKnown
<1>3. PICK st, low, stk, p, stk2 : st = strings /\ low = lean /\ stk = stack /\ p = pos /\ stk2 = stack'
  OBVIOUS
<1>4. /\ st \in Seq(Contents) /\ low \in BOOLEAN /\ FrameOK(stk[1], src[1], st, low) /\ stk[1].left = 0
      /\ Top = stk[1] /\ table = strings /\ Len(stk) > 1 /\ doc \in Values
      /\ Nest(stk, p, doc, st, low, src, at) /\ p \in Nat /\ p <= Len(out)
  <2>1. pos \in Nat /\ pos <= Len(out)
    BY <1>1, OutHolds DEF ReaderInv
  <2> QED BY <1>1, <1>2, <1>3, <2>1 DEF Innermost
<1>5. \E src2, at2 :
        Nest(Merged(stk, Advanced(stk[2], stk[1].key, stk[1].node)), p, doc, st, low, src2, at2)
  BY <1>4, NestClosed
<1>7. stk2 = Merged(stk, Advanced(stk[2], stk[1].key, stk[1].node))
  BY <1>3, <1>4 DEF CloseContainer, Advanced, Merged
<1>8. \E src2, at2 : Nest(stk2, p, doc, strings, lean, src2, at2)
  BY <1>3, <1>5, <1>7
<1>9. p = pos'
  BY <1>1, <1>3
<1> QED BY <1>1, <1>3, <1>4, <1>8, <1>9, StillReading

\* The root object is complete: it is what was written, and so is the stream.
LEMMA ReturnDocumentKeeps ==
  ASSUME WriterInv, ReaderInv, ReturnDocument
  PROVE  ReaderInv'
<1>1. /\ status = "tree" /\ Top.left = 0 /\ Len(stack) = 1 /\ pos' = pos
      /\ status' = "doc" /\ result' = Top.node /\ wild' \in WildFrees /\ table' = <<>> /\ stack' = <<>>
      /\ UNCHANGED writerVars
  BY DEF ReturnDocument, AllRead, FreedTable
<1>2. PICK src, at : Innermost(src, at)
  BY <1>1, InnermostKnown
<1>3. PICK st, low, stk, p, root : st = strings /\ low = lean /\ stk = stack /\ p = pos /\ root = doc
  OBVIOUS
<1>4. /\ st \in Seq(Contents) /\ low \in BOOLEAN /\ FrameOK(stk[1], src[1], st, low) /\ stk[1].left = 0
      /\ Top = stk[1] /\ Len(stk) = 1 /\ root \in Values /\ p = at[1] + ReadOf(stk[1], src[1], st)
      /\ Nest(stk, p, root, st, low, src, at)
  BY <1>1, <1>2, <1>3 DEF Innermost
<1>5. src[1] = root /\ at[1] = RootSpot(st)
  BY <1>4 DEF Nest
<1>6. stk[1].node = Restored(root, st, low) /\ p = RootSpot(st) + Len(Written(root, st))
  BY <1>4, <1>5, FrameComplete
<1>7. p = Len(Stream(root, st))
  BY <1>4, <1>6, StreamLaid
<1>8. result' = Restored(root, st, low)
  BY <1>1, <1>4, <1>6
<1>9. out' = out /\ doc' = root /\ strings' = st /\ lean' = low
  BY <1>1, <1>3 DEF writerVars
<1>10. pos' \in 0 .. Len(out') /\ wild' \in BOOLEAN
  BY <1>1, <1>9 DEF ReaderInv, WildFrees
<1>11. pos' = Len(Stream(doc', strings')) /\ result' = Restored(doc', strings', lean')
  BY <1>1, <1>3, <1>7, <1>8, <1>9
<1> QED BY <1>1, <1>10, <1>11 DEF ReaderInv

\* A failed read gives up all containers and the string table.
LEMMA ReturnNullKeeps ==
  ASSUME WriterInv, ReaderInv, ReturnNull
  PROVE  ReaderInv'
BY DEF ReaderInv, ReturnNull, WildFrees, FreedTable, writerVars

\* While it is written, nothing is read.
LEMMA WriteKeepsReader ==
  ASSUME WriterInv, ReaderInv, Write, WriterInv'
  PROVE  ReaderInv'
<1>1. /\ status \in {"collecting", "writing"} /\ status' \in {"collecting", "writing", "magic"}
      /\ pos' = pos /\ table' = table /\ stack' = stack /\ wild' = wild
  BY DEF Write, Collect, StartWriting, WriteItem, Reopen
<1>2. Len(out') \in Nat
  BY DEF WriterInv
<1> QED BY <1>1, <1>2 DEF ReaderInv

\* The reader's invariant speaks of the variables only.
LEMMA StutterKeepsReader ==
  ASSUME ReaderInv, UNCHANGED vars
  PROVE  ReaderInv'
<1>1. /\ doc' = doc /\ lean' = lean /\ strings' = strings /\ out' = out /\ status' = status /\ pos' = pos
      /\ table' = table /\ stack' = stack /\ result' = result /\ wild' = wild
  BY DEF vars
<1>2. Opened(stack, pos)' <=> Opened(stack, pos)
  BY <1>1 DEF Opened
<1>3. (\E k \in 0 .. Len(strings) : pos = StringSpot(strings, k + 1) /\ table = PartTable(k))'
        <=> \E k \in 0 .. Len(strings) : pos = StringSpot(strings, k + 1) /\ table = PartTable(k)
  BY <1>1 DEF PartTable
<1> QED BY <1>1, <1>2, <1>3 DEF ReaderInv

\* Together they are inductive.
LEMMA ReaderSound == Spec => [](WriterInv /\ ReaderInv)
<1>1. Init => WriterInv
  BY WriterStarts
<1>2. Init => ReaderInv
  <2> SUFFICES ASSUME Init  PROVE ReaderInv
    OBVIOUS
  <2>1. status = "collecting" /\ pos = 0 /\ wild = FALSE /\ stack = <<>> /\ table = <<>> /\ out = <<>>
    BY DEF Init
  <2>2. 0 \in 0 .. Len(out)
    BY <2>1
  <2> QED BY <2>1, <2>2 DEF ReaderInv
<1>3. WriterInv /\ [Next]_vars => WriterInv'
  BY CollectKeeps, StartWritingKeeps, WriteItemKeeps, ReadKeepsWriter DEF Next, Write
<1>4. WriterInv /\ ReaderInv /\ [Next]_vars => ReaderInv'
  <2> SUFFICES ASSUME WriterInv, ReaderInv, [Next]_vars  PROVE ReaderInv'
    OBVIOUS
  <2>1. CASE Write
    BY <1>3, <2>1, WriteKeepsReader
  <2>2. CASE Read
    BY <2>2, ReadMagicKeeps, ReadCountKeeps, ReadStringKeeps, ReadRootKeeps, ReadHeaderKeeps,
       ReadPlainKeeps, OpenArrayKeeps, OpenObjectKeeps, CloseContainerKeeps, ReturnDocumentKeeps,
       ReturnNullKeeps DEF Read
  <2>3. CASE UNCHANGED vars
    BY <2>3, StutterKeepsReader
  <2> QED BY <2>1, <2>2, <2>3 DEF Next
<1> QED BY <1>1, <1>2, <1>3, <1>4, PTL DEF Spec

\* Types, bounds and lifetimes; a read never gets past the end of the stream
\* (kdf_binary_reader.c:11-31, 63-107).
THEOREM TypeCorrect == Spec => []TypeOK
<1>1. WriterInv /\ ReaderInv => TypeOK
  <2> SUFFICES ASSUME WriterInv, ReaderInv  PROVE TypeOK
    OBVIOUS
  <2>1. /\ status \in {"collecting", "writing", "magic", "count", "strings", "tree", "doc", "null"}
        /\ werror \in {"ok", "io"} /\ wild \in BOOLEAN /\ pos \in 0 .. Len(out)
        /\ status \in {"doc", "null"} => table = <<>>
        /\ stack # <<>> <=> status = "tree"
        /\ strings \in Seq(Contents)
    BY DEF WriterInv, ReaderInv
  <2>2. Range(table) \subseteq Contents \cup {Junk}
    <3>1. CASE status \notin {"strings", "tree"}
      <4>1. table = <<>> /\ DOMAIN <<>> = {}
        BY <3>1 DEF ReaderInv
      <4> QED BY <4>1 DEF Range
    <3>2. CASE status = "strings"
      <4>1. PICK k : table = PartTable(k)
        BY <3>2 DEF ReaderInv
      <4>2. \A i \in DOMAIN table : table[i] \in Contents \cup {Junk}
        BY <2>1, <4>1 DEF PartTable
      <4> QED BY <4>2 DEF Range
    <3>3. CASE status = "tree"
      <4>1. \A i \in DOMAIN table : table[i] \in Contents
        BY <2>1, <3>3 DEF ReaderInv
      <4> QED BY <4>1 DEF Range
    <3> QED BY <3>1, <3>2, <3>3
  <2>3. ASSUME NEW i \in DOMAIN stack  PROVE stack[i].left \in Nat \cup {Unread}
    <3>1. status = "tree"
      <4>1. stack # <<>>
        BY <2>3
      <4> QED BY <2>1, <4>1
    <3>2. PICK src, at : Nest(stack, pos, doc, strings, lean, src, at)
      BY <3>1 DEF ReaderInv, Opened
    <3>3. stack \in Seq(Range(stack)) /\ \A k \in 1 .. Len(stack) : FrameOK(stack[k], src[k], strings, lean)
      BY <3>2 DEF Nest
    <3>4. FrameOK(stack[i], src[i], strings, lean)
      BY <3>3
    <3> QED BY <3>4 DEF FrameOK
  <2> QED BY <2>1, <2>2, <2>3 DEF TypeOK
<1> QED BY <1>1, ReaderSound, PTL

\* However a write failed, what came of the stream is not read as a document:
\* the reader asks for all of it (kdf_binary_reader.c:407-459).
THEOREM TornRefused == Spec => []TornStreamRefused
<1>1. WriterInv /\ ReaderInv => TornStreamRefused
  <2> SUFFICES ASSUME WriterInv, ReaderInv, status = "doc"  PROVE werror = "ok"
    BY DEF TornStreamRefused
  <2>1. pos = Len(Stream(doc, strings)) /\ pos \in 0 .. Len(out)
    BY DEF ReaderInv
  <2> QED BY <2>1, OutHolds
<1> QED BY <1>1, ReaderSound, PTL

\* What was written as a whole is read as what it was: for every document, and
\* whichever strings found no room (kdf_binary_writer.c:85-315,
\* kdf_binary_reader.c:63-459).
THEOREM RoundTrips == Spec => []RoundTrip
<1>1. WriterInv /\ ReaderInv => RoundTrip
  <2> SUFFICES ASSUME WriterInv, ReaderInv, status = "doc", werror = "ok"
               PROVE  out = Stream(doc, strings) /\ result = Restored(doc, strings, lean)
    BY DEF RoundTrip
  <2>1. todo = <<>> /\ result = Restored(doc, strings, lean)
    BY DEF WriterInv, ReaderInv
  <2> QED BY <2>1, OutHolds
<1> QED BY <1>1, ReaderSound, PTL

-----------------------------------------------------------------------------
(* When what is restored is just what was written. *)

\* v has nothing that the format cannot hold: no string or container that is
\* NULL, and no two properties of one key.
Intact(v) ==
  /\ v.type \in StringTypes => v.lit # NULL
  /\ v.type \in Containers => v.members # NULL
  /\ v.type \in ObjectTypes =>
       \A i \in 1 .. Len(Members(v)) :
         KeyOf(v, i) # NULL /\ \A j \in 1 .. i - 1 : KeyOf(v, j) # KeyOf(v, i)
\* W is a set of such values, closed under members.
Whole(W) == \A v \in W : Intact(v) /\ \A i \in 1 .. Len(Members(v)) : Child(v, i) \in W

\* A member with a new key comes last.
LEMMA PutNew ==
  ASSUME NEW K, NEW m \in Seq(K), NEW key, NEW x, [key |-> key, value |-> x] \in K,
         \A i \in 1 .. Len(m) : m[i].key # key
  PROVE  Put(m, key, x) = Append(m, [key |-> key, value |-> x])
BY DEF Put

\* The members of a container are put back one after the other.
LEMMA FilledSame ==
  ASSUME NEW st, NEW v \in Values, v.type \in Containers, Intact(v), NEW below,
         Len(below) = Len(Members(v)), \A i \in 1 .. Len(Members(v)) : below[i] = Child(v, i)
  PROVE  Filled(v, st, FALSE, below, Len(below)) = Members(v)
<1> DEFINE n == Len(Members(v))
           m == Members(v)
           K == [key : Contents \cup {NULL}, value : Values]
<1>1. m \in Seq(K) /\ n \in Nat /\ Len(below) = n /\ Len(m) = n
  BY ValuesTyped
<1>2. \A i \in 1 .. n : /\ m[i] = [key |-> KeyOf(v, i), value |-> below[i]] /\ m[i] \in K
                        /\ KeyOf(v, i) \in Contents \cup {NULL}
  <2>1. \A k \in K : k = [key |-> k.key, value |-> k.value] /\ k.key \in Contents \cup {NULL}
    OBVIOUS
  <2> HIDE DEF K
  <2>2. \A i \in 1 .. n : m[i] \in K
    BY <1>1
  <2> QED BY <2>1, <2>2 DEF KeyOf, Child
<1> HIDE DEF K
<1>3. CASE v.type = "array"
  <2>1. \A i \in 1 .. n : KeyOf(v, i) = NULL
    <3>1. v.type \notin PlainTypes
      BY <1>3 DEF PlainTypes, Containers
    <3>2. ContainerOK(v)
      BY <3>1, ValuesTyped
    <3>3. DOMAIN m = 1 .. n
      BY <1>1
    <3> QED BY <1>3, <3>2, <3>3 DEF ContainerOK, KeyOf
  <2>2. Filled(v, st, FALSE, below, n) = [i \in 1 .. n |-> [key |-> NULL, value |-> below[i]]]
    BY <1>3 DEF Filled
  <2>3. [i \in 1 .. n |-> [key |-> NULL, value |-> below[i]]] = [i \in 1 .. n |-> m[i]]
    BY <1>2, <2>1
  <2>4. m = [i \in 1 .. n |-> m[i]]
    BY <1>1
  <2> QED BY <1>1, <2>2, <2>3, <2>4
<1>4. CASE v.type # "array"
  <2>0. v.type \in ObjectTypes
    BY <1>4 DEF Containers
  <2>1. /\ Filled(v, st, FALSE, below, 0) = <<>>
        /\ \A i \in 1 .. n : Filled(v, st, FALSE, below, i)
             = Put(Filled(v, st, FALSE, below, i - 1), Kept(KeyOf(v, i), st, FALSE), below[i])
    <3>1. Len(below) \in Nat
      BY <1>1
    <3>2. Filled(v, st, FALSE, below, 0) = <<>> /\ FilledFrom(v, st, FALSE, below)
      BY <1>4, <3>1, FilledByOne
    <3> QED BY <1>1, <3>2 DEF FilledFrom
  <2> DEFINE F(i) == Filled(v, st, FALSE, below, i)
             S == {k \in Nat : k <= n => /\ F(k) \in Seq(K) /\ Len(F(k)) = k
                                         /\ \A j \in 1 .. k : F(k)[j] = m[j]}
  <2>2. 0 .. n \subseteq S
    <3>1. 0 \in S
      <4>1. <<>> \in Seq(K) /\ Len(<<>>) = 0
        OBVIOUS
      <4>2. PICK s : s = F(0) /\ s = <<>>
        BY <2>1
      <4>3. \A j \in 1 .. 0 : s[j] = m[j]
        OBVIOUS
      <4>4. s \in Seq(K) /\ Len(s) = 0 /\ \A j \in 1 .. 0 : s[j] = m[j]
        BY ONLY <4>1, <4>2, <4>3
      <4>5. F(0) \in Seq(K) /\ Len(F(0)) = 0 /\ \A j \in 1 .. 0 : F(0)[j] = m[j]
        BY <4>2, <4>4
      <4> HIDE DEF F
      <4> QED BY <4>5
    <3>2. ASSUME NEW k \in 0 .. n - 1, k \in S  PROVE k + 1 \in S
      <4>1. k \in Nat /\ k <= n /\ k + 1 \in 1 .. n /\ (k + 1) - 1 = k
        BY <1>1
      <4>2. PICK s : s = F(k)
        OBVIOUS
      <4>3. s \in Seq(K) /\ Len(s) = k /\ \A j \in 1 .. k : s[j] = m[j]
        BY <3>2, <4>1, <4>2
      <4>4. PICK key, x : key = KeyOf(v, k + 1) /\ x = below[k + 1]
        OBVIOUS
      <4>5. m[k + 1] = [key |-> key, value |-> x] /\ m[k + 1] \in K /\ key # NULL
        BY <1>2, <2>0, <4>1, <4>4 DEF Intact
      <4>6. \A j \in 1 .. k : s[j].key # key
        BY <2>0, <4>1, <4>3, <4>4 DEF Intact, KeyOf
      <4>7. F(k + 1) = Put(s, key, x)
        BY <2>1, <4>1, <4>2, <4>4, <4>5 DEF Kept
      <4>8. Put(s, key, x) = Append(s, m[k + 1])
        BY <4>3, <4>5, <4>6, PutNew
      <4>9. PICK t : t = Append(s, m[k + 1])
        OBVIOUS
      <4>10. /\ t \in Seq(K) /\ Len(t) = k + 1 /\ \A j \in 1 .. k : t[j] = s[j]
             /\ t[k + 1] = m[k + 1]
        <5>1. PICK y : y = m[k + 1]
          OBVIOUS
        <5>2. Append(s, y) \in Seq(K) /\ Len(Append(s, y)) = Len(s) + 1
              /\ (\A j \in 1 .. Len(s) : Append(s, y)[j] = s[j]) /\ Append(s, y)[Len(s) + 1] = y
          BY <4>3, <4>5, <5>1, Appended
        <5> QED BY <4>3, <4>9, <5>1, <5>2
      <4>11. \A j \in 1 .. k + 1 : j = k + 1 \/ j \in 1 .. k
        BY <4>1
      <4>12. F(k + 1) = t
        BY <4>7, <4>8, <4>9
      <4> HIDE DEF F
      <4> QED BY <4>1, <4>3, <4>10, <4>11, <4>12
    <3> HIDE DEF S
    <3> QED BY <1>1, <3>1, <3>2, InductionUpTo
  <2>3. F(n) \in Seq(K) /\ Len(F(n)) = n /\ \A j \in 1 .. n : F(n)[j] = m[j]
    <3>1. n \in 0 .. n /\ n <= n
      BY <1>1
    <3> HIDE DEF F
    <3> QED BY <2>2, <3>1
  <2>4. PICK s : s = F(n)
    OBVIOUS
  <2>5. s = m
    <3>1. PICK t : t = m
      OBVIOUS
    <3>2. s \in Seq(K) /\ t \in Seq(K) /\ Len(s) = Len(t) /\ \A j \in 1 .. Len(s) : s[j] = t[j]
      BY <1>1, <2>3, <2>4, <3>1
    <3> QED BY <3>1, <3>2, SeqEqual
  <2> QED BY <1>1, <2>4, <2>5
<1> QED BY <1>3, <1>4

\* By induction on the depth, whole values are restored as they were.
LEMMA RestoredSame ==
  ASSUME NEW st, NEW W \in SUBSET Values, Whole(W)
  PROVE  \A v \in W : Restored(v, st, FALSE) = v
<1> DEFINE S == {d \in Nat : \A v \in W : Depth[v] < d => Restored(v, st, FALSE) = v}
<1>0. \A v \in W : v \in Values /\ Depth[v] \in Nat
  BY MembersBelow
<1>1. Nat \subseteq S
  <2>1. 0 \in S
    <3>1. \A v \in W : ~ (Depth[v] < 0)
      <4>1. \A n \in Nat : ~ (n < 0)
        OBVIOUS
      <4> QED BY <1>0, <4>1
    <3> QED BY <3>1
  <2>2. ASSUME NEW d \in Nat, d \in S  PROVE d + 1 \in S
    <3>1. ASSUME NEW v \in W, Depth[v] < d + 1  PROVE Restored(v, st, FALSE) = v
      <4>1. \A i \in 1 .. Len(Members(v)) : Child(v, i) \in W /\ Depth[Child(v, i)] < d
        <5>1. \A i \in 1 .. Len(Members(v)) : Child(v, i) \in Values /\ Depth[Child(v, i)] < Depth[v]
          BY MembersBelow, ValuesTyped DEF Child
        <5>2. \A u \in Values : Depth[u] \in Nat
          BY MembersBelow
        <5>3. v \in Values /\ \A i \in 1 .. Len(Members(v)) : Child(v, i) \in W
          BY DEF Whole
        <5> QED BY <3>1, <5>1, <5>2, <5>3
      <4>2. \A i \in 1 .. Len(Members(v)) : Restored(Child(v, i), st, FALSE) = Child(v, i)
        BY <2>2, <4>1
      <4>3. v \in Values /\ Intact(v)
        BY DEF Whole
      <4>4. CASE v.type \in Containers
        <5>1. v = [type |-> v.type, name |-> v.name, version |-> v.version, members |-> v.members]
              /\ Members(v) = v.members
          BY <4>3, <4>4, ValuesTyped DEF ContainerOK, Members, Intact, PlainTypes
        <5> DEFINE below == Rebuilds(v, st, FALSE)
        <5>2. DOMAIN Members(v) = 1 .. Len(Members(v)) /\ Len(Members(v)) \in Nat
          BY <4>3, ValuesTyped
        <5>3. Len(below) = Len(Members(v)) /\ \A i \in 1 .. Len(Members(v)) : below[i] = Restored(Child(v, i), st, FALSE)
          BY <5>2 DEF Rebuilds
        <5> HIDE DEF below
        <5>4. Len(below) = Len(Members(v)) /\ \A i \in 1 .. Len(Members(v)) : below[i] = Child(v, i)
          BY <4>2, <5>3
        <5>5. PICK low, b : low = FALSE /\ b = below
          OBVIOUS
        <5>6. /\ v \in Values /\ v.type \in Containers /\ Intact(v) /\ Len(b) = Len(Members(v))
              /\ \A i \in 1 .. Len(Members(v)) : b[i] = Child(v, i)
          BY <4>3, <4>4, <5>4, <5>5
        <5>7. Filled(v, st, FALSE, b, Len(b)) = Members(v)
          BY <5>6, FilledSame
        <5>8. Filled(v, st, FALSE, below, Len(Members(v))) = v.members
          BY <5>1, <5>5, <5>6, <5>7
        <5>9. Restored(v, st, FALSE) = Started(v, Len(Members(v)), st, FALSE)
          BY <4>3, <4>4, RestoredContainer
        <5> QED BY <5>1, <5>8, <5>9 DEF Started, KeptName, below
      <4>5. CASE v.type \notin Containers
        <5>1. v.type \in PlainTypes /\ v = [type |-> v.type, lit |-> v.lit]
          BY <4>3, <4>5, ValuesTyped DEF PlainTypes, PlainOK
        <5>2. v.type \in StringTypes => Kept(v.lit, st, FALSE) = v.lit
          BY <4>3 DEF Intact, Kept
        <5>3. Restored(v, st, FALSE)
                = [type |-> v.type, lit |-> IF v.type \in StringTypes THEN Kept(v.lit, st, FALSE) ELSE v.lit]
          <6>1. v \in Values /\ v.type \in PlainTypes
            BY <4>3, <5>1
          <6>2. PICK low : low = FALSE
            OBVIOUS
          <6>3. Restored(v, st, low)
                  = [type |-> v.type, lit |-> IF v.type \in StringTypes THEN Kept(v.lit, st, low) ELSE v.lit]
            BY <6>1, RestoredPlain
          <6> QED BY <6>2, <6>3
        <5>4. Restored(v, st, FALSE) = [type |-> v.type, lit |-> v.lit]
          BY <5>2, <5>3
        <5> QED BY <5>1, <5>4
      <4> QED BY <4>4, <4>5
    <3>2. d + 1 \in Nat
      OBVIOUS
    <3> QED BY <3>1, <3>2
  <2> HIDE DEF S
  <2> QED BY <2>1, <2>2, Induction
<1>2. \A v \in W : Depth[v] + 1 \in Nat /\ Depth[v] < Depth[v] + 1
  BY MembersBelow
<1> QED BY <1>1, <1>2

\* A document in which nothing is NULL and no key occurs twice is given back as
\* it was, value for value and in the same order, unless the table of the
\* writer could not grow (kdf_binary_writer.c:48-83, kdf_binary_reader.c:109-140).
THEOREM DocumentGivenBack ==
  ASSUME NEW W \in SUBSET Values, Whole(W)
  PROVE  Spec => [](status = "doc" /\ ~ lean /\ doc \in W => result = doc)
<1> DEFINE GivenBack == status = "doc" /\ ~ lean /\ doc \in W => result = doc
<1>1. WriterInv /\ ReaderInv => GivenBack
  <2> SUFFICES ASSUME WriterInv, ReaderInv, status = "doc", ~ lean, doc \in W  PROVE result = doc
    OBVIOUS
  <2>1. result = Restored(doc, strings, lean) /\ lean = FALSE
    BY DEF ReaderInv, WriterInv
  <2>2. PICK st, v : st = strings /\ v = doc
    OBVIOUS
  <2>3. Restored(v, st, FALSE) = v
    BY <2>2, RestoredSame
  <2> QED BY <2>1, <2>2, <2>3
<1> HIDE DEF GivenBack
<1>2. Spec => []GivenBack
  BY <1>1, ReaderSound, PTL
<1> QED BY <1>2 DEF GivenBack
=============================================================================
