---------------------------- MODULE CommonProofs ----------------------------
(***************************************************************************)
(* Facts that the proofs about several components rest on: induction, the  *)
(* parts of sequences, and walks over lists whose nodes are numbered       *)
(* monotonically, as the blocks of kdf_object and of the string pool are.  *)
(***************************************************************************)
EXTENDS LinkedList, SequencesExt, SequenceTheorems, FiniteSetTheorems, TLAPS

\* A finite nonempty set of numbers has a greatest element.
LEMMA HasMax ==
  ASSUME NEW S \in SUBSET Int, IsFiniteSet(S), S # {}
  PROVE  \E x \in S : \A y \in S : y <= x
<1> DEFINE Above(x) == {y \in S : y > x}
           T == {Above(x) : x \in S}
           R == StrictSubsetOrdering(S)
<1>1. T \subseteq FiniteSubsetsOf(S)
  BY FS_Subset DEF FiniteSubsetsOf
<1>2. T # {}
  OBVIOUS
<1>3. \E U \in T : \A V \in T : <<V, U>> \notin R
  <2>1. IsWellFoundedOn(R, FiniteSubsetsOf(S))
    BY FS_StrictSubsetOrderingWellFounded
  <2> HIDE DEF T, R
  <2> QED BY <2>1, <1>1, <1>2, WFMin
<1>4. PICK x \in S : \A y \in S : <<Above(y), Above(x)>> \notin R
  BY <1>3
<1>5. ASSUME NEW y \in S, y > x  PROVE FALSE
  <2>1. x \in Int /\ y \in Int /\ \A z \in S : z \in Int
    OBVIOUS
  <2>2. \A z \in S : z > y => z > x
    BY <2>1, <1>5
  <2>3. Above(y) \subseteq Above(x)
    BY <2>2
  <2>4. y \in Above(x) /\ y \notin Above(y)
    BY <2>1, <1>5
  <2> QED BY <2>3, <2>4, <1>4 DEF StrictSubsetOrdering
<1> QED BY <1>5

\* A finite nonempty set of numbers has a least element.
LEMMA HasMin ==
  ASSUME NEW S \in SUBSET Int, IsFiniteSet(S), S # {}
  PROVE  \E x \in S : \A y \in S : x <= y
<1> DEFINE Below(x) == {y \in S : y < x}
           T == {Below(x) : x \in S}
           R == StrictSubsetOrdering(S)
<1>1. T \subseteq FiniteSubsetsOf(S)
  BY FS_Subset DEF FiniteSubsetsOf
<1>2. T # {}
  OBVIOUS
<1>3. \E U \in T : \A V \in T : <<V, U>> \notin R
  <2>1. IsWellFoundedOn(R, FiniteSubsetsOf(S))
    BY FS_StrictSubsetOrderingWellFounded
  <2> HIDE DEF T, R
  <2> QED BY <2>1, <1>1, <1>2, WFMin
<1>4. PICK x \in S : \A y \in S : <<Below(y), Below(x)>> \notin R
  BY <1>3
<1>5. ASSUME NEW y \in S, y < x  PROVE FALSE
  <2>1. x \in Int /\ y \in Int /\ \A z \in S : z \in Int
    OBVIOUS
  <2>2. \A z \in S : z < y => z < x
    BY <2>1, <1>5
  <2>3. Below(y) \subseteq Below(x)
    BY <2>2
  <2>4. y \in Below(x) /\ y \notin Below(y)
    BY <2>1, <1>5
  <2> QED BY <2>3, <2>4, <1>4 DEF StrictSubsetOrdering
<1> QED BY <1>5

\* Induction over numbers, for sets instead of predicates.
LEMMA Induction ==
  ASSUME NEW S, 0 \in S, \A k \in Nat : k \in S => k + 1 \in S
  PROVE  Nat \subseteq S
<1> SUFFICES ASSUME NEW n \in Nat, n \notin S  PROVE FALSE
  OBVIOUS
<1> DEFINE N == {k \in 0 .. n : k \notin S}
<1>1. N \in SUBSET Int /\ N # {} /\ IsFiniteSet(N)
  <2>1. IsFiniteSet(0 .. n)
    BY FS_Interval
  <2> QED BY <2>1, FS_Subset
<1>2. PICK x \in N : \A y \in N : x <= y
  BY <1>1, HasMin
<1>3. x \in Nat /\ x # 0 /\ x - 1 \in Nat /\ x - 1 \in 0 .. n /\ ~ (x <= x - 1)
  BY <1>2
<1>4. x - 1 \in S
  BY <1>2, <1>3
<1> QED BY <1>2, <1>3, <1>4

\* The same over the numbers up to n.
LEMMA InductionUpTo ==
  ASSUME NEW n \in Nat, NEW S, 0 \in S, \A k \in 0 .. n - 1 : k \in S => k + 1 \in S
  PROVE  0 .. n \subseteq S
<1> DEFINE T == {k \in Nat : k <= n => k \in S}
<1>1. 0 \in T
  OBVIOUS
<1>2. \A k \in Nat : k \in T => k + 1 \in T
  OBVIOUS
<1> HIDE DEF T
<1>3. Nat \subseteq T
  BY <1>1, <1>2, Induction
<1> QED BY <1>3 DEF T

-----------------------------------------------------------------------------
(* Sequences. *)

\* Two sequences, one behind the other.
LEMMA Concatenated ==
  ASSUME NEW X, NEW s \in Seq(X), NEW t \in Seq(X)
  PROVE  /\ s \o t \in Seq(X) /\ Len(s \o t) = Len(s) + Len(t)
         /\ Len(s) \in Nat /\ Len(t) \in Nat /\ Len(s \o t) \in Nat
         /\ \A j \in 1 .. Len(s) : (s \o t)[j] = s[j]
         /\ \A j \in 1 .. Len(t) : (s \o t)[Len(s) + j] = t[j]
  OBVIOUS

\* A sequence is its head and its tail.
LEMMA HeadAndTail ==
  ASSUME NEW X, NEW s \in Seq(X), s # <<>>
  PROVE  /\ Head(s) \in X /\ Tail(s) \in Seq(X) /\ Len(s) = Len(Tail(s)) + 1
         /\ Len(Tail(s)) \in Nat /\ Range(s) = {Head(s)} \cup Range(Tail(s))
<1>1. Head(s) = s[1] /\ Tail(s) \in Seq(X) /\ Len(s) \in Nat /\ Len(s) >= 1 /\ Len(Tail(s)) = Len(s) - 1
      /\ \A i \in 1 .. Len(s) - 1 : Tail(s)[i] = s[i + 1]
  OBVIOUS
<1>2. DOMAIN s = 1 .. Len(s) /\ DOMAIN Tail(s) = 1 .. Len(s) - 1 /\ 1 \in 1 .. Len(s)
  BY <1>1
<1>3. \A x : x \in Range(s) <=> \E i \in 1 .. Len(s) : x = s[i]
  BY <1>2 DEF Range
<1>4. \A x : x \in Range(Tail(s)) <=> \E i \in 1 .. Len(s) - 1 : x = s[i + 1]
  BY <1>1, <1>2 DEF Range
<1>5. \A i \in 1 .. Len(s) : i = 1 \/ (i - 1 \in 1 .. Len(s) - 1 /\ (i - 1) + 1 = i)
  BY <1>1
<1>6. \A i \in 1 .. Len(s) - 1 : i + 1 \in 1 .. Len(s)
  BY <1>1
<1>7. Range(s) = {Head(s)} \cup Range(Tail(s))
  <2>1. ASSUME NEW x \in Range(s)  PROVE x = Head(s) \/ x \in Range(Tail(s))
    <3>1. PICK i \in 1 .. Len(s) : x = s[i]
      BY <1>3, <2>1
    <3> QED BY <1>1, <1>4, <1>5, <3>1
  <2>2. ASSUME NEW x \in Range(Tail(s))  PROVE x \in Range(s)
    BY <1>3, <1>4, <1>6, <2>2
  <2>3. Head(s) \in Range(s)
    BY <1>1, <1>2, <1>3
  <2> QED BY <2>1, <2>2, <2>3
<1> QED BY <1>1, <1>2, <1>7

\* A sequence with one more element.
LEMMA Appended ==
  ASSUME NEW X, NEW s \in Seq(X), NEW x \in X
  PROVE  /\ Append(s, x) \in Seq(X) /\ Len(Append(s, x)) = Len(s) + 1 /\ Len(s) \in Nat
         /\ \A i \in 1 .. Len(s) : Append(s, x)[i] = s[i]
         /\ Append(s, x)[Len(s) + 1] = x
         /\ Range(Append(s, x)) = Range(s) \cup {x}
<1>1. /\ Append(s, x) \in Seq(X) /\ Len(Append(s, x)) = Len(s) + 1 /\ Len(s) \in Nat
      /\ \A i \in 1 .. Len(s) : Append(s, x)[i] = s[i]
      /\ Append(s, x)[Len(s) + 1] = x
      /\ DOMAIN s = 1 .. Len(s) /\ DOMAIN Append(s, x) = 1 .. Len(s) + 1
  OBVIOUS
<1>2. \A i \in 1 .. Len(s) + 1 : i \in 1 .. Len(s) \/ i = Len(s) + 1
  BY <1>1
<1>3. \A i \in 1 .. Len(s) : i \in 1 .. Len(s) + 1
  BY <1>1
<1>4. Len(s) + 1 \in 1 .. Len(s) + 1
  BY <1>1
<1>5. Range(Append(s, x)) = Range(s) \cup {x}
  BY <1>1, <1>2, <1>3, <1>4 DEF Range
<1> QED BY <1>1, <1>5

\* s is a beginning of t.
Begins(s, t) == Len(s) <= Len(t) /\ \A i \in 1 .. Len(s) : s[i] = t[i]

\* Beginnings of sequences, element by element.
LEMMA BeginsIsPrefix ==
  ASSUME NEW X, NEW s \in Seq(X), NEW t \in Seq(X), Begins(s, t)
  PROVE  IsPrefix(s, t)
<1>1. /\ SubSeq(s, 1, Len(s)) \in Seq(X) /\ SubSeq(t, 1, Len(s)) \in Seq(X)
      /\ Len(SubSeq(s, 1, Len(s))) = Len(s) /\ Len(SubSeq(t, 1, Len(s))) = Len(s)
      /\ \A i \in 1 .. Len(s) : SubSeq(s, 1, Len(s))[i] = s[i]
      /\ \A i \in 1 .. Len(s) : SubSeq(t, 1, Len(s))[i] = t[i]
  BY DEF Begins
<1>2. SubSeq(s, 1, Len(s)) = SubSeq(t, 1, Len(s))
  BY <1>1, SeqEqual DEF Begins
<1> QED BY <1>2 DEF IsPrefix, Begins

\* A sequence is a beginning of itself with another behind it.
LEMMA BeginsConcat ==
  ASSUME NEW X, NEW s \in Seq(X), NEW t \in Seq(X)
  PROVE  Begins(s, s \o t) /\ Len(s \o t) = Len(s) + Len(t) /\ Len(s) \in Nat /\ Len(t) \in Nat
<1>1. /\ Len(s \o t) = Len(s) + Len(t) /\ Len(s) \in Nat /\ Len(t) \in Nat
      /\ \A j \in 1 .. Len(s) : (s \o t)[j] = s[j]
  BY Concatenated
<1> DEFINE u == s \o t
<1> HIDE DEF u
<1>2. Begins(s, u)
  BY <1>1 DEF Begins, u
<1> QED BY <1>1, <1>2 DEF u

\* The parts of a flattened sequence, and where they are.
Layout(seqs, all, at) ==
  /\ at \in [1 .. Len(seqs) + 1 -> Nat] /\ at[1] = 0 /\ at[Len(seqs) + 1] = Len(all)
  /\ \A i \in 1 .. Len(seqs) :
       /\ at[i + 1] = at[i] + Len(seqs[i])
       /\ \A j \in 1 .. Len(seqs[i]) : all[at[i] + j] = seqs[i][j]

\* The flattened sequence has each part in its place.
LEMMA Flattened ==
  ASSUME NEW X, NEW seqs \in Seq(Seq(X))
  PROVE  FlattenSeq(seqs) \in Seq(X) /\ \E at : Layout(seqs, FlattenSeq(seqs), at)
<1> DEFINE n == Len(seqs)
           Flat(f, k) == \A i \in 1 .. k : f[i] = IF i = 1 THEN seqs[i] ELSE f[i - 1] \o seqs[i]
           S == {k \in Nat : \E f \in [1 .. k -> Seq(X)] : Flat(f, k)}
<1>0. n \in Nat /\ \A i \in 1 .. n : seqs[i] \in Seq(X)
  OBVIOUS
<1>1. CASE n = 0
  <2>1. FlattenSeq(seqs) = <<>> /\ seqs = <<>>
    BY <1>1 DEF FlattenSeq
  <2>2. Layout(seqs, <<>>, [i \in 1 .. 1 |-> 0])
    BY <2>1 DEF Layout
  <2> QED BY <2>1, <2>2
<1>2. CASE n # 0
  <2>1. 0 .. n \subseteq S
    <3>1. 0 \in S
      <4>1. [i \in 1 .. 0 |-> <<>>] \in [1 .. 0 -> Seq(X)]
        OBVIOUS
      <4>2. Flat([i \in 1 .. 0 |-> <<>>], 0)
        OBVIOUS
      <4> HIDE DEF Flat
      <4> QED BY <4>1, <4>2
    <3>2. ASSUME NEW k \in 0 .. n - 1, k \in S  PROVE k + 1 \in S
      <4>1. PICK f \in [1 .. k -> Seq(X)] : Flat(f, k)
        BY <3>2
      <4> DEFINE g == [i \in 1 .. k + 1 |-> IF i \in 1 .. k THEN f[i]
                         ELSE IF i = 1 THEN seqs[i] ELSE f[i - 1] \o seqs[i]]
      <4>2. g \in [1 .. k + 1 -> Seq(X)]
        <5>1. \A i \in 1 .. k + 1 : i \notin 1 .. k => i = k + 1 /\ i \in 1 .. n
          BY <1>0
        <5> QED BY <1>0, <5>1
      <4>3. Flat(g, k + 1)
        <5> SUFFICES ASSUME NEW i \in 1 .. k + 1
                     PROVE  g[i] = IF i = 1 THEN seqs[i] ELSE g[i - 1] \o seqs[i]
          OBVIOUS
        <5>1. i # 1 => i - 1 \in 1 .. k /\ g[i - 1] = f[i - 1]
          OBVIOUS
        <5>2. i \in 1 .. k => g[i] = f[i]
          OBVIOUS
        <5>3. i \notin 1 .. k => g[i] = IF i = 1 THEN seqs[i] ELSE f[i - 1] \o seqs[i]
          OBVIOUS
        <5> QED BY <4>1, <5>1, <5>2, <5>3
      <4>4. k + 1 \in Nat
        OBVIOUS
      <4> HIDE DEF g, Flat
      <4> QED BY <4>2, <4>3, <4>4
    <3> HIDE DEF S
    <3> QED BY <1>0, <3>1, <3>2, InductionUpTo
  <2> DEFINE F == CHOOSE f : f = [i \in 1 .. n |-> IF i = 1 THEN seqs[i] ELSE f[i - 1] \o seqs[i]]
  <2>2. PICK f \in [1 .. n -> Seq(X)] : Flat(f, n)
    <3>1. n \in 0 .. n
      BY <1>0
    <3> HIDE DEF Flat
    <3> QED BY <2>1, <3>1
  <2>3. f = [i \in 1 .. n |-> IF i = 1 THEN seqs[i] ELSE f[i - 1] \o seqs[i]]
    BY <2>2
  <2>4. F = [i \in 1 .. n |-> IF i = 1 THEN seqs[i] ELSE F[i - 1] \o seqs[i]]
    BY <2>3
  <2>5. FlattenSeq(seqs) = F[n]
    BY <1>2 DEF FlattenSeq
  <2> HIDE DEF F
  <2>6. \A i \in 1 .. n : F[i] = IF i = 1 THEN seqs[i] ELSE F[i - 1] \o seqs[i]
    BY <2>4
  <2> DEFINE at == [i \in 1 .. n + 1 |-> IF i = 1 THEN 0 ELSE Len(F[i - 1])]
             Stands(i, k) == /\ at[i] \in Nat /\ at[i + 1] = at[i] + Len(seqs[i])
                             /\ at[i + 1] <= Len(F[k])
                             /\ \A j \in 1 .. Len(seqs[i]) : F[k][at[i] + j] = seqs[i][j]
             All(k) == F[k] \in Seq(X) /\ \A i \in 1 .. k : Stands(i, k)
             T == {k \in Nat : k = 0 \/ All(k)}
  <2>7. 0 .. n \subseteq T
    <3>1. 0 \in T
      OBVIOUS
    <3>2. ASSUME NEW k \in 0 .. n - 1, k \in T  PROVE k + 1 \in T
      <4>1. k + 1 \in 1 .. n /\ seqs[k + 1] \in Seq(X) /\ Len(seqs[k + 1]) \in Nat
        BY <1>0
      <4>2. CASE k = 0
        <5>1. F[1] = seqs[1] /\ at[1] = 0 /\ at[2] = Len(F[1])
          BY <1>0, <2>6, <4>1, <4>2
        <5>2. All(1)
          <6>1. \A i \in 1 .. 1 : i = 1 /\ i + 1 = 2
            OBVIOUS
          <6>2. F[1] \in Seq(X) /\ Len(F[1]) \in Nat /\ Len(F[1]) = Len(seqs[1]) /\ Len(F[1]) <= Len(F[1])
            BY <4>1, <4>2, <5>1
          <6> HIDE DEF at
          <6> QED BY <5>1, <6>1, <6>2
        <5> HIDE DEF All
        <5> QED BY <4>2, <5>2
      <4>3. CASE k # 0
        <5>1. All(k)
          BY <3>2, <4>3
        <5>2. at[k + 1] = Len(F[k]) /\ at[k + 2] = Len(F[k + 1])
          BY <1>0, <4>1, <4>3
        <5>3. F[k + 1] = F[k] \o seqs[k + 1] /\ F[k] \in Seq(X)
          <6>1. k + 1 # 1 /\ (k + 1) - 1 = k
            BY <4>3
          <6>2. F[k] \in Seq(X)
            BY <5>1
          <6> HIDE DEF at, All
          <6> QED BY <2>6, <4>1, <6>1, <6>2
        <5>4. /\ F[k + 1] \in Seq(X) /\ Len(F[k + 1]) = Len(F[k]) + Len(seqs[k + 1]) /\ Len(F[k]) \in Nat
              /\ Len(F[k + 1]) \in Nat /\ Len(seqs[k + 1]) \in Nat
              /\ \A j \in 1 .. Len(F[k]) : F[k + 1][j] = F[k][j]
              /\ \A j \in 1 .. Len(seqs[k + 1]) : F[k + 1][Len(F[k]) + j] = seqs[k + 1][j]
          <6> DEFINE s == F[k]
                     t == seqs[k + 1]
          <6>1. s \in Seq(X) /\ t \in Seq(X) /\ F[k + 1] = s \o t
            BY <4>1, <5>3
          <6> HIDE DEF s, t
          <6>2. /\ s \o t \in Seq(X) /\ Len(s \o t) = Len(s) + Len(t) /\ Len(s) \in Nat
                /\ Len(t) \in Nat /\ Len(s \o t) \in Nat
                /\ \A j \in 1 .. Len(s) : (s \o t)[j] = s[j]
                /\ \A j \in 1 .. Len(t) : (s \o t)[Len(s) + j] = t[j]
            BY <6>1, Concatenated
          <6> QED BY <6>1, <6>2 DEF s, t
        <5> HIDE DEF at
        <5>5. Stands(k + 1, k + 1)
          <6>1. (k + 1) + 1 = k + 2 /\ at[(k + 1) + 1] = Len(F[k + 1])
            BY <5>2
          <6>2. Len(F[k + 1]) = Len(F[k]) + Len(seqs[k + 1]) /\ Len(F[k + 1]) <= Len(F[k + 1])
            BY <4>1, <5>4
          <6>3. at[k + 1] \in Nat /\ at[(k + 1) + 1] = at[k + 1] + Len(seqs[k + 1])
            BY <5>2, <5>4, <6>1, <6>2
          <6> QED BY <5>2, <5>4, <6>1, <6>2, <6>3
        <5>6. ASSUME NEW i \in 1 .. k  PROVE Stands(i, k + 1)
          <6>1. Stands(i, k)
            BY <5>1
          <6>2. seqs[i] \in Seq(X) /\ Len(seqs[i]) \in Nat
            BY <1>0
          <6>3. at[i + 1] <= Len(F[k + 1])
            <7>1. at[i + 1] \in Nat /\ at[i + 1] <= Len(F[k])
              BY SMTT(60), <6>1, <6>2
            <7>2. \A x, y, z, u \in Nat : x = y + z /\ u <= y => u <= x
              OBVIOUS
            <7>3. Len(F[k + 1]) \in Nat /\ Len(F[k]) \in Nat /\ Len(seqs[k + 1]) \in Nat
              BY <5>4
            <7>4. Len(F[k + 1]) = Len(F[k]) + Len(seqs[k + 1])
              BY <5>4
            <7> QED BY ZenonT(60), <7>1, <7>2, <7>3, <7>4
          <6>4. ASSUME NEW j \in 1 .. Len(seqs[i])  PROVE F[k + 1][at[i] + j] = seqs[i][j]
            <7>1. at[i] + j \in 1 .. Len(F[k])
              <8>1. at[i] \in Nat /\ at[i] + Len(seqs[i]) <= Len(F[k])
                BY <6>1
              <8>2. \A x, y, z \in Nat : \A w \in 1 .. y : x + y <= z => x + w \in 1 .. z
                OBVIOUS
              <8>3. Len(F[k]) \in Nat /\ Len(seqs[i]) \in Nat
                BY <5>4, <6>2
              <8> HIDE DEF Stands, All
              <8> QED BY <8>1, <8>2, <8>3
            <7> QED BY <5>4, <6>1, <7>1
          <6> QED BY <6>1, <6>3, <6>4
        <5>7. \A i \in 1 .. k + 1 : i = k + 1 \/ i \in 1 .. k
          OBVIOUS
        <5> HIDE DEF Stands
        <5>8. All(k + 1)
          BY <5>4, <5>5, <5>6, <5>7
        <5> HIDE DEF All
        <5> QED BY <4>1, <5>8
      <4> QED BY <4>2, <4>3
    <3> HIDE DEF T
    <3> QED BY <1>0, <3>1, <3>2, InductionUpTo
  <2>8. All(n) /\ at[1] = 0 /\ at[n + 1] = Len(F[n])
    <3>1. n \in 0 .. n
      BY <1>0
    <3>2. All(n)
      BY <1>2, <2>7, <3>1
    <3> HIDE DEF All
    <3> QED BY <1>0, <1>2, <3>2
  <2>9. at \in [1 .. n + 1 -> Nat]
    <3>1. \A i \in 1 .. n : at[i] \in Nat
      BY <1>2, <2>8
    <3>2. F[n] \in Seq(X)
      BY <1>2, <2>8
    <3> QED BY <1>0, <2>8, <3>1, <3>2
  <2>10. Layout(seqs, F[n], at)
    <3> HIDE DEF at
    <3> QED BY <1>0, <1>2, <2>8, <2>9 DEF Layout
  <2> HIDE DEF at
  <2> QED BY <1>2, <2>5, <2>8, <2>10
<1> QED BY <1>1, <1>2

\* No part reaches beyond the end.
LEMMA LayoutFits ==
  ASSUME NEW X, NEW seqs \in Seq(Seq(X)), NEW all, NEW at, Layout(seqs, all, at),
         NEW i \in 1 .. Len(seqs)
  PROVE  at[i] + Len(seqs[i]) <= Len(all)
<1> DEFINE n == Len(seqs)
           S == {k \in Nat : at[n + 1 - k] <= at[n + 1]}
<1>1. n \in Nat /\ \A j \in 1 .. n : Len(seqs[j]) \in Nat
  OBVIOUS
<1>2. /\ \A j \in 1 .. n + 1 : at[j] \in Nat
      /\ \A j \in 1 .. n : at[j + 1] = at[j] + Len(seqs[j])
      /\ at[n + 1] = Len(all)
  BY DEF Layout
<1> HIDE DEF n
<1>3. 0 .. n \subseteq S
  <2>1. 0 \in S
    BY <1>1, <1>2
  <2>2. ASSUME NEW k \in 0 .. n - 1, k \in S  PROVE k + 1 \in S
    <3>1. n - k \in 1 .. n /\ (n - k) + 1 = n + 1 - k /\ n + 1 - (k + 1) = n - k
      BY <1>1
    <3>2. at[n + 1 - k] = at[n - k] + Len(seqs[n - k]) /\ Len(seqs[n - k]) \in Nat
      BY <1>1, <1>2, <3>1
    <3>3. at[n - k] \in Nat /\ at[n + 1] \in Nat /\ at[n + 1 - k] <= at[n + 1]
      BY <1>1, <1>2, <2>2, <3>1
    <3>4. at[n - k] <= at[n + 1]
      BY <3>2, <3>3
    <3>5. k + 1 \in Nat /\ at[n + 1 - (k + 1)] <= at[n + 1]
      BY <3>1, <3>4
    <3> QED BY <3>5
  <2> HIDE DEF S
  <2> QED BY <1>1, <2>1, <2>2, InductionUpTo
<1>4. n - i \in 0 .. n /\ n + 1 - (n - i) = i + 1
  BY <1>1 DEF n
<1>5. at[i + 1] <= at[n + 1]
  BY <1>3, <1>4
<1> QED BY <1>2, <1>5 DEF n

\* It has what its parts have.
LEMMA FlattenedHas ==
  ASSUME NEW X, NEW seqs \in Seq(Seq(X)), NEW i \in 1 .. Len(seqs)
  PROVE  Range(seqs[i]) \subseteq Range(FlattenSeq(seqs))
<1> DEFINE all == FlattenSeq(seqs)
<1>1. all \in Seq(X) /\ \E at : Layout(seqs, all, at)
  BY Flattened
<1> HIDE DEF all
<1>2. PICK at : Layout(seqs, all, at)
  BY <1>1
<1>3. seqs[i] \in Seq(X) /\ DOMAIN seqs[i] = 1 .. Len(seqs[i]) /\ DOMAIN all = 1 .. Len(all)
      /\ Len(seqs[i]) \in Nat /\ Len(all) \in Nat
  BY <1>1
<1>4. at[i] + Len(seqs[i]) <= Len(all)
  BY <1>2, LayoutFits
<1>5. at[i] \in Nat /\ \A j \in 1 .. Len(seqs[i]) : all[at[i] + j] = seqs[i][j]
  <2>1. i \in 1 .. Len(seqs) + 1
    OBVIOUS
  <2> QED BY <1>2, <2>1 DEF Layout
<1>6. \A j \in 1 .. Len(seqs[i]) : at[i] + j \in 1 .. Len(all)
  BY <1>3, <1>4, <1>5
<1> QED BY <1>3, <1>5, <1>6 DEF Range, all

\* The sequence s is in S from the place p on.
Stands(S, p, s) == p \in Nat /\ p + Len(s) <= Len(S) /\ \A j \in 1 .. Len(s) : S[p + j] = s[j]

\* Where t stands, a sequence s that stands in t stands too.
LEMMA StandsWithin ==
  ASSUME NEW X, NEW S \in Seq(X), NEW s \in Seq(X), NEW t \in Seq(X), NEW p, NEW q,
         Stands(S, p, s), Stands(s, q, t)
  PROVE  Stands(S, p + q, t)
<1>1. p \in Nat /\ q \in Nat /\ Len(S) \in Nat /\ Len(s) \in Nat /\ Len(t) \in Nat
  BY DEF Stands
<1>2. p + q \in Nat /\ (p + q) + Len(t) <= Len(S)
  BY <1>1 DEF Stands
<1>3. ASSUME NEW j \in 1 .. Len(t)  PROVE S[(p + q) + j] = t[j]
  <2>1. q + j \in 1 .. Len(s) /\ (p + q) + j = p + (q + j)
    BY <1>1 DEF Stands
  <2>2. S[p + (q + j)] = s[q + j] /\ s[q + j] = t[j]
    BY <2>1 DEF Stands
  <2> QED BY <2>1, <2>2
<1> QED BY <1>2, <1>3 DEF Stands

\* The first and the second part of a sequence.
LEMMA StandParts ==
  ASSUME NEW X, NEW s \in Seq(X), NEW t \in Seq(X)
  PROVE  s \o t \in Seq(X) /\ Stands(s \o t, 0, s) /\ Stands(s \o t, Len(s), t)
BY Concatenated DEF Stands

\* Two texts, one behind the other, stand one behind the other.
LEMMA StandsBoth ==
  ASSUME NEW X, NEW T \in Seq(X), NEW s \in Seq(X), NEW t \in Seq(X), NEW o, Stands(T, o, s \o t)
  PROVE  /\ Stands(T, o, s) /\ Stands(T, o + Len(s), t)
         /\ Len(s \o t) = Len(s) + Len(t) /\ Len(s) \in Nat /\ Len(t) \in Nat /\ o \in Nat
<1>1. PICK u : u = s \o t
  OBVIOUS
<1>2. u \in Seq(X) /\ Stands(u, 0, s) /\ Stands(u, Len(s), t) /\ Stands(T, o, u)
  BY <1>1, StandParts
<1>3. Stands(T, o + 0, s) /\ Stands(T, o + Len(s), t)
  BY <1>2, StandsWithin
<1>4. o \in Nat /\ o + 0 = o
  BY <1>2 DEF Stands
<1>5. Len(s \o t) = Len(s) + Len(t) /\ Len(s) \in Nat /\ Len(t) \in Nat
  BY Concatenated
<1> QED BY <1>3, <1>4, <1>5

\* One sign, and two.
LEMMA StandsOne ==
  ASSUME NEW T, NEW x, NEW o, Stands(T, o, <<x>>)
  PROVE  T[o + 1] = x /\ o + 1 <= Len(T) /\ o \in Nat
<1>1. Len(<<x>>) = 1 /\ <<x>>[1] = x /\ 1 \in 1 .. 1
  OBVIOUS
<1> QED BY <1>1 DEF Stands

LEMMA StandsTwo ==
  ASSUME NEW T, NEW x, NEW y, NEW o, Stands(T, o, <<x, y>>)
  PROVE  T[o + 1] = x /\ T[o + 2] = y /\ o + 2 <= Len(T) /\ o \in Nat
<1>1. Len(<<x, y>>) = 2 /\ <<x, y>>[1] = x /\ <<x, y>>[2] = y /\ 1 \in 1 .. 2 /\ 2 \in 1 .. 2
  OBVIOUS
<1> QED BY <1>1 DEF Stands

\* What begins a beginning, begins the whole.
LEMMA BeginsPart ==
  ASSUME NEW X, NEW s \in Seq(X), NEW T \in Seq(X), Begins(s, T), NEW k \in 0 .. Len(s)
  PROVE  SubSeq(s, 1, k) \in Seq(X) /\ Begins(SubSeq(s, 1, k), T)
<1>1. Len(s) \in Nat /\ Len(T) \in Nat
  OBVIOUS
<1>2. PICK u : u = SubSeq(s, 1, k)
  OBVIOUS
<1>3. u \in Seq(X) /\ Len(u) = k /\ \A i \in 1 .. k : u[i] = s[i]
  <2>1. 1 \in 1 .. Len(s) + 1 /\ k \in 1 - 1 .. Len(s)
    BY <1>1
  <2>2. /\ SubSeq(s, 1, k) \in Seq(X)
        /\ Len(SubSeq(s, 1, k)) = IF 1 <= k THEN k - 1 + 1 ELSE 0
        /\ \A i \in 1 .. k - 1 + 1 : SubSeq(s, 1, k)[i] = s[1 + i - 1]
    BY <2>1, SubSeqProperties
  <2>3. k \in Nat /\ k - 1 + 1 = k /\ (~ (1 <= k) => k = 0) /\ \A i \in 1 .. k : 1 + i - 1 = i
    BY <1>1
  <2> QED BY <1>2, <2>2, <2>3
<1>4. \A i \in 1 .. k : i \in 1 .. Len(s)
  BY <1>1
<1>5. k <= Len(T) /\ \A i \in 1 .. Len(s) : s[i] = T[i]
  BY <1>1 DEF Begins
<1> QED BY <1>2, <1>3, <1>4, <1>5 DEF Begins

\* Four texts, one behind the other.
LEMMA FourJoined ==
  ASSUME NEW X, NEW a \in Seq(X), NEW b \in Seq(X), NEW c \in Seq(X), NEW d \in Seq(X),
         NEW t, t = ((a \o b) \o c) \o d
  PROVE  /\ t \in Seq(X)
         /\ Len(a) # 0 => t[1] = a[1]
         /\ Len(a) = 0 /\ Len(b) # 0 => t[1] = b[1]
<1>1. PICK ab \in Seq(X) : ab = a \o b
  BY ConcatProperties
<1>2. PICK abc \in Seq(X) : abc = ab \o c
  BY ConcatProperties
<1>3. PICK la, lb : la = Len(a) /\ lb = Len(b)
  OBVIOUS
<1>4. /\ t = abc \o d /\ t \in Seq(X) /\ \A j \in 1 .. Len(abc) : t[j] = abc[j]
      /\ \A j \in 1 .. Len(ab) : abc[j] = ab[j]
      /\ \A j \in 1 .. la : ab[j] = a[j]
      /\ \A j \in 1 .. lb : ab[la + j] = b[j]
  <2>1. abc \o d \in Seq(X) /\ \A j \in 1 .. Len(abc) : (abc \o d)[j] = abc[j]
    BY Concatenated
  <2>2. \A j \in 1 .. Len(ab) : (ab \o c)[j] = ab[j]
    BY Concatenated
  <2>3. /\ \A j \in 1 .. Len(a) : (a \o b)[j] = a[j]
        /\ \A j \in 1 .. Len(b) : (a \o b)[Len(a) + j] = b[j]
    BY Concatenated
  <2> QED BY <1>1, <1>2, <1>3, <2>1, <2>2, <2>3
<1>5. la \in Nat /\ lb \in Nat /\ Len(ab) = la + lb /\ Len(abc) = Len(ab) + Len(c) /\ Len(c) \in Nat
  BY <1>1, <1>2, <1>3, ConcatProperties
<1>6. la # 0 => 1 \in 1 .. la /\ 1 \in 1 .. Len(ab) /\ 1 \in 1 .. Len(abc)
  BY <1>5
<1>7. la = 0 /\ lb # 0 => la + 1 = 1 /\ 1 \in 1 .. lb /\ 1 \in 1 .. Len(ab) /\ 1 \in 1 .. Len(abc)
  BY <1>5
<1> QED BY <1>3, <1>4, <1>6, <1>7

-----------------------------------------------------------------------------
(* Numbers. *)

\* A search that succeeds at n at the latest has a first success.
LEMMA FirstHit ==
  ASSUME NEW i \in Nat, NEW n \in Nat, i <= n, NEW S, n \in S
  PROVE  \E j \in i .. n : j \in S /\ \A k \in i .. j - 1 : k \notin S
<1> DEFINE H == {j \in i .. n : j \in S}
<1>1. IsFiniteSet(H) /\ H \in SUBSET Int /\ H # {}
  <2>1. IsFiniteSet(i .. n)
    BY FS_Interval
  <2> QED BY <2>1, FS_Subset
<1>2. PICK j \in H : \A k \in H : j <= k
  <2> HIDE DEF H
  <2> QED BY <1>1, HasMin
<1>3. \A k \in i .. j - 1 : k \in i .. n /\ ~ (j <= k)
  BY <1>2
<1> QED BY <1>2, <1>3

\* Numbers that differ by a multiple of m have the same rest.
LEMMA RestsEqual ==
  ASSUME NEW m \in Nat \ {0}, NEW a \in Int, NEW k \in Int
  PROVE  (a + k * m) % m = a % m /\ \E j \in Int : a % m = a + j * m
<1>1. ASSUME NEW x \in Int  PROVE \E q \in Int, r \in 0 .. m - 1 : x = q * m + r /\ r = x % m
  OBVIOUS
<1>2. PICK q1 \in Int, r1 \in 0 .. m - 1 : a = q1 * m + r1 /\ r1 = a % m
  BY <1>1
<1>3. k * m \in Int /\ a + k * m \in Int
  OBVIOUS
<1>4. PICK q2 \in Int, r2 \in 0 .. m - 1 : a + k * m = q2 * m + r2 /\ r2 = (a + k * m) % m
  BY <1>1, <1>3
<1>5. PICK d \in Int : d = q1 + k - q2
  OBVIOUS
<1>6. d * m = r2 - r1
  <2>1. (q1 + k - q2) * m = q1 * m + k * m - q2 * m
    OBVIOUS
  <2>2. PICK p1, p2, l \in Int : p1 = q1 * m /\ p2 = q2 * m /\ l = k * m
    OBVIOUS
  <2>3. d * m = p1 + l - p2
    BY <1>5, <2>1, <2>2
  <2>4. a = p1 + r1 /\ a + l = p2 + r2
    BY <1>2, <1>4, <2>2
  <2>5. p1 + l - p2 = r2 - r1
    BY <2>4
  <2> QED BY <2>3, <2>5
<1>7. d = 0
  <2>1. d >= 1 => d * m >= m
    OBVIOUS
  <2>2. d <= -1 => d * m <= -m
    OBVIOUS
  <2>3. r2 - r1 < m /\ r2 - r1 > -m
    OBVIOUS
  <2> QED BY <1>6, <2>1, <2>2, <2>3
<1>8. r2 = r1
  BY <1>6, <1>7
<1>9. a % m = a + (-q1) * m
  <2>1. (-q1) * m = -(q1 * m) /\ q1 * m \in Int
    OBVIOUS
  <2> QED BY <1>2, <2>1
<1>10. -q1 \in Int
  OBVIOUS
<1>11. (a + k * m) % m = a % m
  BY <1>2, <1>4, <1>8
<1> QED BY <1>9, <1>10, <1>11

-----------------------------------------------------------------------------
(* Stacks, which are sequences with the top first. *)

\* Three ways in which a stack changes.
Replaced(s, f) == <<f>> \o Tail(s)
Pushed(s, f)   == <<f>> \o s
Merged(s, f)   == <<f>> \o SubSeq(s, 3, Len(s))

\* t is a stack of n frames with f on top.
OnTop(t, f, n) == t \in Seq(Range(t)) /\ Len(t) = n /\ t[1] = f /\ t # <<>>

\* What the three changes make of a stack.
LEMMA StackOps ==
  ASSUME NEW s, s \in Seq(Range(s)), s # <<>>, NEW f
  PROVE  /\ Len(s) \in Nat \ {0} /\ Head(s) = s[1]
         /\ OnTop(Replaced(s, f), f, Len(s)) /\ \A k \in 2 .. Len(s) : Replaced(s, f)[k] = s[k]
         /\ OnTop(Pushed(s, f), f, Len(s) + 1) /\ \A k \in 2 .. Len(s) + 1 : Pushed(s, f)[k] = s[k - 1]
         /\ Len(s) > 1 => /\ OnTop(Merged(s, f), f, Len(s) - 1)
                          /\ \A k \in 2 .. Len(s) - 1 : Merged(s, f)[k] = s[k + 1]
<1> DEFINE X == Range(s) \cup {f}
           one == <<f>>
<1>1. /\ s \in Seq(X) /\ Len(s) \in Nat \ {0} /\ Head(s) = s[1] /\ one \in Seq(X) /\ Len(one) = 1
      /\ one[1] = f
  <2>1. \A i \in 1 .. Len(s) : s[i] \in X
    OBVIOUS
  <2>2. Len(s) \in Nat \ {0} /\ Head(s) = s[1] /\ s = [i \in 1 .. Len(s) |-> s[i]]
    OBVIOUS
  <2>3. one \in Seq(X) /\ Len(one) = 1 /\ one[1] = f
    OBVIOUS
  <2> HIDE DEF X, one
  <2> QED BY <2>1, <2>2, <2>3
<1> HIDE DEF X, one
<1>2. \A u \in Seq(X) : u \in Seq(Range(u))
  <2> SUFFICES ASSUME NEW u \in Seq(X)  PROVE u \in Seq(Range(u))
    OBVIOUS
  <2>1. Len(u) \in Nat /\ u = [i \in 1 .. Len(u) |-> u[i]] /\ DOMAIN u = 1 .. Len(u)
    OBVIOUS
  <2>2. \A i \in 1 .. Len(u) : u[i] \in Range(u)
    BY <2>1 DEF Range
  <2> QED BY <2>1, <2>2
<1>3. ASSUME NEW r \in Seq(X)
      PROVE  /\ one \o r \in Seq(Range(one \o r)) /\ Len(one \o r) = Len(r) + 1 /\ Len(r) \in Nat
             /\ (one \o r)[1] = f /\ one \o r # <<>>
             /\ \A k \in 1 .. Len(r) : (one \o r)[k + 1] = r[k]
  <2> DEFINE t == one \o r
  <2>a. one \in Seq(X) /\ r \in Seq(X)
    BY <1>1
  <2>0. /\ t \in Seq(X) /\ Len(t) = Len(one) + Len(r) /\ Len(r) \in Nat
        /\ \A k \in 1 .. Len(one) : t[k] = one[k]
        /\ \A k \in 1 .. Len(r) : t[Len(one) + k] = r[k]
    BY <2>a, Concatenated
  <2> HIDE DEF t
  <2>1. /\ t \in Seq(X) /\ Len(t) = 1 + Len(r) /\ Len(r) \in Nat /\ t[1] = one[1]
        /\ \A k \in 1 .. Len(r) : t[1 + k] = r[k]
    BY <1>1, <2>0
  <2>2. t # <<>>
    BY <2>1
  <2>3. t \in Seq(Range(t)) /\ t[1] = f
    BY <1>1, <1>2, <2>1
  <2>4. \A k \in 1 .. Len(r) : k + 1 = 1 + k
    BY <2>1
  <2> QED BY <2>1, <2>2, <2>3, <2>4 DEF t
<1>4. Tail(s) \in Seq(X) /\ Len(Tail(s)) = Len(s) - 1 /\ \A k \in 1 .. Len(s) - 1 : Tail(s)[k] = s[k + 1]
  BY <1>1
<1>5. Len(s) > 1 => LET r == SubSeq(s, 3, Len(s)) IN
        r \in Seq(X) /\ Len(r) = Len(s) - 2 /\ \A k \in 1 .. Len(s) - 2 : r[k] = s[k + 2]
  <2> SUFFICES ASSUME Len(s) > 1
               PROVE  LET r == SubSeq(s, 3, Len(s)) IN
                      r \in Seq(X) /\ Len(r) = Len(s) - 2 /\ \A k \in 1 .. Len(s) - 2 : r[k] = s[k + 2]
    OBVIOUS
  <2>1. 3 \in 1 .. Len(s) + 1 /\ Len(s) \in 3 - 1 .. Len(s) /\ Len(s) - 3 + 1 = Len(s) - 2
    BY <1>1
  <2>2. \A k \in 1 .. Len(s) - 2 : 3 + k - 1 = k + 2
    OBVIOUS
  <2>3. /\ SubSeq(s, 3, Len(s)) \in Seq(X) /\ Len(SubSeq(s, 3, Len(s))) = Len(s) - 3 + 1
        /\ \A k \in 1 .. Len(s) - 3 + 1 : SubSeq(s, 3, Len(s))[k] = s[3 + k - 1]
    BY <1>1, <2>1, SubSeqProperties
  <2> DEFINE r == SubSeq(s, 3, Len(s))
  <2> HIDE DEF r
  <2> QED BY <2>1, <2>2, <2>3 DEF r
<1> DEFINE t1 == one \o Tail(s)
           t2 == one \o s
           r3 == SubSeq(s, 3, Len(s))
           t3 == one \o r3
           n  == Len(s)
<1>6. t1 \in Seq(Range(t1)) /\ Len(t1) = n /\ t1[1] = f /\ t1 # <<>> /\ \A k \in 2 .. n : t1[k] = s[k]
  <2>1. /\ t1 \in Seq(Range(t1)) /\ Len(t1) = Len(Tail(s)) + 1 /\ t1[1] = f /\ t1 # <<>>
        /\ \A k \in 1 .. Len(Tail(s)) : t1[k + 1] = Tail(s)[k]
    BY <1>3, <1>4
  <2>2. \A k \in 2 .. n : k - 1 \in 1 .. n - 1 /\ (k - 1) + 1 = k
    BY <1>1
  <2> HIDE DEF t1, n
  <2> QED BY <1>1, <1>4, <2>1, <2>2 DEF n
<1>7. t2 \in Seq(Range(t2)) /\ Len(t2) = n + 1 /\ t2[1] = f /\ t2 # <<>> /\ \A k \in 2 .. n + 1 : t2[k] = s[k - 1]
  <2>1. /\ t2 \in Seq(Range(t2)) /\ Len(t2) = n + 1 /\ t2[1] = f /\ t2 # <<>>
        /\ \A k \in 1 .. n : t2[k + 1] = s[k]
    BY <1>1, <1>3
  <2>2. \A k \in 2 .. n + 1 : k - 1 \in 1 .. n /\ (k - 1) + 1 = k
    BY <1>1
  <2> HIDE DEF t2, n
  <2> QED BY <2>1, <2>2
<1>8. ASSUME n > 1
      PROVE  t3 \in Seq(Range(t3)) /\ Len(t3) = n - 1 /\ t3[1] = f /\ t3 # <<>> /\ \A k \in 2 .. n - 1 : t3[k] = s[k + 1]
  <2>1. r3 \in Seq(X) /\ Len(r3) = n - 2 /\ \A k \in 1 .. n - 2 : r3[k] = s[k + 2]
    BY <1>5, <1>8
  <2> HIDE DEF r3
  <2>2. /\ t3 \in Seq(Range(t3)) /\ Len(t3) = Len(r3) + 1 /\ t3[1] = f /\ t3 # <<>>
        /\ \A k \in 1 .. Len(r3) : t3[k + 1] = r3[k]
    BY <1>3, <2>1
  <2>3. \A k \in 2 .. n - 1 : k - 1 \in 1 .. n - 2 /\ (k - 1) + 1 = k /\ (k - 1) + 2 = k + 1
    BY <1>1
  <2> HIDE DEF t3, n
  <2>4. n \in Nat /\ Len(t3) = n - 1
    BY <1>1, <2>1, <2>2 DEF n
  <2>5. ASSUME NEW k \in 2 .. n - 1  PROVE t3[k] = s[k + 1]
    <3>1. t3[(k - 1) + 1] = r3[k - 1] /\ r3[k - 1] = s[(k - 1) + 2]
      BY <2>1, <2>2, <2>3
    <3> QED BY <2>3, <3>1
  <2> QED BY <2>2, <2>4, <2>5
<1>9. Replaced(s, f) = t1 /\ Pushed(s, f) = t2 /\ Merged(s, f) = t3
  BY DEF Replaced, Pushed, Merged, one
<1> HIDE DEF t1, t2, t3
<1> QED BY <1>1, <1>6, <1>7, <1>8, <1>9 DEF OnTop

-----------------------------------------------------------------------------
(* Walks over lists. *)

\* A walk visits its head, and goes on from every node that does not stop it.
LEMMA VisitedIsClosed ==
  ASSUME NEW nodes, NEW head, NEW next, NEW stop
  PROVE  LET V == Visited(nodes, head, next, stop) IN
         /\ V \subseteq nodes
         /\ head \in nodes => head \in V
         /\ \A f \in V \ stop : next[f] \in nodes => next[f] \in V
BY DEF Visited

\* A walk visits nothing but what its head and its links lead to.
LEMMA VisitedIsLeast ==
  ASSUME NEW nodes, NEW head, NEW next, NEW stop, NEW S \in SUBSET nodes,
         head \in nodes => head \in S,
         \A f \in S \ stop : next[f] \in nodes => next[f] \in S
  PROVE  Visited(nodes, head, next, stop) \subseteq S
BY DEF Visited

-----------------------------------------------------------------------------
\* Every node of a descending list but its head is linked from a greater one.
LEMMA DescendingPredecessor ==
  ASSUME NEW D \in SUBSET Int, IsFiniteSet(D), NEW head, NEW next, NEW null,
         Descending(D, head, next, null),
         NEW e \in D, e # head
  PROVE  \E g \in D : g > e /\ next[g] = e
<1>1. head \in D /\ head > e
  <2>1. head \in D /\ head >= e
    BY DEF Descending
  <2>2. head \in Int /\ e \in Int
    BY <2>1
  <2> QED BY <2>1, <2>2
<1>2. PICK g \in D : g > e /\ \A f \in D : f > e => g <= f
  <2> DEFINE U == {f \in D : f > e}
  <2>1. IsFiniteSet(U) /\ U # {} /\ U \in SUBSET Int
    BY FS_Subset, <1>1
  <2>2. \E x \in U : \A y \in U : x <= y
    <3> HIDE DEF U
    <3> QED BY <2>1, HasMin
  <2> QED BY <2>2
<1>3. e \in Int /\ g \in Int /\ next[g] \in D /\ next[g] < g /\ e <= next[g]
  BY <1>2 DEF Descending
<1>4. next[g] \in Int
  BY <1>3
<1>5. ~ (next[g] > e)
  BY <1>2, <1>3, <1>4
<1> QED BY <1>2, <1>3, <1>4, <1>5

\* The same for an ascending list.
LEMMA AscendingPredecessor ==
  ASSUME NEW D \in SUBSET Int, IsFiniteSet(D), NEW head, NEW next, NEW null,
         Ascending(D, head, next, null),
         NEW e \in D, e # head
  PROVE  \E g \in D : g < e /\ next[g] = e
<1>1. head \in D /\ head < e
  <2>1. head \in D /\ head <= e
    BY DEF Ascending
  <2>2. head \in Int /\ e \in Int
    BY <2>1
  <2> QED BY <2>1, <2>2
<1>2. PICK g \in D : g < e /\ \A f \in D : f < e => f <= g
  <2> DEFINE U == {f \in D : f < e}
  <2>1. IsFiniteSet(U) /\ U # {} /\ U \in SUBSET Int
    BY FS_Subset, <1>1
  <2>2. \E x \in U : \A y \in U : y <= x
    <3> HIDE DEF U
    <3> QED BY <2>1, HasMax
  <2> QED BY <2>2
<1>3. e \in Int /\ g \in Int /\ next[g] \in D /\ next[g] > g /\ e >= next[g]
  BY <1>2 DEF Ascending
<1>4. next[g] \in Int
  BY <1>3
<1>5. ~ (next[g] < e)
  BY <1>2, <1>3, <1>4
<1> QED BY <1>2, <1>3, <1>4, <1>5

-----------------------------------------------------------------------------
\* A walk over a descending list visits only the list, and it reaches m if no
\* node it visits, except possibly m, stops it.
LEMMA DescendingSearch ==
  ASSUME NEW nodes \in SUBSET Int, IsFiniteSet(nodes), NEW D \in SUBSET nodes,
         NEW head, NEW next, NEW null, null \notin nodes,
         Descending(D, head, next, null), NEW stop
  PROVE  LET V == Visited(nodes, head, next, stop) IN
         /\ V \subseteq D
         /\ \A m \in D : V \cap stop \subseteq {m} => m \in V
<1> DEFINE V == Visited(nodes, head, next, stop)
<1>1. V \subseteq D
  <2>1. head \in nodes => head \in D
    BY DEF Descending
  <2>2. \A f \in D : next[f] \in nodes => next[f] \in D
    BY DEF Descending
  <2> QED BY <2>1, <2>2, VisitedIsLeast
<1>2. ASSUME NEW m \in D, V \cap stop \subseteq {m}, m \notin V  PROVE FALSE
  <2>1. PICK e \in D \ V : \A f \in D \ V : f <= e
    <3>1. IsFiniteSet(D \ V) /\ D \ V \in SUBSET Int /\ D \ V # {}
      BY FS_Subset, <1>2
    <3> HIDE DEF V
    <3> QED BY <3>1, HasMax
  <2>2. head \in V
    BY VisitedIsClosed DEF Descending
  <2>3. PICK g \in D : g > e /\ next[g] = e
    <3>1. IsFiniteSet(D) /\ D \in SUBSET Int
      BY FS_Subset
    <3> HIDE DEF V
    <3> QED BY <3>1, <2>1, <2>2, DescendingPredecessor
  <2>4. g \in V
    BY <2>1, <2>3
  <2>5. g \notin stop
    BY <2>4, <1>2
  <2> QED BY <2>1, <2>3, <2>4, <2>5, VisitedIsClosed
<1> QED BY <1>1, <1>2

\* A walk over a descending list that nothing stops visits all of it.
LEMMA DescendingWalk ==
  ASSUME NEW nodes \in SUBSET Int, IsFiniteSet(nodes), NEW D \in SUBSET nodes,
         NEW head, NEW next, NEW null, null \notin nodes,
         Descending(D, head, next, null)
  PROVE  Visited(nodes, head, next, {}) = D
<1> DEFINE V == Visited(nodes, head, next, {})
<1>1. V \subseteq D /\ \A m \in D : V \cap {} \subseteq {m} => m \in V
  BY DescendingSearch
<1> HIDE DEF V
<1>2. V = D
  BY <1>1
<1> QED BY <1>2 DEF V

\* A walk over an ascending list that nothing stops visits all of it.
LEMMA AscendingWalk ==
  ASSUME NEW nodes \in SUBSET Int, IsFiniteSet(nodes), NEW D \in SUBSET nodes,
         NEW head, NEW next, NEW null, null \notin nodes,
         Ascending(D, head, next, null)
  PROVE  Visited(nodes, head, next, {}) = D
<1> DEFINE V == Visited(nodes, head, next, {})
<1>1. V \subseteq D
  <2>1. head \in nodes => head \in D
    BY DEF Ascending
  <2>2. \A f \in D : next[f] \in nodes => next[f] \in D
    BY DEF Ascending
  <2> QED BY <2>1, <2>2, VisitedIsLeast
<1>2. ASSUME D \ V # {}  PROVE FALSE
  <2>1. PICK e \in D \ V : \A f \in D \ V : f >= e
    <3>1. IsFiniteSet(D \ V) /\ D \ V \in SUBSET Int
      BY FS_Subset
    <3> HIDE DEF V
    <3>2. \E x \in D \ V : \A y \in D \ V : x <= y
      BY <3>1, <1>2, HasMin
    <3> QED BY <3>2
  <2>2. head \in V
    BY VisitedIsClosed DEF Ascending
  <2>3. PICK g \in D : g < e /\ next[g] = e
    <3>1. IsFiniteSet(D) /\ D \in SUBSET Int
      BY FS_Subset
    <3> HIDE DEF V
    <3> QED BY <3>1, <2>1, <2>2, AscendingPredecessor
  <2>4. g \in V
    BY <2>1, <2>3
  <2> QED BY <2>1, <2>3, <2>4, VisitedIsClosed
<1> QED BY <1>1, <1>2

\* What follows e on an ascending list is what is greater than e.
LEMMA AscendingTail ==
  ASSUME NEW nodes \in SUBSET Int, IsFiniteSet(nodes), NEW D \in SUBSET nodes,
         NEW head, NEW next, NEW null, null \notin nodes,
         Ascending(D, head, next, null), NEW e \in D
  PROVE  Visited(nodes, next[e], next, {}) = {f \in D : f > e}
<1> DEFINE U == {f \in D : f > e}
<1>1. Ascending(U, next[e], next, null)
  <2>1. D \in SUBSET Int /\ e \in Int
    OBVIOUS
  <2>2. IF U = {} THEN next[e] = null
        ELSE next[e] \in U /\ \A f \in U : f >= next[e]
    <3>1. CASE \A f \in D : f <= e
      <4>1. \A f \in D : f \in Int /\ f <= e => ~ (f > e)
        BY <2>1
      <4>2. U = {}
        BY <4>1, <3>1, <2>1
      <4> QED BY <4>2, <3>1 DEF Ascending
    <3>2. CASE ~ \A f \in D : f <= e
      <4>1. next[e] \in D /\ next[e] > e /\ \A f \in D : f > e => f >= next[e]
        BY <3>2 DEF Ascending
      <4> QED BY <4>1
    <3> QED BY <3>1, <3>2
  <2>3. ASSUME NEW d \in U
        PROVE  IF \A f \in U : f <= d THEN next[d] = null
               ELSE /\ next[d] \in U /\ next[d] > d
                    /\ \A f \in U : f > d => f >= next[d]
    <3>1. d \in D /\ d \in Int /\ d > e
      BY <2>1
    <3>2. (\A f \in U : f <= d) <=> (\A f \in D : f <= d)
      BY <2>1, <3>1
    <3>3. CASE \A f \in D : f <= d
      BY <3>1, <3>2, <3>3 DEF Ascending
    <3>4. CASE ~ \A f \in D : f <= d
      <4>1. next[d] \in D /\ next[d] > d /\ \A f \in D : f > d => f >= next[d]
        BY <3>1, <3>4 DEF Ascending
      <4>2. next[d] \in Int
        BY <4>1, <2>1
      <4>3. next[d] > e
        BY <4>1, <4>2, <3>1, <2>1
      <4>4. next[d] \in U
        BY <4>1, <4>3
      <4> QED BY <4>1, <4>4, <3>2, <3>4
    <3> QED BY <3>3, <3>4
  <2> HIDE DEF U
  <2> QED BY <2>2, <2>3 DEF Ascending
<1> HIDE DEF U
<1>2. U \in SUBSET nodes
  BY DEF U
<1>3. Visited(nodes, next[e], next, {}) = U
  BY <1>1, <1>2, AscendingWalk
<1> QED BY <1>3 DEF U

\* A visited node other than the head is linked from a visited node that does
\* not stop the walk.
LEMMA VisitedHasReason ==
  ASSUME NEW nodes, NEW head, NEW next, NEW stop,
         NEW e \in Visited(nodes, head, next, stop), e # head
  PROVE  \E g \in Visited(nodes, head, next, stop) \ stop : next[g] = e
<1> DEFINE V == Visited(nodes, head, next, stop)
<1> SUFFICES ASSUME \A g \in V \ stop : next[g] # e  PROVE FALSE
  OBVIOUS
<1>1. V \subseteq nodes /\ (head \in nodes => head \in V)
      /\ \A f \in V \ stop : next[f] \in nodes => next[f] \in V
  BY VisitedIsClosed
<1>2. V \subseteq V \ {e}
  <2>1. V \ {e} \in SUBSET nodes /\ (head \in nodes => head \in V \ {e})
        /\ \A f \in (V \ {e}) \ stop : next[f] \in nodes => next[f] \in V \ {e}
    BY <1>1
  <2> DEFINE S == V \ {e}
  <2>2. S \in SUBSET nodes /\ (head \in nodes => head \in S)
        /\ \A f \in S \ stop : next[f] \in nodes => next[f] \in S
    BY <2>1
  <2> HIDE DEF S
  <2>3. V \subseteq S
    BY <2>2, VisitedIsLeast
  <2> QED BY <2>3 DEF S
<1> QED BY <1>2

-----------------------------------------------------------------------------
\* Pushing a greater node at the head of a descending list.
LEMMA DescendingPush ==
  ASSUME NEW D \in SUBSET Int, NEW head, NEW next, NEW null, null \notin Int,
         Descending(D, head, next, null),
         NEW e \in Int, \A f \in D : f < e,
         NEW next2, next2[e] = head, \A f \in D : next2[f] = next[f]
  PROVE  Descending(D \cup {e}, e, next2, null)
<1> DEFINE U == D \cup {e}
<1>1. e \in U /\ \A f \in U : f <= e
  OBVIOUS
<1>2. IF \A f \in U : f >= e THEN next2[e] = null
      ELSE /\ next2[e] \in U /\ next2[e] < e
           /\ \A f \in U : f < e => f <= next2[e]
  <2>1. CASE D = {}
    BY <2>1 DEF Descending
  <2>2. CASE D # {}
    <3>1. head \in D /\ \A f \in D : f <= head
      BY <2>2 DEF Descending
    <3> QED BY <3>1
  <2> QED BY <2>1, <2>2
<1>3. ASSUME NEW d \in D
      PROVE  IF \A f \in U : f >= d THEN next2[d] = null
             ELSE /\ next2[d] \in U /\ next2[d] < d
                  /\ \A f \in U : f < d => f <= next2[d]
  <2>1. (\A f \in U : f >= d) <=> (\A f \in D : f >= d)
    OBVIOUS
  <2>2. next2[d] = next[d]
    OBVIOUS
  <2>3. IF \A f \in D : f >= d THEN next[d] = null
        ELSE /\ next[d] \in D /\ next[d] < d
             /\ \A f \in D : f < d => f <= next[d]
    BY DEF Descending
  <2> QED BY <2>1, <2>2, <2>3
<1> HIDE DEF U
<1>4. U = D \cup {e}
  BY DEF U
<1>5. Descending(U, e, next2, null)
  BY <1>1, <1>2, <1>3, <1>4 DEF Descending
<1> QED BY <1>5 DEF U

\* Appending a greater node at the end of an ascending list.
LEMMA AscendingAppend ==
  ASSUME NEW D \in SUBSET Int, NEW head, NEW next, NEW null, null \notin Int,
         Ascending(D, head, next, null),
         NEW e \in Int, \A f \in D : f < e,
         NEW last, IF D = {} THEN last = null
                   ELSE last \in D /\ \A f \in D : f <= last,
         NEW next2, next2[e] = null,
         \A f \in D : next2[f] = IF f = last THEN e ELSE next[f]
  PROVE  Ascending(D \cup {e}, IF last = null THEN e ELSE head, next2, null)
<1> DEFINE U == D \cup {e}
           h == IF last = null THEN e ELSE head
<1>1. h \in U /\ \A f \in U : f >= h
  <2>1. CASE D = {}
    BY <2>1
  <2>2. CASE D # {}
    <3>1. last # null /\ head \in D /\ \A f \in D : f >= head
      BY <2>2 DEF Ascending
    <3>2. head \in Int /\ head < e
      BY <3>1
    <3> QED BY <3>1, <3>2
  <2> QED BY <2>1, <2>2
<1>2. \A f \in U : f <= e
  OBVIOUS
<1>3. ASSUME NEW d \in D
      PROVE  /\ ~ \A f \in U : f <= d
             /\ next2[d] \in U /\ next2[d] > d
             /\ \A f \in U : f > d => f >= next2[d]
  <2>1. d < e /\ d \in Int /\ last \in D /\ \A f \in D : f <= last
    OBVIOUS
  <2>2. CASE d = last
    <3>1. next2[d] = e /\ \A f \in U : f > d => f = e
      BY <2>1, <2>2
    <3> QED BY <3>1, <2>1
  <2>3. CASE d # last
    <3>1. next2[d] = next[d] /\ ~ (\A f \in D : f <= d)
      BY <2>1, <2>3
    <3>2. next[d] \in D /\ next[d] > d /\ \A f \in D : f > d => f >= next[d]
      BY <3>1 DEF Ascending
    <3>3. next[d] \in Int /\ next[d] < e
      BY <3>2
    <3> QED BY <3>1, <3>2, <3>3, <2>1
  <2> QED BY <2>2, <2>3
<1> HIDE DEF h, U
<1>4. U = D \cup {e}
  BY DEF U
<1>5. Ascending(U, h, next2, null)
  BY <1>1, <1>2, <1>3, <1>4 DEF Ascending
<1> QED BY <1>5 DEF U, h

\* Unlinking a node of a descending list: the node that led to it now leads to
\* what it led to.
LEMMA DescendingUnlink ==
  ASSUME NEW D \in SUBSET Int, NEW head, NEW next, NEW null, null \notin Int,
         Descending(D, head, next, null), NEW d \in D,
         NEW next2, \A f \in D \ {d} :
                      next2[f] = IF next[f] = d THEN next[d] ELSE next[f]
  PROVE  Descending(D \ {d}, IF head = d THEN next[d] ELSE head, next2, null)
<1> DEFINE U == D \ {d}
           h == IF head = d THEN next[d] ELSE head
<1>0. \A f \in D : f \in Int
  OBVIOUS
<1>1. head \in D /\ \A f \in D : f <= head
  BY DEF Descending
<1>2. IF \A f \in D : f >= d THEN next[d] = null
      ELSE /\ next[d] \in D /\ next[d] < d
           /\ \A f \in D : f < d => f <= next[d]
  BY DEF Descending
<1>3. IF U = {} THEN h = null ELSE h \in U /\ \A f \in U : f <= h
  <2>1. CASE head = d
    <3>1. \A f \in U : f < d
      BY <1>1, <2>1
    <3>2. CASE U = {}
      BY <3>2, <2>1, <1>2
    <3>3. CASE U # {}
      <4>1. PICK g \in U : TRUE
        BY <3>3
      <4>2. ~ (g >= d)
        BY <4>1, <3>1, <1>0
      <4>3. ~ \A f \in D : f >= d
        BY <4>2
      <4> QED BY <4>3, <1>2, <3>1, <2>1
    <3> QED BY <3>2, <3>3
  <2>2. CASE head # d
    BY <2>2, <1>1
  <2> QED BY <2>1, <2>2
<1>4. ASSUME NEW e \in U
      PROVE  IF \A f \in U : f >= e THEN next2[e] = null
             ELSE /\ next2[e] \in U /\ next2[e] < e
                  /\ \A f \in U : f < e => f <= next2[e]
  <2>1. e \in D /\ e # d /\ e \in Int /\ d \in Int
    OBVIOUS
  <2>2. IF \A f \in D : f >= e THEN next[e] = null
        ELSE /\ next[e] \in D /\ next[e] < e
             /\ \A f \in D : f < e => f <= next[e]
    BY <2>1 DEF Descending
  <2>3. CASE next[e] = d
    <3>1. next2[e] = next[d] /\ d < e /\ \A f \in D : f < e => f <= d
      BY <2>1, <2>2, <2>3
    <3>2. \A f \in U : f < e => f < d
      BY <3>1
    <3>3. CASE \A f \in D : f >= d
      <4>1. \A f \in U : f >= e
        BY <3>2, <3>3, <2>1
      <4> QED BY <4>1, <3>1, <3>3, <1>2
    <3>4. CASE ~ \A f \in D : f >= d
      <4>1. next[d] \in D /\ next[d] < d /\ \A f \in D : f < d => f <= next[d]
        BY <3>4, <1>2
      <4>2. next[d] \in Int
        BY <4>1, <1>0
      <4>3. next[d] \in U /\ next[d] < e /\ ~ (next[d] >= e)
        BY <4>1, <4>2, <3>1, <2>1
      <4>4. ~ \A f \in U : f >= e
        BY <4>3
      <4> QED BY <4>1, <4>3, <4>4, <3>1, <3>2
    <3> QED BY <3>3, <3>4
  <2>4. CASE next[e] # d
    <3>1. next2[e] = next[e]
      BY <2>1, <2>4
    <3>2. CASE \A f \in D : f >= e
      BY <3>1, <3>2, <2>2
    <3>3. CASE ~ \A f \in D : f >= e
      <4>1. next[e] \in U /\ next[e] < e /\ \A f \in D : f < e => f <= next[e]
        BY <3>3, <2>2, <2>4
      <4>2. next[e] \in Int
        BY <4>1, <1>0
      <4>3. ~ (next[e] >= e)
        BY <4>1, <4>2, <2>1
      <4>4. ~ \A f \in U : f >= e
        BY <4>1, <4>3
      <4> QED BY <4>1, <4>4, <3>1
    <3> QED BY <3>2, <3>3
  <2> QED BY <2>3, <2>4
<1> HIDE DEF h, U
<1>5. Descending(U, h, next2, null)
  BY <1>3, <1>4 DEF Descending
<1> QED BY <1>5 DEF U, h

\* Unlinking a node of an ascending list: the node that led to it now leads to
\* what it led to.
LEMMA AscendingUnlink ==
  ASSUME NEW D \in SUBSET Int, NEW head, NEW next, NEW null, null \notin Int,
         Ascending(D, head, next, null), NEW d \in D,
         NEW next2, \A f \in D \ {d} :
                      next2[f] = IF next[f] = d THEN next[d] ELSE next[f]
  PROVE  Ascending(D \ {d}, IF head = d THEN next[d] ELSE head, next2, null)
<1> DEFINE U == D \ {d}
           h == IF head = d THEN next[d] ELSE head
<1>0. \A f \in D : f \in Int
  OBVIOUS
<1>1. head \in D /\ \A f \in D : f >= head
  BY DEF Ascending
<1>2. IF \A f \in D : f <= d THEN next[d] = null
      ELSE /\ next[d] \in D /\ next[d] > d
           /\ \A f \in D : f > d => f >= next[d]
  BY DEF Ascending
<1>3. IF U = {} THEN h = null ELSE h \in U /\ \A f \in U : f >= h
  <2>1. CASE head = d
    <3>1. \A f \in U : f > d
      BY <1>1, <2>1
    <3>2. CASE U = {}
      BY <3>2, <2>1, <1>2
    <3>3. CASE U # {}
      <4>1. PICK g \in U : TRUE
        BY <3>3
      <4>2. ~ (g <= d)
        BY <4>1, <3>1, <1>0
      <4>3. ~ \A f \in D : f <= d
        BY <4>2
      <4> QED BY <4>3, <1>2, <3>1, <2>1
    <3> QED BY <3>2, <3>3
  <2>2. CASE head # d
    BY <2>2, <1>1
  <2> QED BY <2>1, <2>2
<1>4. ASSUME NEW e \in U
      PROVE  IF \A f \in U : f <= e THEN next2[e] = null
             ELSE /\ next2[e] \in U /\ next2[e] > e
                  /\ \A f \in U : f > e => f >= next2[e]
  <2>1. e \in D /\ e # d /\ e \in Int /\ d \in Int
    OBVIOUS
  <2>2. IF \A f \in D : f <= e THEN next[e] = null
        ELSE /\ next[e] \in D /\ next[e] > e
             /\ \A f \in D : f > e => f >= next[e]
    BY <2>1 DEF Ascending
  <2>3. CASE next[e] = d
    <3>1. next2[e] = next[d] /\ d > e /\ \A f \in D : f > e => f >= d
      BY <2>1, <2>2, <2>3
    <3>2. \A f \in U : f > e => f > d
      BY <3>1
    <3>3. CASE \A f \in D : f <= d
      <4>1. \A f \in U : f <= e
        BY <3>2, <3>3, <2>1
      <4> QED BY <4>1, <3>1, <3>3, <1>2
    <3>4. CASE ~ \A f \in D : f <= d
      <4>1. next[d] \in D /\ next[d] > d /\ \A f \in D : f > d => f >= next[d]
        BY <3>4, <1>2
      <4>2. next[d] \in Int
        BY <4>1, <1>0
      <4>3. next[d] \in U /\ next[d] > e /\ ~ (next[d] <= e)
        BY <4>1, <4>2, <3>1, <2>1
      <4>4. ~ \A f \in U : f <= e
        BY <4>3
      <4> QED BY <4>1, <4>3, <4>4, <3>1, <3>2
    <3> QED BY <3>3, <3>4
  <2>4. CASE next[e] # d
    <3>1. next2[e] = next[e]
      BY <2>1, <2>4
    <3>2. CASE \A f \in D : f <= e
      BY <3>1, <3>2, <2>2
    <3>3. CASE ~ \A f \in D : f <= e
      <4>1. next[e] \in U /\ next[e] > e /\ \A f \in D : f > e => f >= next[e]
        BY <3>3, <2>2, <2>4
      <4>2. next[e] \in Int
        BY <4>1, <1>0
      <4>3. ~ (next[e] <= e)
        BY <4>1, <4>2, <2>1
      <4>4. ~ \A f \in U : f <= e
        BY <4>1, <4>3
      <4> QED BY <4>1, <4>4, <3>1
    <3> QED BY <3>2, <3>3
  <2> QED BY <2>3, <2>4
<1> HIDE DEF h, U
<1>5. Ascending(U, h, next2, null)
  BY <1>3, <1>4 DEF Ascending
<1> QED BY <1>5 DEF U, h

\* The pointers of a list lead to its nodes or nowhere.
LEMMA DescendingTyped ==
  ASSUME NEW D, NEW head, NEW next, NEW null, Descending(D, head, next, null)
  PROVE  head \in D \cup {null} /\ \A e \in D : next[e] \in D \cup {null}
BY DEF Descending

LEMMA AscendingTyped ==
  ASSUME NEW D, NEW head, NEW next, NEW null, Ascending(D, head, next, null)
  PROVE  head \in D \cup {null} /\ \A e \in D : next[e] \in D \cup {null}
BY DEF Ascending

\* Only the links of its own nodes matter to a list.
LEMMA DescendingAgree ==
  ASSUME NEW D, NEW head, NEW next, NEW null, Descending(D, head, next, null),
         NEW next2, \A f \in D : next2[f] = next[f]
  PROVE  Descending(D, head, next2, null)
BY DEF Descending

\* No two nodes of a descending list lead to the same node.
LEMMA DescendingInjective ==
  ASSUME NEW D \in SUBSET Int, NEW head, NEW next, NEW null, null \notin Int,
         Descending(D, head, next, null),
         NEW f \in D, NEW g \in D, next[f] = next[g], next[f] \in D
  PROVE  f = g
<1>1. ASSUME NEW x \in D, NEW y \in D, x < y, next[x] = next[y], next[x] \in D
      PROVE  FALSE
  <2>1. next[x] \in Int /\ x \in Int /\ y \in Int /\ next[x] # null
    BY <1>1
  <2>2. next[x] < x
    BY <2>1 DEF Descending
  <2>3. x <= next[y]
    BY <2>1, <1>1 DEF Descending
  <2> QED BY <1>1, <2>1, <2>2, <2>3
<1>2. f \in Int /\ g \in Int
  OBVIOUS
<1> QED BY <1>1, <1>2

\* Two lists mirror each other when they have the same links in opposite
\* directions and each ends at the other's head.
Mirrors(D, head, next, last, prev, null) ==
  /\ \A e, f \in D : next[e] = f <=> prev[f] = e
  /\ \A e \in D : next[e] = null <=> e = last
  /\ \A e \in D : prev[e] = null <=> e = head

\* An ascending and a descending list over the same nodes do.
LEMMA Mirror ==
  ASSUME NEW D \in SUBSET Int, NEW null, null \notin Int,
         NEW head, NEW next, Ascending(D, head, next, null),
         NEW last, NEW prev, Descending(D, last, prev, null)
  PROVE  Mirrors(D, head, next, last, prev, null)
<1>1. ASSUME NEW e \in D, NEW f \in D
      PROVE  next[e] = f <=> /\ e < f
                             /\ \A g \in D : g > e => g >= f
  <2>1. e \in Int /\ f \in Int
    OBVIOUS
  <2>2. CASE \A g \in D : g <= e
    BY <2>1, <2>2 DEF Ascending
  <2>3. CASE ~ \A g \in D : g <= e
    <3>1. next[e] \in D /\ next[e] > e /\ \A g \in D : g > e => g >= next[e]
      BY <2>3 DEF Ascending
    <3>2. next[e] \in Int
      BY <3>1
    <3> QED BY <2>1, <3>1, <3>2
  <2> QED BY <2>2, <2>3
<1>2. ASSUME NEW e \in D, NEW f \in D
      PROVE  prev[f] = e <=> /\ e < f
                             /\ \A g \in D : g < f => g <= e
  <2>1. e \in Int /\ f \in Int
    OBVIOUS
  <2>2. CASE \A g \in D : g >= f
    BY <2>1, <2>2 DEF Descending
  <2>3. CASE ~ \A g \in D : g >= f
    <3>1. prev[f] \in D /\ prev[f] < f /\ \A g \in D : g < f => g <= prev[f]
      BY <2>3 DEF Descending
    <3>2. prev[f] \in Int
      BY <3>1
    <3> QED BY <2>1, <3>1, <3>2
  <2> QED BY <2>2, <2>3
<1>3. ASSUME NEW e \in D, NEW f \in D  PROVE next[e] = f <=> prev[f] = e
  <2>1. \A g \in D : g \in Int
    OBVIOUS
  <2>2. (\A g \in D : g > e => g >= f) /\ e < f => \A g \in D : g < f => g <= e
    BY <2>1
  <2>3. (\A g \in D : g < f => g <= e) /\ e < f => \A g \in D : g > e => g >= f
    BY <2>1
  <2> QED BY <1>1, <1>2, <2>2, <2>3
<1>4. ASSUME NEW e \in D  PROVE next[e] = null <=> e = last
  <2>1. last \in D /\ (\A f \in D : f <= last) /\ \A f \in D : f \in Int
    BY DEF Descending
  <2>2. next[e] = null <=> \A f \in D : f <= e
    BY <2>1 DEF Ascending
  <2> QED BY <2>1, <2>2
<1>5. ASSUME NEW e \in D  PROVE prev[e] = null <=> e = head
  <2>1. head \in D /\ (\A f \in D : f >= head) /\ \A f \in D : f \in Int
    BY DEF Ascending
  <2>2. prev[e] = null <=> \A f \in D : f >= e
    BY <2>1 DEF Descending
  <2> QED BY <2>1, <2>2
<1> QED BY <1>3, <1>4, <1>5 DEF Mirrors
\* Integers modulo m, taken from -h to h - 1: digits can be appended to the
\* remainder of a number, and its sign changed.
Wraps(S, h, m) ==
  /\ \A a \in Int : S[a] \in Int /\ a % m \in Int
  /\ \A a, d \in Int : S[S[a] * 10 + d] = S[a * 10 + d]
  /\ \A a \in Int : S[-S[a]] = S[-a] /\ S[a] % m = a % m
  /\ \A a \in -h .. h - 1 : S[a] = a
  /\ \A a \in 0 .. m - 1 : a % m = a
LEMMA TwosComplement ==
  ASSUME NEW h \in Nat \ {0}, NEW m, m = 2 * h, NEW S, S = [a \in Int |-> ((a + h) % m) - h]
  PROVE  Wraps(S, h, m)
<1>1. h \in Nat \ {0} /\ m \in Nat \ {0} /\ m = h + h
  OBVIOUS
<1>2. \A a \in Int : S[a] = ((a + h) % m) - h
  OBVIOUS
<1>3. ASSUME NEW a \in Int, NEW k \in Int
      PROVE  S[a + k * m] = S[a] /\ (a + k * m) % m = a % m /\ a + k * m \in Int
  <2>1. PICK l \in Int : l = k * m
    BY <1>1
  <2>2. a + h \in Int /\ a + l \in Int /\ (a + l) + h = (a + h) + l
    BY <1>1
  <2>3. ((a + h) + k * m) % m = (a + h) % m /\ (a + k * m) % m = a % m
    BY <1>1, <2>2, RestsEqual
  <2> QED BY <1>2, <2>1, <2>2, <2>3
<1>4. ASSUME NEW a \in Int  PROVE \E k \in Int : S[a] = a + k * m
  <2>1. a + h \in Int /\ a + h = (a + h) + 0 * m
    BY <1>1
  <2>2. PICK k \in Int : (a + h) % m = (a + h) + k * m
    BY <1>1, <2>1, RestsEqual
  <2>3. PICK l \in Int : l = k * m
    BY <1>1
  <2>4. ((a + h) + l) - h = a + l
    BY <1>1
  <2> QED BY <1>2, <2>2, <2>3, <2>4
<1>5. \A a \in Int : S[a] \in Int /\ a % m \in Int
  BY <1>1, <1>2
<1>6. ASSUME NEW a \in Int, NEW d \in Int
      PROVE  S[S[a] * 10 + d] = S[a * 10 + d]
  <2>1. PICK k \in Int : S[a] = a + k * m
    BY <1>4
  <2>2. PICK l \in Int : l = k * m
    BY <1>1
  <2>3. (k * 10) * m = l * 10 /\ k * 10 \in Int
    BY <1>1, <2>2
  <2>4. (a + l) * 10 + d = (a * 10 + d) + l * 10 /\ a * 10 + d \in Int
    OBVIOUS
  <2>5. S[(a * 10 + d) + (k * 10) * m] = S[a * 10 + d]
    BY <1>3, <2>3, <2>4
  <2> QED BY <2>1, <2>2, <2>3, <2>4, <2>5
<1>7. ASSUME NEW a \in Int
      PROVE  S[-S[a]] = S[-a] /\ S[a] % m = a % m
  <2>1. PICK k \in Int : S[a] = a + k * m
    BY <1>4
  <2>2. PICK l \in Int : l = k * m
    BY <1>1
  <2>3. (-k) * m = -l /\ -k \in Int /\ -a \in Int
    BY <1>1, <2>2
  <2>4. -(a + l) = -a + (-l)
    OBVIOUS
  <2>5. S[-a + (-k) * m] = S[-a]
    BY <1>3, <2>3
  <2>6. (a + k * m) % m = a % m
    BY <1>3
  <2> QED BY <2>1, <2>2, <2>3, <2>4, <2>5, <2>6
<1>8. ASSUME NEW a \in Int, a \in 0 .. m - 1  PROVE a % m = a
  BY <1>1, <1>8
<1>9. ASSUME NEW a \in -h .. h - 1  PROVE S[a] = a
  <2>1. a \in Int /\ a + h \in Int /\ a + h \in 0 .. m - 1 /\ (a + h) - h = a
    BY <1>1
  <2> QED BY <1>2, <1>8, <2>1
<1>10. \A a \in Int : S[a] \in Int /\ a % m \in Int
  BY ONLY <1>5
<1>11. \A a, d \in Int : S[S[a] * 10 + d] = S[a * 10 + d]
  BY ONLY <1>6
<1>12. \A a \in Int : S[-S[a]] = S[-a] /\ S[a] % m = a % m
  BY ONLY <1>7
<1>13. \A a \in -h .. h - 1 : S[a] = a
  BY ONLY <1>9
<1>14. \A a \in 0 .. m - 1 : a % m = a
  <2>1. 0 .. m - 1 \subseteq Int
    OBVIOUS
  <2> QED BY ONLY <2>1, <1>8
<1> QED BY ONLY <1>10, <1>11, <1>12, <1>13, <1>14 DEF Wraps
=============================================================================
