---------------------------- MODULE KdfTextProofs ----------------------------
(***************************************************************************)
(* The text format for every document: what kdf_text_write lets through,   *)
(* how far kdf_text_read goes, whatever came, and what it makes of a text  *)
(* that was written, or of a beginning of one.                             *)
(***************************************************************************)
EXTENDS KdfTextWords, CommonProofs

-----------------------------------------------------------------------------
(* The text of a document. *)

\* The characters of which texts consist.
Marks == {"\"", "\\", "(", ")", ",", "=", "[", "]", "{", "}", "~", ".", "-", "+", "e", "u", "inf",
          "0", "1", NewLine}
Signs == Marks \cup Keywords \cup DOMAIN Letters \cup Range(Digits) \cup Characters \cup Contents

\* Sequences of signs.
LEMMA SignsJoined ==
  /\ <<>> \in Seq(Signs)
  /\ \A x, y \in Signs : <<x>> \in Seq(Signs) /\ <<x, y>> \in Seq(Signs)
  /\ \A s, t \in Seq(Signs) : s \o t \in Seq(Signs)
OBVIOUS

\* Signs that are no keywords.
Bare == Signs \ Keywords
LEMMA BareJoined ==
  /\ <<>> \in Seq(Bare)
  /\ \A x, y \in Bare : <<x>> \in Seq(Bare) /\ <<x, y>> \in Seq(Bare)
  /\ \A s, t \in Seq(Bare) : s \o t \in Seq(Bare)
  /\ \A s \in Seq(Bare) : s \in Seq(Signs) /\ \A i \in 1 .. Len(s) : s[i] \notin Keywords
  /\ {"-", "u", "inf", ".", "e", "+", "0", "\"", "\\", "(", ",", ")"} \subseteq Bare
  /\ DOMAIN Letters \subseteq Bare /\ Range(Digits) \subseteq Bare /\ Characters \subseteq Bare
<1>1. Bare \subseteq Signs /\ \A x \in Bare : x \notin Keywords
  BY DEF Bare
<1>2. {"-", "u", "inf", ".", "e", "+", "0", "\"", "\\", "(", ",", ")"} \subseteq Bare
  BY DEF Bare, Signs, Marks, Keywords, Vectors, VectorSize
<1>3. DOMAIN Letters \subseteq Bare
  BY DEF Bare, Signs, Letters, Keywords, Vectors, VectorSize
<1>4. Range(Digits) \subseteq Bare
  <2>1. DOMAIN Digits = 1 .. 10 /\ \A i \in 1 .. 10 : Digits[i] \in {"0", "1", "2", "3", "4", "5", "6", "7", "8", "9"}
    BY DEF Digits
  <2>2. \A d \in Range(Digits) : d \in {"0", "1", "2", "3", "4", "5", "6", "7", "8", "9"} /\ d \in Signs
    BY <2>1 DEF Range, Signs
  <2>3. \A d \in {"0", "1", "2", "3", "4", "5", "6", "7", "8", "9"} : d \notin Keywords
    BY DEF Keywords, Vectors, VectorSize
  <2> QED BY <2>2, <2>3 DEF Bare
<1>5. Characters \subseteq Bare
  BY TextAssumption DEF Bare, Signs
<1> HIDE DEF Bare
<1>6. /\ <<>> \in Seq(Bare)
      /\ \A x, y \in Bare : <<x>> \in Seq(Bare) /\ <<x, y>> \in Seq(Bare)
      /\ \A s, t \in Seq(Bare) : s \o t \in Seq(Bare)
  OBVIOUS
<1>7. \A s \in Seq(Bare) : s \in Seq(Signs) /\ \A i \in 1 .. Len(s) : s[i] \notin Keywords
  <2>1. \A s \in Seq(Bare) : \A i \in 1 .. Len(s) : s[i] \in Bare
    OBVIOUS
  <2>2. \A s \in Seq(Bare) : s \in Seq(Signs)
    BY <1>1
  <2> QED BY <1>1, <2>1, <2>2
<1> QED BY <1>2, <1>3, <1>4, <1>5, <1>6, <1>7

\* The digits.
LEMMA DigitsTyped ==
  ASSUME NEW n \in Nat
  PROVE  Digits[(n % 10) + 1] \in Range(Digits)
<1>1. DOMAIN Digits = 1 .. 10
  BY DEF Digits
<1>2. (n % 10) + 1 \in 1 .. 10
  OBVIOUS
<1>3. (n % 10) + 1 \in DOMAIN Digits
  BY <1>1, <1>2
<1> QED BY <1>3 DEF Range

\* The decimal notation of a natural number.
LEMMA PrintedTyped ==
  \A n \in Nat : /\ Printed[n] = (IF n < 10 THEN <<>> ELSE Printed[n \div 10]) \o <<Digits[(n % 10) + 1]>>
                 /\ Printed[n] \in Seq(Range(Digits))
<1> DEFINE One(n) == <<Digits[(n % 10) + 1]>>
           Step(n, f) == (IF n < 10 THEN <<>> ELSE f[n \div 10]) \o One(n)
           Approx(d, f) == f = [n \in 0 .. d |-> Step(n, f)]
           S == {d \in Nat : (\E f : Approx(d, f)) /\ \A f, g : Approx(d, f) /\ Approx(d, g) => f = g}
<1> HIDE DEF One
<1>1. \A n \in Nat : ~ (n < 10) => n \div 10 \in Nat /\ n \div 10 < n
  OBVIOUS
<1>2. ASSUME NEW d \in Nat, NEW e \in 0 .. d, NEW f, Approx(d, f)
      PROVE  Approx(e, [n \in 0 .. e |-> f[n]])
  <2> DEFINE g == [n \in 0 .. e |-> f[n]]
  <2>1. ASSUME NEW n \in 0 .. e  PROVE g[n] = Step(n, g)
    <3>1. n \in 0 .. d /\ n \in Nat /\ (~ (n < 10) => n \div 10 \in 0 .. e)
      BY <1>1
    <3>2. f[n] = Step(n, f)
      BY <1>2, <3>1
    <3>3. ~ (n < 10) => g[n \div 10] = f[n \div 10]
      BY <3>1
    <3> QED BY <3>2, <3>3
  <2>2. g = [n \in 0 .. e |-> g[n]]
    OBVIOUS
  <2> HIDE DEF g, Step
  <2>3. Approx(e, g)
    BY <2>1, <2>2
  <2> QED BY <2>3 DEF g
<1>3. Nat \subseteq S
  <2>1. 0 \in S
    <3>1. PICK f : f = [n \in 0 .. 0 |-> <<>> \o One(n)]
      OBVIOUS
    <3>2. \A g : Approx(0, g) <=> g = f
      <4>1. \A n \in 0 .. 0 : n < 10
        OBVIOUS
      <4>2. \A g : [n \in 0 .. 0 |-> Step(n, g)] = f
        BY <3>1, <4>1
      <4> QED BY <4>2
    <3> HIDE DEF Approx
    <3> QED BY <3>2
  <2>2. ASSUME NEW d \in Nat, d \in S  PROVE d + 1 \in S
    <3>1. PICK f : Approx(d, f)
      BY <2>2
    <3>2. \A g, h : Approx(d, g) /\ Approx(d, h) => g = h
      BY <2>2
    <3> DEFINE g == [n \in 0 .. d + 1 |-> Step(n, f)]
    <3>3. \A n \in 0 .. d + 1 : ~ (n < 10) => n \div 10 \in 0 .. d
      BY <1>1
    <3>4. \A n \in 0 .. d : g[n] = f[n]
      <4>1. \A n \in 0 .. d : n \in 0 .. d + 1
        OBVIOUS
      <4> HIDE DEF Step
      <4>2. \A n \in 0 .. d : f[n] = Step(n, f)
        BY <3>1
      <4> QED BY <4>1, <4>2
    <3>5. Approx(d + 1, g)
      <4>1. \A n \in 0 .. d + 1 : Step(n, g) = Step(n, f)
        <5> HIDE DEF g
        <5> QED BY <3>3, <3>4
      <4> QED BY <4>1
    <3>6. ASSUME NEW h, Approx(d + 1, h)  PROVE h = g
      <4>1. d \in 0 .. d + 1 /\ d + 1 \in Nat
        OBVIOUS
      <4>2. Approx(d, [n \in 0 .. d |-> h[n]])
        <5> HIDE DEF Approx
        <5> QED BY <1>2, <3>6, <4>1
      <4>3. [n \in 0 .. d |-> h[n]] = f
        <5> HIDE DEF Approx
        <5> QED BY <3>1, <3>2, <4>2
      <4>4. \A n \in 0 .. d : f[n] = h[n]
        BY <4>3
      <4>5. \A n \in 0 .. d + 1 : Step(n, h) = Step(n, f)
        BY <3>3, <4>4
      <4> QED BY <3>6, <4>5
    <3>7. d + 1 \in Nat
      OBVIOUS
    <3> HIDE DEF Approx, g
    <3> QED BY <3>5, <3>6, <3>7
  <2> HIDE DEF S
  <2> QED BY <2>1, <2>2, Induction
<1> DEFINE At0(d) == CHOOSE f : Approx(d, f)
           F == [n \in Nat |-> At0(n)[n]]
<1>4. \A d \in Nat : Approx(d, At0(d)) /\ \A f : Approx(d, f) => f = At0(d)
  <2> HIDE DEF Approx
  <2>1. \A d \in Nat : (\E f : Approx(d, f)) /\ \A f, g : Approx(d, f) /\ Approx(d, g) => f = g
    BY <1>3
  <2> QED BY <2>1
<1> HIDE DEF At0
<1>5. ASSUME NEW n \in Nat  PROVE F[n] = Step(n, F)
  <2>1. F[n] = Step(n, At0(n))
    <3>1. At0(n)[n] = Step(n, At0(n))
      <4>1. n \in 0 .. n
        OBVIOUS
      <4>2. Approx(n, At0(n))
        <5> HIDE DEF Approx
        <5> QED BY <1>4
      <4> HIDE DEF Step
      <4> QED BY <4>1, <4>2
    <3> QED BY <3>1
  <2>2. ASSUME ~ (n < 10)  PROVE F[n \div 10] = At0(n)[n \div 10]
    <3> DEFINE e == n \div 10
    <3>1. e \in Nat /\ e \in 0 .. n
      BY <1>1, <2>2
    <3> HIDE DEF e
    <3>2. [k \in 0 .. e |-> At0(n)[k]] = At0(e)
      <4>1. Approx(n, At0(n))
        BY <1>4
      <4> HIDE DEF Approx
      <4>2. Approx(e, [k \in 0 .. e |-> At0(n)[k]])
        BY <1>2, <3>1, <4>1
      <4> QED BY <1>4, <3>1, <4>2
    <3>3. At0(e)[e] = At0(n)[e]
      <4>1. e \in 0 .. e
        BY <3>1
      <4> QED BY <3>2, <4>1
    <3> QED BY <3>1, <3>3 DEF e
  <2> HIDE DEF F
  <2> QED BY <2>1, <2>2
<1>6. F = [n \in Nat |-> Step(n, F)]
  <2>1. F = [n \in Nat |-> F[n]]
    OBVIOUS
  <2> HIDE DEF F, Step
  <2> QED BY <1>5, <2>1
<1> DEFINE P == CHOOSE f : f = [n \in Nat |-> Step(n, f)]
<1>7. P = [n \in Nat |-> Step(n, P)]
  <2> HIDE DEF F, Step
  <2> QED BY <1>6
<1>8. Printed = P
  BY DEF Printed, One
<1> HIDE DEF P
<1>9. \A n \in Nat : P[n] = Step(n, P)
  <2> HIDE DEF Step
  <2> QED BY <1>7
<1> DEFINE R == Range(Digits)
           T == {d \in Nat : \A n \in 0 .. d : P[n] \in Seq(R)}
<1>10. \A n \in Nat : One(n) \in Seq(R)
  <2>1. \A n \in Nat : Digits[(n % 10) + 1] \in R
    BY DigitsTyped
  <2> HIDE DEF R
  <2> QED BY <2>1 DEF One
<1> HIDE DEF R
<1>11. Nat \subseteq T
  <2>1. 0 \in T
    <3>1. \A n \in 0 .. 0 : n \in Nat /\ n < 10
      OBVIOUS
    <3>2. \A s \in Seq(R) : <<>> \o s \in Seq(R)
      OBVIOUS
    <3>3. \A n \in 0 .. 0 : P[n] \in Seq(R)
      BY <1>9, <1>10, <3>1, <3>2
    <3> QED BY <3>3
  <2>2. ASSUME NEW d \in Nat, d \in T  PROVE d + 1 \in T
    <3>1. ASSUME NEW n \in 0 .. d + 1  PROVE P[n] \in Seq(R)
      <4>1. n \in Nat /\ (~ (n < 10) => n \div 10 \in 0 .. d)
        BY <1>1
      <4>2. (IF n < 10 THEN <<>> ELSE P[n \div 10]) \in Seq(R)
        BY <2>2, <4>1
      <4>3. \A s, t \in Seq(R) : s \o t \in Seq(R)
        OBVIOUS
      <4> QED BY <1>9, <1>10, <4>1, <4>2, <4>3
    <3> QED BY <3>1
  <2> HIDE DEF T
  <2> QED BY <2>1, <2>2, Induction
<1>12. \A n \in Nat : P[n] \in Seq(R)
  <2>1. \A n \in Nat : n \in 0 .. n
    OBVIOUS
  <2> QED BY <1>11, <2>1
<1> QED BY <1>8, <1>9, <1>12 DEF One, R

\* Numbers are printed in signs that are no keywords.
LEMMA NumbersTyped ==
  /\ \A x \in Decimals : FloatText(x) \in Seq(Bare)
  /\ \A v \in Values : v.type \in Numbers => NumberText(v) \in Seq(Bare)
<1> DEFINE D == Range(Digits)
           Q == Seq(Bare)
<1>1. D \subseteq Bare /\ {"-", "u", "inf", ".", "e", "+", "0"} \subseteq Bare
  BY BareJoined
<1>2. <<>> \in Q /\ \A s, t \in Q : s \o t \in Q
  BY BareJoined
<1>3. \A x, y \in Bare : <<x>> \in Q /\ <<x, y>> \in Q
  BY BareJoined
<1>4. \A s \in Seq(D) : s \in Q
  <2> HIDE DEF D
  <2> QED BY <1>1
<1>5. \A n \in Nat : Printed[n] \in Q
  <2> HIDE DEF Q
  <2> QED BY <1>4, PrintedTyped
<1> HIDE DEF Q
<1>6. Half \in Nat \ {0}
  BY NumberAssumption
<1>7. \A n \in Int : IntText(n) \in Q
  <2> SUFFICES ASSUME NEW n \in Int  PROVE IntText(n) \in Q
    OBVIOUS
  <2>1. CASE n < 0
    <3>1. -n \in Nat
      BY <2>1
    <3>2. <<"-">> \in Q /\ Printed[-n] \in Q
      BY <1>1, <1>3, <1>5, <3>1
    <3> QED BY <1>2, <2>1, <3>2 DEF IntText
  <2>2. CASE ~ (n < 0)
    <3>1. n \in Nat
      BY <2>2
    <3> QED BY <1>5, <2>2, <3>1 DEF IntText
  <2> QED BY <2>1, <2>2
<1>8. \A n \in Nat : UintText(n) \in Q
  BY <1>1, <1>2, <1>3, <1>5 DEF UintText
<1>9. \A e \in Int : ExpText(e) \in Q
  <2> SUFFICES ASSUME NEW e \in Int  PROVE ExpText(e) \in Q
    OBVIOUS
  <2> DEFINE sign == IF e < 0 THEN "-" ELSE "+"
             pad  == IF e \in -9 .. 9 THEN <<"0">> ELSE <<>>
             k    == IF e < 0 THEN -e ELSE e
  <2>1. sign \in Bare /\ pad \in Q
    BY <1>1, <1>2, <1>3
  <2>2. k \in Nat
    OBVIOUS
  <2>3. <<"e", sign>> \in Q /\ Printed[k] \in Q
    BY <1>1, <1>3, <1>5, <2>1, <2>2
  <2> HIDE DEF pad
  <2>4. <<"e", sign>> \o pad \o Printed[k] \in Q
    BY <1>2, <2>1, <2>3
  <2> QED BY <2>4 DEF ExpText, pad
<1>10. ASSUME NEW x \in Decimals  PROVE FloatText(x) \in Q
  <2>1. x.whole \in 0 .. Half - 1 \cup {NotFinite} /\ x.frac \in Seq(D) /\ x.exp \in Int
    BY <1>6 DEF Decimals
  <2> DEFINE a == IF x.neg THEN <<"-">> ELSE <<>>
             b == IF x.whole = NotFinite THEN <<"inf">> ELSE Printed[x.whole]
             c == IF x.frac = <<>> THEN <<>> ELSE <<".">> \o x.frac
             d == IF x.exp = 0 THEN <<>> ELSE ExpText(x.exp)
  <2>2. a \in Q
    BY <1>1, <1>2, <1>3
  <2>3. b \in Q
    <3>1. x.whole # NotFinite => x.whole \in Nat
      BY <1>6, <2>1
    <3> QED BY <1>1, <1>3, <1>5, <3>1
  <2>4. c \in Q
    <3>1. x.frac \in Q /\ <<".">> \in Q
      BY <1>1, <1>3, <1>4, <2>1
    <3> QED BY <1>2, <3>1
  <2>5. d \in Q
    BY <1>2, <1>9, <2>1
  <2> HIDE DEF a, b, c, d
  <2>6. a \o b \o c \o d \in Q
    BY <1>2, <2>2, <2>3, <2>4, <2>5
  <2> QED BY <2>6 DEF FloatText, a, b, c, d
<1>11. ASSUME NEW v \in Values, v.type \in Numbers  PROVE NumberText(v) \in Q
  <2>1. v.type \in PlainTypes /\ v.type \notin Containers
    BY <1>11 DEF Numbers, PlainTypes, Containers, ObjectTypes
  <2>2. PlainOK(v)
    BY <2>1, TextAssumption
  <2>3. CASE v.type = "int"
    <3>1. v.n \in Int
      BY <1>6, <2>2, <2>3 DEF PlainOK, Ints
    <3> QED BY <1>7, <2>3, <3>1 DEF NumberText
  <2>4. CASE v.type = "uint"
    <3>1. v.n \in Nat
      BY <1>6, <2>2, <2>4 DEF PlainOK, Uints
    <3> QED BY <1>8, <2>4, <3>1 DEF NumberText
  <2>5. CASE v.type = "float"
    <3>1. v.x \in Decimals
      BY <2>2, <2>5 DEF PlainOK
    <3> QED BY <1>10, <2>5, <3>1 DEF NumberText
  <2> QED BY <1>11, <2>3, <2>4, <2>5 DEF Numbers
<1> QED BY <1>10, <1>11 DEF Q

\* A member is a value nested less deeply; keys that are written are not NULL.
LEMMA MembersBelow ==
  /\ Depth \in [Values -> Nat]
  /\ \A v \in Values :
       /\ Len(Members(v)) \in Nat /\ DOMAIN Members(v) = 1 .. Len(Members(v))
       /\ \A i \in 1 .. Len(Members(v)) :
            /\ Child(v, i) \in Values /\ Depth[Child(v, i)] < Depth[v]
            /\ v.type \in ObjectTypes => KeyOf(v, i) \in Contents
<1>1. Depth \in [Values -> Nat]
  BY TextAssumption
<1>2. ASSUME NEW v \in Values
      PROVE  /\ Len(Members(v)) \in Nat /\ DOMAIN Members(v) = 1 .. Len(Members(v))
             /\ \A i \in 1 .. Len(Members(v)) :
                  /\ Child(v, i) \in Values /\ Depth[Child(v, i)] < Depth[v]
                  /\ v.type \in ObjectTypes => KeyOf(v, i) \in Contents
  <2>1. CASE v.type \in Containers /\ v.members # NULL
    <3>1. ContainerOK(v) /\ KeysOK(v)
      <4>1. v.type \notin PlainTypes
        BY <2>1 DEF PlainTypes, Containers, ObjectTypes, Numbers, StringTypes, Vectors, VectorSize
      <4> QED BY <4>1, TextAssumption
    <3> DEFINE K == [key : Contents \cup {NULL}, value : Values]
               m == Members(v)
    <3>2. m = v.members /\ v.members \in Seq(K)
      BY <2>1, <3>1 DEF ContainerOK, Members
    <3>3. \A i \in DOMAIN m : Depth[Child(v, i)] < Depth[v]
      BY <3>1 DEF ContainerOK, Child
    <3>4. \A k \in K : k.value \in Values /\ k.key \in Contents \cup {NULL}
      OBVIOUS
    <3>5. \A i \in DOMAIN m : v.type \in ObjectTypes => KeyOf(v, i) # NULL
      BY <3>1 DEF KeysOK
    <3> HIDE DEF K
    <3>6. \A s \in Seq(K) : Len(s) \in Nat /\ DOMAIN s = 1 .. Len(s) /\ \A i \in 1 .. Len(s) : s[i] \in K
      OBVIOUS
    <3>7. Len(m) \in Nat /\ DOMAIN m = 1 .. Len(m) /\ \A i \in 1 .. Len(m) : m[i] \in K
      BY <3>2, <3>6
    <3> QED BY <3>3, <3>4, <3>5, <3>7 DEF Child, KeyOf
  <2>2. CASE ~ (v.type \in Containers /\ v.members # NULL)
    <3>1. Members(v) = <<>>
      BY <2>2 DEF Members
    <3> QED BY <3>1
  <2> QED BY <2>1, <2>2
<1> QED BY <1>1, <1>2

\* What a function on values gives for the members of one.
OfMembers(v, f) == [i \in DOMAIN Members(v) |-> f[Child(v, i)]]

\* What the three functions on trees make of a value, given what they make of
\* its members.
Part(below, k) == [i \in DOMAIN below |-> below[i][k]]
Three(v, below) ==
  <<Rendered(v, Part(below, 1)), KeptOf(v, Part(below, 2)), ReadableOf(v, Part(below, 3))>>
Threefold(f) == f = [u \in Values |-> Three(u, OfMembers(u, f))]

\* Trees are finite, so that there is one function on them that does this.
LEMMA Recursion == \E f : Threefold(f)
<1> DEFINE Low(d) == {v \in Values : Depth[v] < d}
           Body(u, f) == Three(u, OfMembers(u, f))
           Approx(d, f) == f = [u \in Low(d) |-> Body(u, f)]
           S == {d \in Nat : (\E f : Approx(d, f)) /\ \A f, g : Approx(d, f) /\ Approx(d, g) => f = g}
<1>0. ASSUME NEW u \in Values, NEW f, NEW g, \A i \in DOMAIN Members(u) : f[Child(u, i)] = g[Child(u, i)]
      PROVE  Body(u, f) = Body(u, g)
  <2>1. OfMembers(u, f) = OfMembers(u, g)
    BY <1>0 DEF OfMembers
  <2> QED BY <2>1
<1> HIDE DEF Body
<1>1. /\ Depth \in [Values -> Nat]
      /\ \A v \in Values : \A i \in DOMAIN Members(v) : Child(v, i) \in Values /\ Depth[Child(v, i)] < Depth[v]
  BY MembersBelow
<1>2. ASSUME NEW d \in Nat, NEW e \in Nat, e <= d, NEW f, Approx(d, f)
      PROVE  Approx(e, [u \in Low(e) |-> f[u]])
  <2> DEFINE g == [u \in Low(e) |-> f[u]]
  <2>1. Low(e) \subseteq Low(d)
    BY <1>1, <1>2
  <2>2. ASSUME NEW u \in Low(e)  PROVE Body(u, g) = Body(u, f)
    <3>1. \A i \in DOMAIN Members(u) : Child(u, i) \in Low(e)
      BY <1>1
    <3>2. u \in Values
      OBVIOUS
    <3> HIDE DEF Low
    <3>3. \A i \in DOMAIN Members(u) : g[Child(u, i)] = f[Child(u, i)]
      BY <3>1
    <3> HIDE DEF g
    <3> QED BY <1>0, <3>2, <3>3
  <2>3. \A u \in Low(e) : g[u] = Body(u, g)
    <3> HIDE DEF Low, g
    <3>1. \A u \in Low(e) : g[u] = f[u]
      BY DEF g
    <3> QED BY <1>2, <2>1, <2>2, <3>1
  <2> HIDE DEF Low
  <2>4. g = [u \in Low(e) |-> g[u]]
    OBVIOUS
  <2> HIDE DEF g
  <2>5. g = [u \in Low(e) |-> Body(u, g)]
    BY <2>3, <2>4
  <2> QED BY <2>5 DEF g
<1>3. Nat \subseteq S
  <2>1. 0 \in S
    <3>1. Low(0) = {}
      BY <1>1
    <3>2. \A f : Approx(0, f) <=> f = [u \in {} |-> 0]
      BY <3>1
    <3> HIDE DEF Approx
    <3> QED BY <3>2
  <2>2. ASSUME NEW d \in Nat, d \in S  PROVE d + 1 \in S
    <3>1. PICK f : Approx(d, f)
      BY <2>2
    <3>2. \A g, h : Approx(d, g) /\ Approx(d, h) => g = h
      BY <2>2
    <3>3. \A u \in Low(d + 1) : u \in Values /\ \A i \in DOMAIN Members(u) : Child(u, i) \in Low(d)
      <4> SUFFICES ASSUME NEW u \in Low(d + 1), NEW i \in DOMAIN Members(u)
                   PROVE  Child(u, i) \in Low(d)
        OBVIOUS
      <4>1. u \in Values /\ Depth[u] \in Nat /\ Depth[u] < d + 1
        BY <1>1
      <4>2. Child(u, i) \in Values /\ Depth[Child(u, i)] < Depth[u] /\ Depth[Child(u, i)] \in Nat
        BY <1>1, <4>1
      <4> QED BY <4>1, <4>2
    <3> DEFINE g == [u \in Low(d + 1) |-> Body(u, f)]
    <3>4. Approx(d + 1, g)
      <4>1. Low(d) \subseteq Low(d + 1)
        BY <1>1
      <4> HIDE DEF Low
      <4>2. \A u \in Low(d) : g[u] = f[u]
        BY <3>1, <4>1
      <4> HIDE DEF g
      <4>3. \A u \in Low(d + 1) : Body(u, g) = Body(u, f)
        BY <1>0, <3>3, <4>2
      <4> QED BY <4>3 DEF g
    <3>5. ASSUME NEW h, Approx(d + 1, h)  PROVE h = g
      <4>1. Approx(d, [u \in Low(d) |-> h[u]])
        <5>1. d + 1 \in Nat /\ d <= d + 1
          OBVIOUS
        <5> HIDE DEF Approx
        <5> QED BY <1>2, <3>5, <5>1
      <4>2. [u \in Low(d) |-> h[u]] = f
        <5> HIDE DEF Approx
        <5> QED BY <3>1, <3>2, <4>1
      <4> HIDE DEF Low
      <4>3. \A u \in Low(d) : f[u] = h[u]
        BY <4>2
      <4>4. \A u \in Low(d + 1) : Body(u, h) = Body(u, f)
        BY <1>0, <3>3, <4>3
      <4> QED BY <3>5, <4>4
    <3>6. d + 1 \in Nat
      OBVIOUS
    <3> HIDE DEF Approx, g
    <3> QED BY <3>4, <3>5, <3>6
  <2> HIDE DEF S
  <2> QED BY <2>1, <2>2, Induction
<1> DEFINE At0(d) == CHOOSE f : Approx(d, f)
           F == [u \in Values |-> At0(Depth[u] + 1)[u]]
<1>4. \A d \in Nat : Approx(d, At0(d)) /\ \A f : Approx(d, f) => f = At0(d)
  <2> HIDE DEF Approx
  <2>1. \A d \in Nat : (\E f : Approx(d, f)) /\ \A f, g : Approx(d, f) /\ Approx(d, g) => f = g
    BY <1>3
  <2> QED BY <2>1
<1> HIDE DEF At0
<1>5. ASSUME NEW u \in Values  PROVE F[u] = Body(u, F)
  <2> DEFINE d == Depth[u] + 1
  <2>1. d \in Nat /\ u \in Low(d)
    BY <1>1
  <2>2. F[u] = Body(u, At0(d))
    <3> HIDE DEF Low
    <3>1. At0(d)[u] = Body(u, At0(d))
      BY <1>4, <2>1
    <3> QED BY <3>1
  <2>3. ASSUME NEW i \in DOMAIN Members(u)
        PROVE  F[Child(u, i)] = At0(d)[Child(u, i)]
    <3> DEFINE w == Child(u, i)
               e == Depth[w] + 1
    <3>1. w \in Values /\ e \in Nat /\ e <= d /\ w \in Low(e)
      <4>1. w \in Values /\ Depth[w] < Depth[u] /\ Depth[w] \in Nat /\ Depth[u] \in Nat
        BY <1>1
      <4> QED BY <4>1
    <3>2. [x \in Low(e) |-> At0(d)[x]] = At0(e)
      <4>1. Approx(d, At0(d))
        BY <1>4, <2>1
      <4> HIDE DEF Approx, d, e
      <4>2. Approx(e, [x \in Low(e) |-> At0(d)[x]])
        BY <1>2, <2>1, <3>1, <4>1
      <4> QED BY <1>4, <3>1, <4>2
    <3> HIDE DEF Low, d
    <3>3. At0(e)[w] = At0(d)[w]
      BY <3>1, <3>2
    <3> QED BY <3>1, <3>3
  <2> HIDE DEF F
  <2>4. Body(u, F) = Body(u, At0(d))
    BY <1>0, <2>3
  <2> QED BY <2>2, <2>4
<1>6. F = [u \in Values |-> F[u]]
  OBVIOUS
<1> HIDE DEF F
<1>7. F = [u \in Values |-> Body(u, F)]
  BY <1>5, <1>6
<1>8. Threefold(F)
  BY <1>7 DEF Body, Threefold
<1> QED BY <1>8

\* So each of the three satisfies the equation that its definition states.
LEMMA Unfolded ==
  \A v \in Values : /\ ValueText[v] = Rendered(v, OfMembers(v, ValueText))
                   /\ Kept[v] = KeptOf(v, OfMembers(v, Kept))
                   /\ Readable[v] = ReadableOf(v, OfMembers(v, Readable))
<1>0. PICK f : Threefold(f)
  BY Recursion
<1>1. \A u \in Values : f[u] = Three(u, OfMembers(u, f))
  BY <1>0 DEF Threefold
<1>2. \A u \in Values : /\ f[u][1] = Rendered(u, Part(OfMembers(u, f), 1))
                        /\ f[u][2] = KeptOf(u, Part(OfMembers(u, f), 2))
                        /\ f[u][3] = ReadableOf(u, Part(OfMembers(u, f), 3))
  BY <1>1 DEF Three
<1>3. \A u \in Values : \A i \in DOMAIN Members(u) : Child(u, i) \in Values
  BY MembersBelow
<1>4. ASSUME NEW k, NEW u \in Values
      PROVE  Part(OfMembers(u, f), k) = OfMembers(u, [x \in Values |-> f[x][k]])
  BY <1>3 DEF Part, OfMembers
<1> DEFINE F1 == CHOOSE g : g = [u \in Values |-> Rendered(u, OfMembers(u, g))]
           F2 == CHOOSE g : g = [u \in Values |-> KeptOf(u, OfMembers(u, g))]
           F3 == CHOOSE g : g = [u \in Values |-> ReadableOf(u, OfMembers(u, g))]
<1>5. F1 = [u \in Values |-> Rendered(u, OfMembers(u, F1))]
  <2> DEFINE g == [x \in Values |-> f[x][1]]
  <2>1. \A u \in Values : g[u] = Rendered(u, OfMembers(u, g))
    BY <1>2, <1>4
  <2>2. g = [u \in Values |-> g[u]]
    OBVIOUS
  <2> HIDE DEF g
  <2>3. g = [u \in Values |-> Rendered(u, OfMembers(u, g))]
    BY <2>1, <2>2
  <2> QED BY <2>3
<1>6. F2 = [u \in Values |-> KeptOf(u, OfMembers(u, F2))]
  <2> DEFINE g == [x \in Values |-> f[x][2]]
  <2>1. \A u \in Values : g[u] = KeptOf(u, OfMembers(u, g))
    BY <1>2, <1>4
  <2>2. g = [u \in Values |-> g[u]]
    OBVIOUS
  <2> HIDE DEF g
  <2>3. g = [u \in Values |-> KeptOf(u, OfMembers(u, g))]
    BY <2>1, <2>2
  <2> QED BY <2>3
<1>7. F3 = [u \in Values |-> ReadableOf(u, OfMembers(u, F3))]
  <2> DEFINE g == [x \in Values |-> f[x][3]]
  <2>1. \A u \in Values : g[u] = ReadableOf(u, OfMembers(u, g))
    BY <1>2, <1>4
  <2>2. g = [u \in Values |-> g[u]]
    OBVIOUS
  <2> HIDE DEF g
  <2>3. g = [u \in Values |-> ReadableOf(u, OfMembers(u, g))]
    BY <2>1, <2>2
  <2> QED BY <2>3
<1>8. ValueText = F1 /\ Kept = F2 /\ Readable = F3
  BY DEF ValueText, Kept, Readable, OfMembers
<1> HIDE DEF F1, F2, F3
<1> QED BY <1>5, <1>6, <1>7, <1>8

\* So are strings and lists of numbers.
LEMMA StringsTyped ==
  /\ \A c \in Characters : Escaped(c) \in Seq(Bare)
  /\ \A str \in Seq(Characters) \cup {NULL} : Quoted(str) \in Seq(Bare)
  /\ \A xs \in Seq(Decimals) : FloatListText(xs) \in Seq(Bare)
<1> DEFINE Q == Seq(Bare)
<1>1. <<>> \in Q /\ \A s, t \in Q : s \o t \in Q
  BY BareJoined
<1>2. \A x, y \in Bare : <<x>> \in Q /\ <<x, y>> \in Q
  BY BareJoined
<1>3. {"\"", "\\", "(", ",", ")"} \subseteq Bare /\ DOMAIN Letters \subseteq Bare /\ Characters \subseteq Bare
  BY BareJoined
<1>4. \A seqs \in Seq(Q) : FlattenSeq(seqs) \in Q
  BY Flattened
<1> HIDE DEF Q
<1>5. \A c \in Characters : Escaped(c) \in Q
  <2> SUFFICES ASSUME NEW c \in Characters  PROVE Escaped(c) \in Q
    OBVIOUS
  <2>1. CASE c \in Range(Letters)
    <3> DEFINE l == CHOOSE k \in DOMAIN Letters : Letters[k] = c
    <3>1. l \in DOMAIN Letters
      BY <2>1 DEF Range
    <3> HIDE DEF l
    <3>2. <<"\\", l>> \in Q
      BY <1>2, <1>3, <3>1
    <3> QED BY <2>1, <3>2 DEF Escaped, l
  <2>2. CASE c \notin Range(Letters)
    <3>1. <<"\\", c>> \in Q /\ <<c>> \in Q
      BY <1>2, <1>3
    <3> QED BY <2>2, <3>1 DEF Escaped
  <2> QED BY <2>1, <2>2
<1>6. ASSUME NEW str \in Seq(Characters) \cup {NULL}  PROVE Quoted(str) \in Q
  <2> DEFINE e == [i \in DOMAIN str |-> Escaped(str[i])]
  <2>1. str # NULL => FlattenSeq(e) \in Q
    <3>1. ASSUME str # NULL  PROVE e \in Seq(Q)
      <4>1. str \in Seq(Characters)
        BY <3>1
      <4>2. Len(str) \in Nat /\ DOMAIN str = 1 .. Len(str) /\ \A i \in 1 .. Len(str) : str[i] \in Characters
        BY <4>1
      <4> QED BY <1>5, <4>2
    <3> HIDE DEF e
    <3> QED BY <1>4, <3>1
  <2>2. (IF str = NULL THEN <<>> ELSE FlattenSeq(e)) \in Q
    BY <1>1, <2>1
  <2> HIDE DEF e
  <2>3. <<"\"">> \o (IF str = NULL THEN <<>> ELSE FlattenSeq(e)) \o <<"\"">> \in Q
    BY <1>1, <1>2, <1>3, <2>2
  <2> QED BY <2>3 DEF Quoted, e
<1>7. ASSUME NEW xs \in Seq(Decimals)  PROVE FloatListText(xs) \in Q
  <2> DEFINE lead(i) == IF i > 1 THEN <<",">> ELSE <<>>
             e == [i \in DOMAIN xs |-> lead(i) \o FloatText(xs[i])]
  <2>1. Len(xs) \in Nat /\ DOMAIN xs = 1 .. Len(xs) /\ \A i \in 1 .. Len(xs) : xs[i] \in Decimals
    OBVIOUS
  <2>2. \A i \in 1 .. Len(xs) : FloatText(xs[i]) \in Q
    BY <2>1, NumbersTyped DEF Q
  <2>3. \A i \in 1 .. Len(xs) : lead(i) \in Q
    BY <1>1, <1>2, <1>3
  <2> HIDE DEF lead
  <2>4. e \in Seq(Q)
    BY <1>1, <2>1, <2>2, <2>3
  <2> HIDE DEF e
  <2>5. <<"(">> \o FlattenSeq(e) \o <<")">> \in Q
    BY <1>1, <1>2, <1>3, <1>4, <2>4
  <2> QED BY <2>5 DEF FloatListText, e, lead
<1> QED BY <1>5, <1>6, <1>7 DEF Q

\* Names are written as one word.
LEMMA OneWord == \A name \in Contents : Spelled(name) = <<name>>
BY KeyAssumption DEF Spelled

\* The members of containers are written in signs.
LEMMA PartsTyped ==
  \A v \in Values : \A below \in Seq(Seq(Signs)) :
    Len(below) = Len(Members(v)) =>
      /\ v.type = "array" => ItemsText(below) \in Seq(Signs)
      /\ v.type \in ObjectTypes => BodyText(v, below) \in Seq(Signs)
<1> DEFINE Q == Seq(Signs)
<1>1. <<>> \in Q /\ \A s, t \in Q : s \o t \in Q
  BY SignsJoined
<1>2. \A x, y \in Signs : <<x>> \in Q /\ <<x, y>> \in Q
  BY SignsJoined
<1>3. {",", "=", NewLine} \subseteq Signs /\ Contents \subseteq Signs
  BY DEF Signs, Marks
<1>4. \A seqs \in Seq(Q) : FlattenSeq(seqs) \in Q
  BY Flattened
<1> HIDE DEF Q
<1>5. ASSUME NEW v \in Values, NEW below \in Seq(Q), Len(below) = Len(Members(v)), v.type = "array"
      PROVE  ItemsText(below) \in Q
  <2> DEFINE comma(i) == IF i < Len(below) THEN <<",">> ELSE <<>>
             e == [i \in DOMAIN below |-> below[i] \o comma(i) \o <<NewLine>>]
  <2>1. Len(below) \in Nat /\ DOMAIN below = 1 .. Len(below) /\ \A i \in 1 .. Len(below) : below[i] \in Q
    OBVIOUS
  <2>2. \A i \in 1 .. Len(below) : comma(i) \in Q
    BY <1>1, <1>2, <1>3
  <2>3. <<NewLine>> \in Q
    BY <1>2, <1>3
  <2> HIDE DEF comma
  <2>4. \A i \in 1 .. Len(below) : below[i] \o comma(i) \o <<NewLine>> \in Q
    BY <1>1, <2>1, <2>2, <2>3
  <2>5. e \in Seq(Q)
    BY <2>1, <2>4
  <2> HIDE DEF e
  <2> QED BY <1>4, <2>5 DEF ItemsText, e, comma
<1>6. ASSUME NEW v \in Values, NEW below \in Seq(Q), Len(below) = Len(Members(v)), v.type \in ObjectTypes
      PROVE  BodyText(v, below) \in Q
  <2> DEFINE sign(i) == IF Shorthand(Child(v, i)) THEN <<>> ELSE <<"=">>
             e == [i \in DOMAIN below |-> Spelled(KeyOf(v, i)) \o sign(i) \o below[i] \o <<NewLine>>]
  <2>1. Len(below) \in Nat /\ DOMAIN below = 1 .. Len(below) /\ \A i \in 1 .. Len(below) : below[i] \in Q
    OBVIOUS
  <2>2. \A i \in 1 .. Len(below) : sign(i) \in Q
    BY <1>1, <1>2, <1>3
  <2>3. <<NewLine>> \in Q
    BY <1>2, <1>3
  <2>4. \A i \in 1 .. Len(below) : Spelled(KeyOf(v, i)) \in Q
    <3>1. \A i \in 1 .. Len(below) : KeyOf(v, i) \in Contents
      BY <1>6, MembersBelow
    <3> QED BY <1>2, <1>3, <3>1, OneWord
  <2> HIDE DEF sign
  <2>5. \A i \in 1 .. Len(below) : Spelled(KeyOf(v, i)) \o sign(i) \o below[i] \o <<NewLine>> \in Q
    BY <1>1, <2>1, <2>2, <2>3, <2>4
  <2>6. e \in Seq(Q)
    BY <2>1, <2>5
  <2> HIDE DEF e
  <2> QED BY <1>4, <2>6 DEF BodyText, e, sign
<1> QED BY <1>5, <1>6 DEF Q

\* A value is rendered in signs if its members are.
LEMMA RenderedTyped ==
  ASSUME NEW v \in Values, NEW below \in Seq(Seq(Signs)), Len(below) = Len(Members(v))
  PROVE  Rendered(v, below) \in Seq(Signs)
<1> DEFINE Q == Seq(Signs)
<1>1. <<>> \in Q /\ \A s, t \in Q : s \o t \in Q
  BY SignsJoined
<1>2. \A x, y \in Signs : <<x>> \in Q /\ <<x, y>> \in Q
  BY SignsJoined
<1>3. \A word \in Keywords : Keyword(word) \in Q
  <2>1. Keywords \subseteq Signs /\ "~" \in Signs
    BY DEF Signs, Marks
  <2> QED BY <1>2, <2>1 DEF Keyword
<1>4. <<"(">> \in Q /\ <<")">> \in Q /\ <<"[", "]">> \in Q /\ <<"[", NewLine>> \in Q /\ <<"]">> \in Q
      /\ <<"{", "}">> \in Q /\ <<"{", NewLine>> \in Q /\ <<"}">> \in Q
  <2>1. {"(", ")", "[", "]", "{", "}", NewLine} \subseteq Signs
    BY DEF Signs, Marks
  <2> QED BY <1>2, <2>1
<1>5. (v.type \in PlainTypes /\ PlainOK(v)) \/ (v.type \in Containers /\ ContainerOK(v))
  BY TextAssumption
<1>6. /\ \A str \in Seq(Characters) \cup {NULL} : Quoted(str) \in Q
      /\ \A xs \in Seq(Decimals) : FloatListText(xs) \in Q
      /\ v.type = "array" => ItemsText(below) \in Q
      /\ v.type \in ObjectTypes => BodyText(v, below) \in Q
  BY StringsTyped, PartsTyped, BareJoined
<1>7. v.type \in Numbers => NumberText(v) \in Q
  BY NumbersTyped, BareJoined
<1> HIDE DEF Q
<1> SUFFICES Rendered(v, below) \in Q
  BY DEF Q
<1>8. CASE v.type \in PlainTypes
  <2>1. v.type \notin Containers
    BY <1>8 DEF PlainTypes, Containers, ObjectTypes, Numbers, StringTypes, Vectors, VectorSize
  <2>2. PlainOK(v)
    BY <1>5, <2>1
  <2>3. CASE v.type \in {"null", "bool"}
    <3>1. Keyword("null") \in Q /\ Keyword(IF v.flag THEN "true" ELSE "false") \in Q
      <4>1. "null" \in Keywords /\ (IF v.flag THEN "true" ELSE "false") \in Keywords
        BY DEF Keywords
      <4> QED BY <1>3, <4>1
    <3>2. Rendered(v, below) = Keyword("null") \/ Rendered(v, below) = Keyword(IF v.flag THEN "true" ELSE "false")
      <4>1. v.type \notin Numbers \cup Vectors \cup ObjectTypes
        BY <2>3 DEF Numbers, Vectors, VectorSize, ObjectTypes
      <4> QED BY <2>3, <4>1 DEF Rendered
    <3> QED BY <3>1, <3>2
  <2>4. CASE v.type \in Numbers
    <3>1. Rendered(v, below) = NumberText(v)
      <4>1. v.type \notin Vectors \cup ObjectTypes
        BY <2>4 DEF Numbers, Vectors, VectorSize, ObjectTypes
      <4>2. v.type \notin {"null", "bool", "string", "asset_ref", "resource_ref", "array"}
        BY <2>4 DEF Numbers
      <4> QED BY <2>4, <4>1, <4>2 DEF Rendered
    <3> QED BY <1>7, <2>4, <3>1
  <2>5. CASE v.type \in StringTypes
    <3>1. v.str \in Seq(Characters) \cup {NULL}
      BY <2>2, <2>5 DEF PlainOK
    <3>2. Quoted(v.str) \in Q
      BY <1>6, <3>1
    <3>3. Keyword("asset") \in Q /\ Keyword("external") \in Q
      <4>1. "asset" \in Keywords /\ "external" \in Keywords
        BY DEF Keywords
      <4> QED BY <1>3, <4>1
    <3>4. /\ Keyword("asset") \o <<"(">> \o Quoted(v.str) \o <<")">> \in Q
          /\ Keyword("external") \o <<"(">> \o Quoted(v.str) \o <<")">> \in Q
      BY <1>1, <1>4, <3>2, <3>3
    <3>5. \/ Rendered(v, below) = Quoted(v.str)
          \/ Rendered(v, below) = Keyword("asset") \o <<"(">> \o Quoted(v.str) \o <<")">>
          \/ Rendered(v, below) = Keyword("external") \o <<"(">> \o Quoted(v.str) \o <<")">>
      <4>1. v.type \notin Numbers \cup Vectors \cup ObjectTypes /\ v.type \in {"string", "asset_ref", "resource_ref"}
        BY <2>5 DEF StringTypes, Numbers, Vectors, VectorSize, ObjectTypes
      <4> QED BY <4>1 DEF Rendered
    <3> QED BY <3>2, <3>4, <3>5
  <2>6. CASE v.type \in Vectors
    <3>1. v.xs \in Seq(Decimals)
      BY <2>2, <2>6 DEF PlainOK
    <3>2. Keyword(v.type) \in Q
      <4>1. v.type \in Keywords
        BY <2>6 DEF Keywords
      <4> QED BY <1>3, <4>1
    <3>3. Rendered(v, below) = Keyword(v.type) \o FloatListText(v.xs)
      <4>1. v.type \notin Numbers /\ v.type \notin {"null", "bool", "string"}
        BY <2>6 DEF Numbers, Vectors, VectorSize
      <4>2. v.type \notin {"asset_ref", "resource_ref", "array"} \cup ObjectTypes
        BY <2>6 DEF ObjectTypes, Vectors, VectorSize
      <4> QED BY <2>6, <4>1, <4>2 DEF Rendered
    <3> QED BY <1>1, <1>6, <3>1, <3>2, <3>3
  <2> QED BY <1>8, <2>3, <2>4, <2>5, <2>6 DEF PlainTypes
<1>9. CASE v.type = "array"
  <2>1. Rendered(v, below) = IF below = <<>> THEN <<"[", "]">> ELSE <<"[", NewLine>> \o ItemsText(below) \o <<"]">>
    <3>1. v.type \notin Numbers \cup Vectors \cup ObjectTypes
      BY <1>9 DEF Numbers, Vectors, VectorSize, ObjectTypes
    <3> QED BY <1>9, <3>1 DEF Rendered
  <2>2. <<"[", NewLine>> \o ItemsText(below) \o <<"]">> \in Q
    BY <1>1, <1>4, <1>6, <1>9
  <2> QED BY <1>4, <2>1, <2>2
<1>10. CASE v.type \in ObjectTypes
  <2> DEFINE named == IF v.name = NULL THEN <<>> ELSE Keyword("subresource") \o Spelled(v.name)
  <2>1. Rendered(v, below) = IF v.members = NULL THEN <<"{", "}">>
                             ELSE named \o <<"{", NewLine>> \o BodyText(v, below) \o <<"}">>
    <3>1. v.type \notin Numbers \cup Vectors /\ v.type # "array"
          /\ v.type \notin {"null", "bool", "string", "asset_ref", "resource_ref"}
      BY <1>10 DEF Numbers, Vectors, VectorSize, ObjectTypes
    <3> QED BY <1>10, <3>1 DEF Rendered
  <2>2. named \in Q
    <3>1. v.name # NULL => v.name \in Signs /\ v.name \in Contents
      <4>1. v.type \notin PlainTypes
        BY <1>10 DEF PlainTypes, ObjectTypes, Numbers, StringTypes, Vectors, VectorSize
      <4> QED BY <1>5, <4>1 DEF ContainerOK, Signs
    <3>2. Keyword("subresource") \in Q
      <4>1. "subresource" \in Keywords
        BY DEF Keywords
      <4> QED BY <1>3, <4>1
    <3>3. v.name # NULL => Spelled(v.name) \in Q
      BY <1>2, <3>1, OneWord
    <3> QED BY <1>1, <3>2, <3>3
  <2> HIDE DEF named
  <2>3. named \o <<"{", NewLine>> \o BodyText(v, below) \o <<"}">> \in Q
    BY <1>1, <1>4, <1>6, <1>10, <2>2
  <2> QED BY <1>4, <2>1, <2>3
<1> QED BY <1>5, <1>8, <1>9, <1>10 DEF Containers

\* All values are written in signs.
LEMMA ValuesTyped ==
  \A v \in Values : ValueText[v] \in Seq(Signs) /\ OfMembers(v, ValueText) \in Seq(Seq(Signs))
                    /\ Len(OfMembers(v, ValueText)) = Len(Members(v))
<1> DEFINE S == {d \in Nat : \A v \in Values : Depth[v] < d => ValueText[v] \in Seq(Signs)}
<1>1. ASSUME NEW v \in Values, \A i \in 1 .. Len(Members(v)) : ValueText[Child(v, i)] \in Seq(Signs)
      PROVE  ValueText[v] \in Seq(Signs) /\ OfMembers(v, ValueText) \in Seq(Seq(Signs))
             /\ Len(OfMembers(v, ValueText)) = Len(Members(v))
  <2> DEFINE m == OfMembers(v, ValueText)
  <2>1. Len(Members(v)) \in Nat /\ DOMAIN Members(v) = 1 .. Len(Members(v))
    BY MembersBelow
  <2>2. m \in Seq(Seq(Signs)) /\ Len(m) = Len(Members(v))
    BY <1>1, <2>1 DEF OfMembers
  <2> HIDE DEF m
  <2>3. Rendered(v, m) \in Seq(Signs)
    BY <2>2, RenderedTyped
  <2> QED BY <2>2, <2>3, Unfolded DEF m
<1>2. Nat \subseteq S
  <2>1. 0 \in S
    BY MembersBelow
  <2>2. ASSUME NEW d \in Nat, d \in S  PROVE d + 1 \in S
    <3>1. ASSUME NEW v \in Values, Depth[v] < d + 1  PROVE ValueText[v] \in Seq(Signs)
      <4>1. \A i \in 1 .. Len(Members(v)) : Child(v, i) \in Values /\ Depth[Child(v, i)] < d
        <5>1. \A i \in 1 .. Len(Members(v)) : Child(v, i) \in Values /\ Depth[Child(v, i)] < Depth[v]
          BY MembersBelow
        <5>2. \A u \in Values : Depth[u] \in Nat
          BY MembersBelow
        <5> QED BY <3>1, <5>1, <5>2
      <4> QED BY <1>1, <2>2, <4>1
    <3> QED BY <3>1
  <2> HIDE DEF S
  <2> QED BY <2>1, <2>2, Induction
<1>3. \A v \in Values : ValueText[v] \in Seq(Signs)
  <2>1. \A v \in Values : Depth[v] + 1 \in Nat /\ Depth[v] < Depth[v] + 1
    BY MembersBelow
  <2> QED BY <1>2, <2>1
<1> QED BY <1>1, <1>3, MembersBelow

\* And so is a document.
LEMMA TextTyped ==
  ASSUME NEW root \in Documents
  PROVE  Text(root) \in Seq(Signs)
<1> DEFINE Q == Seq(Signs)
           m == [i \in DOMAIN Members(root) |-> ValueText[Child(root, i)]]
           rest == IF Members(root) = <<>> THEN <<>> ELSE <<NewLine>> \o BodyText(root, m)
<1>1. root \in Values /\ root.type \in ObjectTypes
  BY TextAssumption DEF ObjectTypes
<1>2. m \in Seq(Q) /\ Len(m) = Len(Members(root))
  BY <1>1, ValuesTyped DEF OfMembers
<1> HIDE DEF m
<1>3. BodyText(root, m) \in Q
  BY <1>1, <1>2, PartsTyped
<1>4. {"kdf", "~", "1", NewLine} \subseteq Signs
  BY DEF Signs, Marks, Keywords
<1>5. Keyword("kdf") \in Q /\ <<"1", NewLine>> \in Q /\ <<NewLine>> \in Q
  BY <1>4, SignsJoined DEF Keyword
<1>6. <<>> \in Q /\ \A s, t \in Q : s \o t \in Q
  BY SignsJoined
<1> HIDE DEF Q
<1>7. rest \in Q
  BY <1>3, <1>5, <1>6
<1> HIDE DEF rest
<1>8. Keyword("kdf") \o <<"1", NewLine>> \o rest \in Q
  BY <1>5, <1>6, <1>7
<1> QED BY <1>8 DEF Text, Q, rest, m

-----------------------------------------------------------------------------
(* The writer. *)

\* The invariant of the writer: what was accepted and what remains make up the
\* text of the document, or the former is a beginning of it.
WriterInv ==
  /\ doc \in Documents /\ werror \in {"ok", "io"} /\ out \in Seq(Signs) /\ todo \in Seq(Signs)
  /\ werror = "ok" => out \o todo = Text(doc)
  /\ werror = "io" => Begins(out, Text(doc))

\* A write is accepted, or its failure sticks.
LEMMA WriteCharKeeps ==
  ASSUME WriterInv, WriteChar
  PROVE  WriterInv'
<1>1. /\ doc \in Documents /\ werror \in {"ok", "io"} /\ out \in Seq(Signs) /\ todo \in Seq(Signs) /\ todo # <<>>
      /\ werror = "ok" => out \o todo = Text(doc)
      /\ werror = "io" => Begins(out, Text(doc))
  BY DEF WriterInv, WriteChar
<1>2. /\ \E written \in TwWrite(out, werror, Head(todo)) : out' = written[1] /\ werror' = written[2]
      /\ todo' = Tail(todo) /\ doc' = doc
  BY DEF WriteChar
<1>3. PICK T : T = Text(doc)
  OBVIOUS
<1>4. PICK x, rest : x = Head(todo) /\ rest = Tail(todo)
  OBVIOUS
<1>5. x \in Signs /\ rest \in Seq(Signs)
  BY <1>1, <1>4, HeadAndTail
<1>6. Append(out, x) \in Seq(Signs) /\ Append(out, x) \o rest = out \o todo
  BY <1>1, <1>4
<1>7. \/ werror = "ok" /\ out' = Append(out, x) /\ werror' = "ok"
      \/ werror = "ok" /\ out' = out /\ werror' = "io"
      \/ werror = "io" /\ out' = out /\ werror' = "io"
  BY <1>1, <1>2, <1>4 DEF TwWrite
<1>8. werror = "ok" => Begins(out, T)
  BY <1>1, <1>3, BeginsConcat
<1>9. out' \in Seq(Signs) /\ werror' \in {"ok", "io"} /\ Text(doc') = T /\ todo' = rest
  BY <1>1, <1>2, <1>3, <1>4, <1>6, <1>7
<1>10. werror' = "ok" => out' \o todo' = T
  BY <1>1, <1>3, <1>6, <1>7, <1>9
<1>11. werror' = "io" => Begins(out', T)
  BY <1>1, <1>3, <1>7, <1>8
<1> QED BY <1>1, <1>2, <1>5, <1>9, <1>10, <1>11 DEF WriterInv

\* So the invariant of the writer holds, and the parser leaves it alone.
LEMMA WriterSound == Spec => []WriterInv
<1>1. Init => WriterInv
  <2> SUFFICES ASSUME Init  PROVE WriterInv
    OBVIOUS
  <2>1. doc \in Documents /\ todo = Text(doc) /\ werror = "ok" /\ out = <<>>
    BY DEF Init
  <2>2. PICK T : T = Text(doc)
    OBVIOUS
  <2>3. T \in Seq(Signs)
    BY <2>1, <2>2, TextTyped
  <2>4. <<>> \o T = T /\ <<>> \in Seq(Signs)
    BY <2>3
  <2> QED BY <2>1, <2>2, <2>3, <2>4 DEF WriterInv
<1>2. WriterInv /\ [Next]_vars => WriterInv'
  <2> SUFFICES ASSUME WriterInv, [Next]_vars  PROVE WriterInv'
    OBVIOUS
  <2>1. CASE WriteChar
    BY <2>1, WriteCharKeeps
  <2>2. CASE UNCHANGED writerVars
    BY <2>2 DEF WriterInv, writerVars
  <2>3. WriteChar \/ UNCHANGED writerVars
    BY DEF Next, Write, Parse, vars, writerVars, Open, ReadHeader, ReadPlain, OpenContainer, OpenShorthand,
           CloseContainer, ReturnDocument, ReturnNull
  <2> QED BY <2>1, <2>2, <2>3
<1> QED BY <1>1, <1>2, PTL DEF Spec

\* What the write function was given is an unbroken beginning of the text of the
\* document, and KDF_OK says that it was all (kdf_text_writer.c:12-20, 257-280).
THEOREM WriterIsHonest == Spec => []WriterHonest
<1>1. WriterInv => WriterHonest
  <2> SUFFICES ASSUME WriterInv
               PROVE  /\ IsPrefix(out, Text(doc))
                      /\ todo = <<>> /\ werror = "ok" => out = Text(doc)
    BY DEF WriterHonest
  <2>1. /\ doc \in Documents /\ werror \in {"ok", "io"} /\ out \in Seq(Signs) /\ todo \in Seq(Signs)
        /\ werror = "ok" => out \o todo = Text(doc)
        /\ werror = "io" => Begins(out, Text(doc))
    BY DEF WriterInv
  <2>2. PICK T : T = Text(doc)
    OBVIOUS
  <2>3. T \in Seq(Signs)
    BY <2>1, <2>2, TextTyped
  <2>4. Begins(out, T)
    BY <2>1, <2>2, BeginsConcat
  <2>5. IsPrefix(out, T)
    BY <2>1, <2>3, <2>4, BeginsIsPrefix
  <2>6. out \o <<>> = out
    BY <2>1
  <2> QED BY <2>1, <2>2, <2>5, <2>6
<1> QED BY <1>1, WriterSound, PTL

-----------------------------------------------------------------------------
(* How far the reading operators go.  All of it rests on one thing: at the  *)
(* end of the stream there is a character that is none of those after which *)
(* the parser moves on.                                                     *)

\* Only the end of the stream is read as EOF's place.
LEMMA Inside ==
  ASSUME NEW s \in Seq(Signs), NEW i \in Nat, CharAt(s, i) # EOF
  PROVE  i \in 1 .. Len(s) /\ i + 1 \in 1 .. Len(s) + 1 /\ i + 1 \in Nat
<1>1. Len(s) \in Nat /\ DOMAIN s = 1 .. Len(s)
  OBVIOUS
<1> QED BY <1>1 DEF CharAt

\* The end of the stream is one character behind the last.
LEMMA AtTheEnd ==
  ASSUME NEW s \in Seq(Signs)
  PROVE  CharAt(s, Len(s) + 1) = EOF /\ CharAt(s, Len(s) + 2) = EOF /\ Len(s) \in Nat
<1>1. Len(s) \in Nat /\ DOMAIN s = 1 .. Len(s)
  OBVIOUS
<1>2. Len(s) + 1 \notin DOMAIN s /\ Len(s) + 2 \notin DOMAIN s
  BY <1>1
<1> QED BY <1>1, <1>2 DEF CharAt

\* Runs of digits, of blank lines, and the rest of a line end in the stream.
LEMMA RunsEnd ==
  ASSUME NEW s \in Seq(Signs), NEW i \in 1 .. Len(s) + 1
  PROVE  DigitsEnd(s, i) \in i .. Len(s) + 1
<1> DEFINE n == Len(s) + 1
           S == {j \in 1 .. n : ~ IsDigit(CharAt(s, j))}
<1>1. EOF \notin Range(Digits)
  <2>1. DOMAIN Digits = 1 .. 10 /\ \A k \in 1 .. 10 : Digits[k] # EOF
    BY DEF Digits, EOF
  <2> QED BY <2>1 DEF Range
<1>2. n \in Nat /\ n \in S /\ i \in Nat /\ i <= n
  BY <1>1, AtTheEnd DEF IsDigit
<1>3. PICK j \in i .. n : j \in S /\ \A k \in i .. j - 1 : k \notin S
  <2> HIDE DEF S, n
  <2> QED BY <1>2, FirstHit
<1>4. \A k \in i .. j - 1 : k \in 1 .. n /\ k \in DOMAIN s
  BY <1>2, AtTheEnd
<1>5. \A k \in i .. j - 1 : IsDigit(s[k])
  BY <1>3, <1>4 DEF CharAt
<1>6. ~ IsDigit(CharAt(s, j))
  BY <1>3
<1> QED BY <1>5, <1>6 DEF DigitsEnd

\* parser_skip_blank_lines stays in the stream.
LEMMA BlanksStop ==
  ASSUME input \in Seq(Signs), NEW p \in 1 .. Len(input) + 1
  PROVE  BlanksEnd(p) \in p .. Len(input) + 1
<1> DEFINE n == Len(input) + 1
           S == {q \in 1 .. n : ~Skipped(p, q)}
<1>0. n \in Nat /\ ~Skipped(p, n)
  <2>1. EOF # NewLine
    BY DEF EOF, NewLine
  <2> QED BY <2>1, AtTheEnd DEF At, Skipped
<1>1. n \in Nat /\ n \in S /\ p \in Nat /\ p <= n
  BY <1>0
<1>2. PICK q \in p .. n : q \in S /\ \A k \in p .. q - 1 : k \notin S
  <2> HIDE DEF S, n
  <2> QED BY <1>1, FirstHit
<1>3. \A k \in p .. q - 1 : k \in 1 .. n
  BY <1>1
<1>4. ~Skipped(p, q) /\ \A k \in p .. q - 1 : Skipped(p, k)
  BY <1>2, <1>3
<1> QED BY <1>4 DEF BlanksEnd

\* So does the skipping of the rest of a line.
LEMMA LineStops ==
  ASSUME input \in Seq(Signs), NEW p \in 1 .. Len(input) + 1
  PROVE  LineEnd(p) \in p .. Len(input) + 1
<1> DEFINE n == Len(input) + 1
           S == {q \in 1 .. n : At(q) \in {NewLine, EOF}}
<1>1. n \in Nat /\ n \in S /\ p \in Nat /\ p <= n
  BY AtTheEnd DEF At
<1>2. PICK q \in p .. n : q \in S /\ \A k \in p .. q - 1 : k \notin S
  <2> HIDE DEF S, n
  <2> QED BY <1>1, FirstHit
<1>3. \A k \in p .. q - 1 : k \in 1 .. n
  BY <1>1
<1>4. At(q) \in {NewLine, EOF} /\ \A k \in p .. q - 1 : At(k) # NewLine
  BY <1>2, <1>3
<1> QED BY <1>4 DEF LineEnd

\* A read that ends in the stream s, or fails.
EndsIn(read, s) == read # Bad => read.end \in 1 .. Len(s) + 1

\* parser_read_number stays in the stream.
LEMMA NumbersEnd ==
  ASSUME NEW s \in Seq(Signs), NEW i \in 1 .. Len(s) + 1
  PROVE  EndsIn(ReadNumber(s, i), s)
<1> DEFINE W == 1 .. Len(s) + 1
           neg  == CharAt(s, i) = "-"
           from == IF neg THEN i + 1 ELSE i
           to   == DigitsEnd(s, from)
           int  == Accumulated(SubSeq(s, from, to - 1))
           fracEnd == DigitsEnd(s, to + 1)
           exp  == ReadExponent(s, fracEnd)
<1>1. Len(s) \in Nat
  OBVIOUS
<1>2. from \in W
  <2>1. i \in Nat /\ "-" # EOF
    BY DEF EOF
  <2>2. neg => i + 1 \in W
    BY <2>1, Inside
  <2> QED BY <2>2
<1> HIDE DEF from
<1>3. to \in W
  <2>1. to \in from .. Len(s) + 1
    BY <1>2, RunsEnd
  <2> HIDE DEF to
  <2> QED BY <1>1, <1>2, <2>1
<1> HIDE DEF to
<1>4. CharAt(s, to) # EOF => to + 1 \in W
  BY <1>1, <1>3, Inside
<1>5. ASSUME to + 1 \in W  PROVE exp.end \in W
  <2>1. PICK e : e = fracEnd
    OBVIOUS
  <2>2. e \in W
    <3>1. e \in to + 1 .. Len(s) + 1
      BY <1>5, <2>1, RunsEnd
    <3> QED BY <1>1, <1>3, <3>1
  <2>3. CASE CharAt(s, e) \notin {"e", "E"}
    <3>1. exp = Read(e, 0)
      BY <2>1, <2>3 DEF ReadExponent
    <3> QED BY <2>2, <3>1 DEF Read
  <2>4. CASE CharAt(s, e) \in {"e", "E"}
    <3> DEFINE start == IF CharAt(s, e + 1) \in {"-", "+"} THEN e + 2 ELSE e + 1
               stop  == DigitsEnd(s, start)
    <3>1. e + 1 \in W /\ e + 1 \in Nat
      <4>1. CharAt(s, e) # EOF
        BY <2>4 DEF EOF
      <4>2. e \in Nat
        BY <1>1, <2>2
      <4> QED BY <4>1, <4>2, Inside
    <3>2. start \in W
      <4>1. CharAt(s, e + 1) \in {"-", "+"} => (e + 1) + 1 \in W
        <5>1. CharAt(s, e + 1) \in {"-", "+"} => CharAt(s, e + 1) # EOF
          BY DEF EOF
        <5> QED BY <3>1, <5>1, Inside
      <4>2. (e + 1) + 1 = e + 2
        BY <2>2
      <4> QED BY <3>1, <4>1, <4>2
    <3> HIDE DEF start
    <3>3. stop \in W
      <4>1. stop \in start .. Len(s) + 1
        BY <3>2, RunsEnd
      <4> HIDE DEF stop
      <4> QED BY <1>1, <3>2, <4>1
    <3>4. exp.end = stop
      BY <2>1, <2>4 DEF ReadExponent, Read, start
    <3> QED BY <3>3, <3>4
  <2> QED BY <2>3, <2>4
<1> DEFINE number == ReadNumber(s, i)
           unsigned == UintVal(Unsigned(IF neg THEN -int ELSE int))
           decimal == FloatVal(Decimal(neg, int, SubSeq(s, to + 1, fracEnd - 1), exp.val))
           signed == IntVal(Signed(IF neg THEN -int ELSE int))
<1>6. \/ number = Bad
      \/ CharAt(s, to) \in {"u", "U"} /\ number = Read(to + 1, unsigned)
      \/ CharAt(s, to) = "." /\ number = Read(exp.end, decimal)
      \/ number = Read(to, signed)
  <2>1. number = CASE to = from -> Bad
                   [] to > from /\ CharAt(s, to) \in {"u", "U"} -> Read(to + 1, unsigned)
                   [] to > from /\ CharAt(s, to) = "." -> Read(exp.end, decimal)
                   [] OTHER -> Read(to, signed)
    BY DEF ReadNumber, from, to
  <2>2. to \in Int /\ from \in Int
    BY <1>1, <1>2, <1>3
  <2> HIDE DEF number, unsigned, decimal, signed, exp
  <2> QED BY <2>1, <2>2
<1> HIDE DEF number, unsigned, decimal, signed, exp
<1>7. {"u", "U", "."} \cap {EOF} = {}
  BY DEF EOF
<1>8. number # Bad => number.end \in W
  <2>1. CASE CharAt(s, to) \in {"u", "U"} /\ number = Read(to + 1, unsigned)
    BY <1>4, <1>7, <2>1 DEF Read
  <2>2. CASE CharAt(s, to) = "." /\ number = Read(exp.end, decimal)
    BY <1>4, <1>5, <1>7, <2>2 DEF Read
  <2>3. CASE number = Read(to, signed)
    BY <1>3, <2>3 DEF Read
  <2> QED BY <1>6, <2>1, <2>2, <2>3
<1> QED BY <1>8 DEF EndsIn, number

\* RestOfString satisfies the equation it is written as: at the end of the
\* stream it looks no further.
LEMMA StringsUnfolded ==
  ASSUME input \in Seq(Signs), NEW p \in 1 .. Len(input) + 2
  PROVE  RestOfString[p] = CASE At(p) = EOF  -> Unclosed(p)
                             [] At(p) = "\"" -> Read(p + 1, <<>>)
                             [] At(p) = "\\" -> Prefixed(Unescaped(At(p + 1)), RestOfString[p + 2])
                             [] OTHER        -> Prefixed(At(p), RestOfString[p + 1])
<1> DEFINE n == Len(input) + 2
           Step(q, f) == CASE At(q) = EOF  -> Unclosed(q)
                           [] At(q) = "\"" -> Read(q + 1, <<>>)
                           [] At(q) = "\\" -> Prefixed(Unescaped(At(q + 1)), f[q + 2])
                           [] OTHER        -> Prefixed(At(q), f[q + 1])
           Tails(k) == {q \in 1 .. n : q > n - k}
           Approx(k, f) == f = [q \in Tails(k) |-> Step(q, f)]
           S == {k \in Nat : \E f : Approx(k, f)}
<1>1. n \in Nat /\ n > 0
  BY AtTheEnd
<1>2. ASSUME NEW q \in 1 .. n, At(q) # EOF
      PROVE  q + 1 \in 1 .. n /\ q + 2 \in 1 .. n
  <2>1. q \in 1 .. Len(input) /\ Len(input) \in Nat
    BY <1>2, Inside, AtTheEnd DEF At
  <2> QED BY <2>1
<1>3. ASSUME NEW q, NEW f, NEW g, At(q) # EOF => f[q + 1] = g[q + 1] /\ f[q + 2] = g[q + 2]
      PROVE  Step(q, f) = Step(q, g)
  <2>1. CASE At(q) = EOF
    <3>1. EOF # "\"" /\ EOF # "\\"
      BY DEF EOF
    <3> QED BY <2>1, <3>1
  <2>2. CASE At(q) # EOF
    BY <1>3, <2>2
  <2> QED BY <2>1, <2>2
<1> HIDE DEF Step, n
<1>4. 0 .. n \subseteq S
  <2>1. 0 \in S
    <3>1. Tails(0) = {}
      BY <1>1
    <3>2. PICK f : f = [q \in {} |-> 0]
      OBVIOUS
    <3>3. Approx(0, f)
      BY <3>1, <3>2
    <3> HIDE DEF Approx
    <3> QED BY <3>3
  <2>2. ASSUME NEW k \in 0 .. n - 1, k \in S  PROVE k + 1 \in S
    <3>1. PICK f : Approx(k, f)
      BY <2>2
    <3> DEFINE g == [q \in Tails(k + 1) |-> Step(q, f)]
    <3>2. Tails(k) \subseteq Tails(k + 1) /\ \A q \in Tails(k + 1) : q + 1 \in 1 .. n => q + 1 \in Tails(k)
      BY <1>1
    <3>3. \A q \in Tails(k + 1) : q + 1 \in 1 .. n /\ q + 2 \in 1 .. n => q + 2 \in Tails(k)
      BY <1>1
    <3>4. \A q \in Tails(k + 1) : q \in 1 .. n
      OBVIOUS
    <3> HIDE DEF Tails
    <3>5. \A q \in Tails(k) : g[q] = f[q]
      BY <3>1, <3>2
    <3> HIDE DEF g
    <3>6. \A q \in Tails(k + 1) : Step(q, g) = Step(q, f)
      BY <1>2, <1>3, <3>2, <3>3, <3>4, <3>5
    <3>7. Approx(k + 1, g)
      BY <3>6 DEF g
    <3>8. k + 1 \in Nat
      OBVIOUS
    <3> HIDE DEF Approx
    <3> QED BY <3>7, <3>8
  <2> HIDE DEF S
  <2> QED BY <1>1, <2>1, <2>2, InductionUpTo
<1>5. n \in S /\ Tails(n) = 1 .. n
  <2>1. n \in 0 .. n
    BY <1>1
  <2>2. Tails(n) = 1 .. n
    BY <1>1
  <2> HIDE DEF S, Tails
  <2> QED BY <1>4, <2>1, <2>2
<1> DEFINE F == CHOOSE f : f = [q \in 1 .. n |-> Step(q, f)]
<1>6. F = [q \in 1 .. n |-> Step(q, F)]
  BY <1>5
<1>7. RestOfString = F
  BY DEF RestOfString, Step, n
<1> HIDE DEF F
<1>8. F[p] = Step(p, F)
  BY <1>6 DEF n
<1> QED BY <1>7, <1>8 DEF Step

\* parser_read_quoted_string stays in the stream.
LEMMA StringsEnd ==
  ASSUME input \in Seq(Signs)
  PROVE  /\ \A p \in 1 .. Len(input) + 2 : EndsIn(RestOfString[p], input)
         /\ \A p \in 1 .. Len(input) + 1 : EndsIn(QuotedAt(p), input)
<1> DEFINE n == Len(input) + 2
           S == {k \in Nat : \A p \in 1 .. n : p > n - k => EndsIn(RestOfString[p], input)}
<1>1. n \in Nat /\ Len(input) \in Nat /\ n = Len(input) + 2
  BY AtTheEnd
<1>2. ASSUME NEW c, NEW read, EndsIn(read, input)
      PROVE  EndsIn(Prefixed(c, read), input)
  BY <1>2 DEF EndsIn, Prefixed, Read
<1>3. ASSUME NEW p \in 1 .. n, At(p) # EOF
      PROVE  p + 1 \in 1 .. n - 1 /\ p + 1 \in 1 .. n /\ p + 2 \in 1 .. n
  <2>1. p \in 1 .. Len(input)
    BY <1>1, <1>3, Inside DEF At
  <2> QED BY <1>1, <2>1
<1> HIDE DEF n
<1>4. 0 .. n \subseteq S
  <2>1. 0 \in S
    BY <1>1
  <2>2. ASSUME NEW k \in 0 .. n - 1, k \in S  PROVE k + 1 \in S
    <3>1. ASSUME NEW p \in 1 .. n, p > n - (k + 1)  PROVE EndsIn(RestOfString[p], input)
      <4>1. RestOfString[p] = CASE At(p) = EOF  -> Unclosed(p)
                                [] At(p) = "\"" -> Read(p + 1, <<>>)
                                [] At(p) = "\\" -> Prefixed(Unescaped(At(p + 1)), RestOfString[p + 2])
                                [] OTHER        -> Prefixed(At(p), RestOfString[p + 1])
        BY StringsUnfolded DEF n
      <4>2. p + 1 > n - k /\ p + 2 > n - k
        BY <1>1, <3>1
      <4>3. At(p) # EOF => EndsIn(RestOfString[p + 1], input) /\ EndsIn(RestOfString[p + 2], input)
        BY <1>3, <2>2, <4>2
      <4>4. CASE At(p) = EOF
        <5>1. EOF # "\"" /\ EOF # "\\"
          BY DEF EOF
        <5>2. RestOfString[p] = Bad
          BY <4>1, <4>4, <5>1 DEF Unclosed
        <5> QED BY <5>2 DEF EndsIn
      <4>5. CASE At(p) = "\""
        <5>1. At(p) # EOF
          BY <4>5 DEF EOF
        <5>2. RestOfString[p] = Read(p + 1, <<>>)
          BY <4>1, <4>5, <5>1
        <5>3. p + 1 \in 1 .. Len(input) + 1
          BY <1>1, <1>3, <5>1
        <5> QED BY <5>2, <5>3 DEF EndsIn, Read
      <4>6. CASE At(p) # EOF /\ At(p) # "\""
        BY <1>2, <4>1, <4>3, <4>6
      <4> QED BY <4>4, <4>5, <4>6
    <3> QED BY <3>1
  <2> HIDE DEF S
  <2> QED BY <1>1, <2>1, <2>2, InductionUpTo
<1>5. ASSUME NEW p \in 1 .. n  PROVE EndsIn(RestOfString[p], input)
  <2>1. n \in 0 .. n /\ p > n - n
    BY <1>1
  <2> QED BY <1>4, <2>1
<1>6. ASSUME NEW p \in 1 .. Len(input) + 1  PROVE EndsIn(QuotedAt(p), input)
  <2>1. p + 1 \in 1 .. n
    BY <1>1
  <2> QED BY <1>5, <2>1 DEF QuotedAt, EndsIn
<1> QED BY <1>5, <1>6 DEF n

\* asset("...") and external("...") stay in the stream.
LEMMA ReferencesEnd ==
  ASSUME input \in Seq(Signs), NEW p \in 1 .. Len(input) + 1
  PROVE  EndsIn(ReferenceAt(p), input)
<1> DEFINE quoted == IF At(p) = "(" THEN QuotedAt(p + 1) ELSE Bad
<1>1. Len(input) \in Nat /\ p \in Nat
  BY AtTheEnd
<1>2. EndsIn(quoted, input)
  <2>1. CASE At(p) = "("
    <3>1. p + 1 \in 1 .. Len(input) + 1
      <4>1. At(p) # EOF
        BY <2>1 DEF EOF
      <4> QED BY <1>1, <4>1, Inside DEF At
    <3> QED BY <2>1, <3>1, StringsEnd
  <2>2. CASE At(p) # "("
    BY <2>2 DEF EndsIn
  <2> QED BY <2>1, <2>2
<1> HIDE DEF quoted
<1>3. ASSUME quoted # Bad, At(quoted.end) = ")"
      PROVE  quoted.end + 1 \in 1 .. Len(input) + 1
  <2>1. quoted.end \in Nat /\ At(quoted.end) # EOF
    BY <1>1, <1>2, <1>3 DEF EndsIn, EOF
  <2> QED BY <2>1, Inside DEF At
<1>4. ReferenceAt(p) = IF quoted # Bad /\ At(quoted.end) = ")" THEN Read(quoted.end + 1, quoted.val) ELSE Bad
  BY DEF ReferenceAt, quoted
<1> QED BY <1>3, <1>4 DEF EndsIn, Read

\* The components of a vector are read one after the other.
Extended(reads) == UNION {OneMore(read) : read \in reads}
OneByOne(f, p, n) == f[0] = {Read(p, <<>>)} /\ \A k \in 0 .. n - 1 : f[k + 1] = Extended(f[k])
LEMMA ComponentsUnfolded ==
  ASSUME NEW p, NEW n \in Nat
  PROVE  \E f : ComponentsAt(p, n) = f[n] /\ OneByOne(f, p, n)
<1> DEFINE Step(k, f) == IF k = 0 THEN {Read(p, <<>>)} ELSE UNION {OneMore(read) : read \in f[k - 1]}
           S == {k \in Nat : \E f : f = [i \in 0 .. k |-> Step(i, f)]}
<1>2. 0 .. n \subseteq S
  <2>1. 0 \in S
    <3>1. PICK f : f = [i \in 0 .. 0 |-> {Read(p, <<>>)}]
      OBVIOUS
    <3>2. f = [i \in 0 .. 0 |-> Step(i, f)]
      <4>1. \A i \in 0 .. 0 : i = 0
        OBVIOUS
      <4> QED BY <3>1, <4>1
    <3> HIDE DEF Step
    <3> QED BY <3>2
  <2>2. ASSUME NEW k \in 0 .. n - 1, k \in S  PROVE k + 1 \in S
    <3>1. PICK f : f = [i \in 0 .. k |-> Step(i, f)]
      BY <2>2
    <3> DEFINE g == [i \in 0 .. k + 1 |-> Step(i, f)]
    <3>2. \A i \in 0 .. k : g[i] = f[i]
      <4> HIDE DEF Step
      <4>1. \A i \in 0 .. k : i \in 0 .. k + 1
        OBVIOUS
      <4>2. \A i \in 0 .. k : f[i] = Step(i, f)
        BY <3>1
      <4> QED BY <4>1, <4>2
    <3>3. \A i \in 0 .. k + 1 : i # 0 => i - 1 \in 0 .. k
      OBVIOUS
    <3> HIDE DEF g
    <3>4. \A i \in 0 .. k + 1 : Step(i, g) = Step(i, f)
      BY <3>2, <3>3
    <3>5. g = [i \in 0 .. k + 1 |-> Step(i, g)]
      <4> HIDE DEF Step
      <4> QED BY <3>4 DEF g
    <3>6. k + 1 \in Nat
      OBVIOUS
    <3> HIDE DEF Step
    <3> QED BY <3>5, <3>6
  <2> HIDE DEF S
  <2> QED BY <2>1, <2>2, InductionUpTo
<1> DEFINE F == CHOOSE f : f = [i \in 0 .. n |-> Step(i, f)]
<1>3. F = [i \in 0 .. n |-> Step(i, F)]
  <2>1. n \in 0 .. n
    OBVIOUS
  <2>2. n \in S
    <3> HIDE DEF S
    <3> QED BY <1>2, <2>1
  <2> HIDE DEF Step
  <2> QED BY <2>2
<1>4. ComponentsAt(p, n) = F[n]
  BY DEF ComponentsAt
<1> HIDE DEF F
<1>5. \A i \in 0 .. n : F[i] = Step(i, F)
  <2> HIDE DEF Step
  <2> QED BY <1>3
<1>6. F[0] = {Read(p, <<>>)}
  <2>1. 0 \in 0 .. n
    OBVIOUS
  <2> QED BY <1>5, <2>1
<1>7. \A k \in 0 .. n - 1 : F[k + 1] = Extended(F[k])
  <2>1. \A k \in 0 .. n - 1 : k + 1 \in 0 .. n /\ k + 1 # 0 /\ (k + 1) - 1 = k
    OBVIOUS
  <2> QED BY <1>5, <2>1 DEF Extended
<1> QED BY <1>4, <1>6, <1>7 DEF OneByOne

\* The components of a list stay in the stream, however many are read.
LEMMA ComponentsEnd ==
  ASSUME input \in Seq(Signs), NEW p \in 1 .. Len(input) + 1, NEW n \in Nat
  PROVE  \A list \in ComponentsAt(p, n) : list.end \in 1 .. Len(input) + 1
<1> DEFINE W == 1 .. Len(input) + 1
<1>0. Len(input) \in Nat
  BY AtTheEnd
<1>1. ASSUME NEW read, read.end \in W, NEW more \in OneMore(read)
      PROVE  more.end \in W
  <2> DEFINE sign == IF read.val = <<>> THEN "(" ELSE ","
  <2>0. read.end \in Nat
    BY ONLY <1>0, <1>1
  <2>1. PICK number \in IF At(read.end) = sign THEN {ReadNumber(input, read.end + 1)} \ {Bad} ELSE {} :
          more = Read(number.end, Append(read.val, AsFloat(number.val)))
    BY DEF OneMore
  <2>2. At(read.end) = sign /\ number = ReadNumber(input, read.end + 1) /\ number # Bad
    BY <2>1
  <2>3. read.end + 1 \in W
    <3>1. sign # EOF
      BY DEF EOF
    <3>2. At(read.end) # EOF
      BY <2>2, <3>1
    <3> QED BY <2>0, <3>2, Inside DEF At
  <2>4. number.end \in W
    BY <2>2, <2>3, NumbersEnd DEF EndsIn
  <2> QED BY <2>1, <2>4 DEF Read
<1> HIDE DEF W
<1>2. PICK F : ComponentsAt(p, n) = F[n] /\ OneByOne(F, p, n)
  BY ComponentsUnfolded
<1> DEFINE T == {k \in Nat : \A list \in F[k] : list.end \in W}
<1>6. 0 .. n \subseteq T
  <2>1. 0 \in T
    BY <1>2 DEF Read, W, OneByOne
  <2>2. ASSUME NEW k \in 0 .. n - 1, k \in T  PROVE k + 1 \in T
    <3>1. F[k + 1] = Extended(F[k]) /\ k + 1 \in Nat
      BY <1>2 DEF OneByOne
    <3> QED BY <1>1, <2>2, <3>1 DEF Extended
  <2> HIDE DEF T
  <2> QED BY <2>1, <2>2, InductionUpTo
<1>7. n \in T
  <2>1. n \in 0 .. n
    OBVIOUS
  <2> HIDE DEF T
  <2> QED BY <1>6, <2>1
<1> QED BY <1>2, <1>7 DEF W

\* parser_read_float_list stays in the stream.
LEMMA ListsEnd ==
  ASSUME input \in Seq(Signs), NEW p \in 1 .. Len(input) + 1, NEW n \in Nat
  PROVE  EndsIn(FloatListAt(p, n), input)
<1> DEFINE lists == {list \in ComponentsAt(p, n) : At(list.end) = ")"}
           list == CHOOSE l \in lists : TRUE
<1>1. FloatListAt(p, n) = IF lists = {} THEN Bad ELSE Read(list.end + 1, list.val)
  BY DEF FloatListAt
<1>2. ASSUME lists # {}  PROVE list.end + 1 \in 1 .. Len(input) + 1
  <2>1. list \in lists
    BY <1>2
  <2> HIDE DEF list
  <2>2. list.end \in 1 .. Len(input) + 1 /\ At(list.end) = ")"
    BY <2>1, ComponentsEnd
  <2>3. At(list.end) # EOF
    BY <2>2 DEF EOF
  <2>4. list.end \in Nat
    BY <2>2, AtTheEnd
  <2> QED BY <2>3, <2>4, Inside DEF At
<1> HIDE DEF lists, list
<1> QED BY <1>1, <1>2 DEF EndsIn, Read

\* A keyword is followed by something.
LEMMA KeywordsEnd ==
  ASSUME input \in Seq(Signs), NEW p \in 1 .. Len(input) + 1, NEW word, word # EOF, KeywordAt(p, word)
  PROVE  p + 2 \in 1 .. Len(input) + 1
<1>1. p \in Nat /\ Len(input) \in Nat
  BY AtTheEnd
<1>2. At(p) # EOF /\ At(p + 1) # EOF
  BY DEF KeywordAt, EOF
<1>3. p + 1 \in Nat
  BY <1>1
<1>4. (p + 1) + 1 \in 1 .. Len(input) + 1
  BY <1>2, <1>3, Inside DEF At
<1>5. (p + 1) + 1 = p + 2
  BY <1>1
<1> QED BY <1>4, <1>5

\* What a read is stored as does not change where it ends.
LEMMA AsEnds ==
  ASSUME NEW s, NEW read, EndsIn(read, s), NEW type, NEW field
  PROVE  EndsIn(As(read, type, field), s)
BY DEF EndsIn, As, Read

\* parser_parse_value stays in the stream when it reads a plain value.
LEMMA PlainEnds ==
  ASSUME input \in Seq(Signs), NEW p \in 1 .. Len(input) + 1
  PROVE  EndsIn(PlainAt(p), input)
<1> DEFINE W == 1 .. Len(input) + 1
           vector == As(FloatListAt(p + 2, VectorSize[At(p)]), At(p), "xs")
           asset == As(ReferenceAt(p + 2), "asset_ref", "str")
           external == As(ReferenceAt(p + 2), "resource_ref", "str")
           string == As(QuotedAt(p), "string", "str")
           number == ReadNumber(input, p)
<1>1. ASSUME NEW word \in Keywords, KeywordAt(p, word)
      PROVE  p + 2 \in W /\ At(p) = word
  <2>1. EOF \notin Keywords
    BY DEF Keywords, Vectors, VectorSize, EOF
  <2> QED BY <1>1, <2>1, KeywordsEnd DEF KeywordAt
<1>2. {"null", "true", "false", "asset", "external"} \cup Vectors \subseteq Keywords
  BY DEF Keywords
<1>3. \A t \in Vectors : KeywordAt(p, t) => EndsIn(vector, input)
  <2> SUFFICES ASSUME NEW t \in Vectors, KeywordAt(p, t)  PROVE EndsIn(vector, input)
    OBVIOUS
  <2>1. p + 2 \in W /\ At(p) \in Vectors
    BY <1>1, <1>2
  <2>2. VectorSize[At(p)] \in Nat
    BY <2>1 DEF Vectors, VectorSize
  <2> QED BY <2>1, <2>2, ListsEnd, AsEnds
<1>4. KeywordAt(p, "asset") => EndsIn(asset, input)
  BY <1>1, <1>2, ReferencesEnd, AsEnds
<1>5. KeywordAt(p, "external") => EndsIn(external, input)
  BY <1>1, <1>2, ReferencesEnd, AsEnds
<1>6. EndsIn(string, input) /\ EndsIn(number, input)
  BY StringsEnd, NumbersEnd, AsEnds
<1>7. \A v : \A word \in {"null", "true", "false"} : KeywordAt(p, word) => EndsIn(Read(p + 2, v), input)
  BY <1>1, <1>2 DEF EndsIn, Read
<1>8. EndsIn(Bad, input)
  BY DEF EndsIn
<1> HIDE DEF vector, asset, external, string, number
<1>9. PlainAt(p) = CASE KeywordAt(p, "null")  -> Read(p + 2, NullValue)
                     [] KeywordAt(p, "true")  -> Read(p + 2, Bool(TRUE))
                     [] KeywordAt(p, "false") -> Read(p + 2, Bool(FALSE))
                     [] \E t \in Vectors : KeywordAt(p, t) -> vector
                     [] KeywordAt(p, "asset") -> asset
                     [] KeywordAt(p, "external") -> external
                     [] At(p) = "\"" -> string
                     [] IsDigit(At(p)) \/ At(p) = "-" -> number
                     [] OTHER -> Bad
  BY DEF PlainAt, vector, asset, external, string, number
<1>10. \/ \E v : \E word \in {"null", "true", "false"} : KeywordAt(p, word) /\ PlainAt(p) = Read(p + 2, v)
       \/ (\E t \in Vectors : KeywordAt(p, t)) /\ PlainAt(p) = vector
       \/ KeywordAt(p, "asset") /\ PlainAt(p) = asset
       \/ KeywordAt(p, "external") /\ PlainAt(p) = external
       \/ PlainAt(p) \in {string, number, Bad}
  BY <1>9
<1> QED BY <1>3, <1>4, <1>5, <1>6, <1>7, <1>8, <1>10

\* The containers that a document is made of have these fields.
NodeOK(node) ==
  node = [type |-> node.type, name |-> node.name, version |-> node.version, members |-> node.members]

\* The beginning of a container stays in the stream, and makes a container.
LEMMA ContainersBegin ==
  ASSUME input \in Seq(Signs), NEW p \in 1 .. Len(input) + 1, ContainerAt(p) # Bad
  PROVE  ContainerAt(p).end \in 1 .. Len(input) + 1 /\ NodeOK(ContainerAt(p).val)
<1> DEFINE W == 1 .. Len(input) + 1
           sub == [Blank("subresource") EXCEPT !.name = At(p + 2)]
<1>1. p \in Nat /\ Len(input) \in Nat
  BY AtTheEnd
<1>2. \A t : NodeOK(Blank(t))
  BY DEF NodeOK, Blank
<1>3. NodeOK(sub)
  BY DEF NodeOK, Blank
<1>4. ASSUME NEW q \in Nat, At(q) \in {"[", "{"}
      PROVE  q + 1 \in W
  <2>1. At(q) # EOF
    BY <1>4 DEF EOF
  <2> QED BY <2>1, Inside DEF At
<1>5. p + 3 \in Nat /\ (p + 3) + 1 = p + 4
  BY <1>1
<1> HIDE DEF sub
<1>6. \/ At(p) = "[" /\ ContainerAt(p) = Read(p + 1, Blank("array"))
      \/ At(p) = "{" /\ ContainerAt(p) = Read(p + 1, Blank("object"))
      \/ At(p + 3) = "{" /\ ContainerAt(p) = Read(p + 4, sub)
  <2>1. ContainerAt(p) = CASE At(p) = "[" -> Read(p + 1, Blank("array"))
                           [] At(p) = "{" -> Read(p + 1, Blank("object"))
                           [] KeywordAt(p, "subresource") /\ At(p + 2) \in Identifiers /\ At(p + 3) = "{" ->
                                Read(p + 4, sub)
                           [] OTHER -> Bad
    BY DEF ContainerAt, sub
  <2> QED BY <2>1
<1>7. At(p) \in {"[", "{"} => p + 1 \in W
  BY <1>1, <1>4
<1>8. At(p + 3) = "{" => p + 4 \in W
  BY <1>4, <1>5
<1> HIDE DEF W
<1>9. ASSUME NEW e \in W, NEW v, NodeOK(v), ContainerAt(p) = Read(e, v)
      PROVE  ContainerAt(p).end \in W /\ NodeOK(ContainerAt(p).val)
  <2>1. Read(e, v).end = e /\ Read(e, v).val = v
    BY DEF Read
  <2> QED BY <1>9, <2>1
<1>10. ContainerAt(p).end \in W /\ NodeOK(ContainerAt(p).val)
  BY <1>2, <1>3, <1>6, <1>7, <1>8, <1>9
<1> QED BY <1>10 DEF W

-----------------------------------------------------------------------------
(* The parser. *)

\* Containers being read; the outermost is the root object.
FrameOK(frame) == frame = Frame(frame.node, frame.key) /\ NodeOK(frame.node)
StackOK(s) ==
  /\ s \in Seq(Range(s)) /\ s # <<>> /\ \A i \in 1 .. Len(s) : FrameOK(s[i])
  /\ s[Len(s)].node.type = "object"

\* A container in which a member was stored has the same type.
LEMMA FilledOK ==
  ASSUME NEW frame, FrameOK(frame), NEW key, NEW v
  PROVE  FrameOK(Filled(frame, key, v)) /\ Filled(frame, key, v).node.type = frame.node.type
<1> DEFINE m == IF frame.node.type = "array" THEN Append(frame.node.members, [key |-> NULL, value |-> v])
                ELSE Put(frame.node.members, key, v)
           node == [type |-> frame.node.type, name |-> frame.node.name, version |-> frame.node.version,
                    members |-> m]
<1>1. frame = [node |-> frame.node, key |-> frame.key] /\ NodeOK(frame.node)
  BY DEF FrameOK, Frame
<1>2. With(frame.node, key, v) = [frame.node EXCEPT !.members = m]
  BY DEF With
<1> HIDE DEF m
<1>3. With(frame.node, key, v) = node
  BY <1>1, <1>2 DEF NodeOK
<1>4. Filled(frame, key, v) = [frame EXCEPT !.node = With(frame.node, key, v)]
  BY DEF Filled
<1>5. NodeOK(node) /\ node.type = frame.node.type
  BY DEF NodeOK
<1> HIDE DEF node
<1>6. Filled(frame, key, v) = Frame(node, frame.key)
  BY <1>1, <1>3, <1>4 DEF Frame
<1> QED BY <1>5, <1>6 DEF FrameOK, Frame

\* Storing in the innermost container, opening one and closing one keep the
\* outermost the root object.
LEMMA StacksOK ==
  ASSUME NEW s, StackOK(s), NEW f, FrameOK(f)
  PROVE  /\ f.node.type = s[1].node.type => StackOK(Replaced(s, f))
         /\ StackOK(Pushed(s, f))
         /\ Len(s) > 1 /\ f.node.type = s[2].node.type => StackOK(Merged(s, f))
<1>1. /\ Len(s) \in Nat \ {0}
      /\ OnTop(Replaced(s, f), f, Len(s)) /\ \A k \in 2 .. Len(s) : Replaced(s, f)[k] = s[k]
      /\ OnTop(Pushed(s, f), f, Len(s) + 1) /\ \A k \in 2 .. Len(s) + 1 : Pushed(s, f)[k] = s[k - 1]
      /\ Len(s) > 1 => /\ OnTop(Merged(s, f), f, Len(s) - 1)
                       /\ \A k \in 2 .. Len(s) - 1 : Merged(s, f)[k] = s[k + 1]
  BY StackOps DEF StackOK
<1>2. (\A i \in 1 .. Len(s) : FrameOK(s[i])) /\ s[Len(s)].node.type = "object"
  BY DEF StackOK
<1>3. PICK n : n = Len(s)
  OBVIOUS
<1>4. ASSUME NEW t, NEW m \in Nat \ {0}, OnTop(t, f, m), \A k \in 2 .. m : FrameOK(t[k]),
             t[m].node.type = "object"
      PROVE  StackOK(t)
  <2>1. t \in Seq(Range(t)) /\ Len(t) = m /\ t[1] = f /\ t # <<>>
    BY <1>4 DEF OnTop
  <2>2. \A k \in 1 .. m : k = 1 \/ k \in 2 .. m
    OBVIOUS
  <2> QED BY <1>4, <2>1, <2>2 DEF StackOK
<1>5. ASSUME f.node.type = s[1].node.type  PROVE StackOK(Replaced(s, f))
  <2> DEFINE t == Replaced(s, f)
  <2>1. OnTop(t, f, n) /\ n \in Nat \ {0} /\ \A k \in 2 .. n : t[k] = s[k]
    BY <1>1, <1>3
  <2> HIDE DEF t
  <2>2. \A k \in 2 .. n : k \in 1 .. n
    BY <2>1
  <2>3. \A k \in 2 .. n : FrameOK(t[k])
    BY <1>2, <1>3, <2>1, <2>2
  <2>4. t[n].node.type = "object"
    <3>1. n = 1 \/ n \in 2 .. n
      BY <2>1
    <3>2. t[1] = f
      BY <2>1 DEF OnTop
    <3> QED BY <1>2, <1>3, <1>5, <2>1, <3>1, <3>2
  <2> QED BY <1>4, <2>1, <2>3, <2>4 DEF t
<1>6. StackOK(Pushed(s, f))
  <2> DEFINE t == Pushed(s, f)
  <2>1. OnTop(t, f, n + 1) /\ n \in Nat \ {0} /\ n + 1 \in Nat \ {0} /\ \A k \in 2 .. n + 1 : t[k] = s[k - 1]
    BY <1>1, <1>3
  <2> HIDE DEF t
  <2>2. \A k \in 2 .. n + 1 : k - 1 \in 1 .. n
    BY <2>1
  <2>3. \A k \in 2 .. n + 1 : FrameOK(t[k])
    BY <1>2, <1>3, <2>1, <2>2
  <2>4. n + 1 \in 2 .. n + 1 /\ (n + 1) - 1 = n
    BY <2>1
  <2>5. t[n + 1].node.type = "object"
    BY <1>2, <1>3, <2>1, <2>4
  <2> QED BY <1>4, <2>1, <2>3, <2>5 DEF t
<1>7. ASSUME Len(s) > 1, f.node.type = s[2].node.type  PROVE StackOK(Merged(s, f))
  <2> DEFINE t == Merged(s, f)
  <2>1. OnTop(t, f, n - 1) /\ n \in Nat \ {0} /\ n > 1 /\ \A k \in 2 .. n - 1 : t[k] = s[k + 1]
    BY <1>1, <1>3, <1>7
  <2> HIDE DEF t
  <2>2. n - 1 \in Nat \ {0} /\ \A k \in 2 .. n - 1 : k + 1 \in 1 .. n
    BY <2>1
  <2>3. \A k \in 2 .. n - 1 : FrameOK(t[k])
    BY <1>2, <1>3, <2>1, <2>2
  <2>4. t[n - 1].node.type = "object"
    <3>1. (n = 2 /\ n - 1 = 1) \/ (n - 1 \in 2 .. n - 1 /\ (n - 1) + 1 = n)
      BY <2>1
    <3>2. t[1] = f
      BY <2>1 DEF OnTop
    <3> QED BY <1>2, <1>3, <1>7, <2>1, <3>1, <3>2
  <2> QED BY <1>4, <2>1, <2>2, <2>3, <2>4 DEF t
<1> QED BY <1>5, <1>6, <1>7

\* The invariant of the parser: it never leaves the stream, and what it has
\* open are containers, the outermost one the root object.
ReaderInv ==
  /\ status \in {"writing", "header", "body", "doc", "null"} /\ rerror \in BOOLEAN
  /\ input \in Seq(Signs) /\ pos \in 1 .. Len(input) + 1
  /\ status \in {"writing", "header"} => pos = 1
  /\ IF status = "body" THEN StackOK(stack) ELSE stack = <<>>
  /\ IF status = "doc" THEN result.type = "object" ELSE result = NULL

\* What the parser sees where it is, and where a value may begin.
LEMMA Seen ==
  ASSUME ReaderInv, status = "body"
  PROVE  /\ Here \in 1 .. Len(input) + 1
         /\ ValueStart \subseteq 1 .. Len(input) + 1
         /\ At(Here) # EOF => Here + 1 \in 1 .. Len(input) + 1
         /\ At(Here + 1) # EOF => Here + 2 \in 1 .. Len(input) + 1
         /\ \A frame : \A p \in 1 .. Len(input) + 1 : After(frame, p) \in 1 .. Len(input) + 1
         /\ StackOK(stack) /\ FrameOK(Top) /\ Top = stack[1] /\ Len(stack) \in Nat
<1> DEFINE W == 1 .. Len(input) + 1
<1>1. input \in Seq(Signs) /\ pos \in W /\ StackOK(stack)
  BY DEF ReaderInv
<1>2. Len(input) \in Nat
  BY <1>1, AtTheEnd
<1>3. ASSUME NEW q \in Nat, At(q) # EOF  PROVE q + 1 \in W
  BY <1>1, <1>3, Inside DEF At
<1>4. Here \in W
  <2>1. BlanksEnd(pos) \in pos .. Len(input) + 1
    BY <1>1, BlanksStop
  <2>2. PICK q : q = BlanksEnd(pos)
    OBVIOUS
  <2>3. q \in W
    BY <1>1, <1>2, <2>1, <2>2
  <2> QED BY <2>2, <2>3 DEF Here
<1>5. PICK q : q = Here
  OBVIOUS
<1>6. q \in W /\ q \in Nat /\ q + 1 \in Nat /\ (q + 1) + 1 = q + 2
  BY <1>2, <1>4, <1>5
<1>7. (At(q) # EOF => q + 1 \in W) /\ (At(q + 1) # EOF => q + 2 \in W)
  BY <1>3, <1>6
<1> HIDE DEF W
<1>8. ValueStart \subseteq W
  <2>1. ValueStart \subseteq {q} \/ (ValueStart \subseteq {q + 2} /\ At(q + 1) = "=")
    BY <1>5 DEF ValueStart
  <2>2. "=" # EOF
    BY DEF EOF
  <2> QED BY <1>6, <1>7, <2>1, <2>2
<1>9. ASSUME NEW frame, NEW p \in W  PROVE After(frame, p) \in W
  <2>1. At(p) = "," => p + 1 \in W
    <3>1. p \in Nat
      BY <1>2 DEF W
    <3>2. "," # EOF
      BY DEF EOF
    <3> QED BY <1>3, <3>1, <3>2
  <2>2. After(frame, p) = p \/ (At(p) = "," /\ After(frame, p) = p + 1)
    BY DEF After
  <2> QED BY <2>1, <2>2
<1>10. Len(stack) \in Nat \ {0} /\ Head(stack) = stack[1] /\ \A i \in 1 .. Len(stack) : FrameOK(stack[i])
  BY <1>1, StackOps DEF StackOK
<1>11. FrameOK(Top) /\ Top = stack[1]
  <2>1. 1 \in 1 .. Len(stack)
    BY <1>10
  <2> QED BY <1>10, <2>1 DEF Top
<1> QED BY <1>1, <1>4, <1>5, <1>6, <1>7, <1>8, <1>9, <1>10, <1>11 DEF W

\* What came is what was accepted, or a beginning of it.
LEMMA OpenKeeps ==
  ASSUME WriterInv, ReaderInv, Open
  PROVE  ReaderInv'
<1>1. out \in Seq(Signs) /\ pos = 1 /\ stack = <<>> /\ result = NULL /\ rerror \in BOOLEAN
  BY DEF WriterInv, ReaderInv, Open
<1>2. /\ status' = "header" /\ pos' = pos /\ stack' = stack /\ result' = result /\ chunk' \in Nat \ {0}
      /\ \/ input' = out /\ rerror' = FALSE
         \/ \E calls \in 0 .. Len(out) \div chunk' :
              input' = SubSeq(out, 1, calls * chunk') /\ rerror' = TRUE
  BY TextAssumption DEF Open
<1>3. Len(out) \in Nat
  BY <1>1
<1>4. input' \in Seq(Signs) /\ rerror' \in BOOLEAN
  <2>1. ASSUME NEW calls \in 0 .. Len(out) \div chunk', input' = SubSeq(out, 1, calls * chunk')
        PROVE  input' \in Seq(Signs)
    <3>1. PICK c, n : c = chunk' /\ n = Len(out)
      OBVIOUS
    <3>2. c \in Nat \ {0} /\ n \in Nat /\ calls \in 0 .. n \div c
      BY <1>2, <1>3, <2>1, <3>1
    <3>3. calls * c \in 0 .. n
      <4>1. calls \in Nat /\ n \div c \in Nat /\ calls <= n \div c /\ (n \div c) * c <= n
        BY <3>2
      <4>2. calls * c <= (n \div c) * c /\ calls * c \in Nat
        BY <3>2, <4>1
      <4> QED BY <3>2, <4>1, <4>2
    <3>4. PICK m : m = calls * c
      OBVIOUS
    <3>5. SubSeq(out, 1, m) \in Seq(Signs)
      <4>1. 1 \in 1 .. Len(out) + 1 /\ m \in 1 - 1 .. Len(out)
        BY <1>3, <3>1, <3>3, <3>4
      <4> QED BY <1>1, <4>1, SubSeqProperties
    <3> QED BY <2>1, <3>1, <3>4, <3>5
  <2> QED BY <1>1, <1>2, <2>1
<1>5. 1 \in 1 .. Len(input') + 1
  <2>1. Len(input') \in Nat
    BY <1>4
  <2> QED BY <2>1
<1> QED BY <1>1, <1>2, <1>4, <1>5 DEF ReaderInv

\* Behind the header comes the root object.
LEMMA ReadHeaderKeeps ==
  ASSUME ReaderInv, ReadHeader
  PROVE  ReaderInv'
<1> DEFINE W == 1 .. Len(input) + 1
<1>1. input \in Seq(Signs) /\ status = "header" /\ result = NULL /\ rerror \in BOOLEAN /\ IsDigit(At(3))
  BY DEF ReaderInv, ReadHeader, HeaderFound
<1>2. /\ status' = "body" /\ input' = input /\ rerror' = rerror /\ result' = result
      /\ pos' = BlanksEnd(LineEnd(DigitsEnd(input, 3))) /\ stack' = <<Frame(Blank("object"), NULL)>>
  BY DEF ReadHeader
<1>3. Len(input) \in Nat
  BY <1>1, AtTheEnd
<1>4. 3 \in W
  <2>1. \A i \in DOMAIN Digits : Digits[i] # EOF
    <3>1. DOMAIN Digits = 1 .. 10 /\ \A k \in 1 .. 10 : Digits[k] # EOF
      BY DEF Digits, EOF
    <3> QED BY <3>1
  <2>2. CharAt(input, 3) # EOF
    BY <1>1, <2>1 DEF IsDigit, Range, At
  <2>3. 3 \in 1 .. Len(input)
    BY <1>1, <2>2, Inside
  <2> QED BY <1>3, <2>3
<1>5. PICK d : d = DigitsEnd(input, 3)
  OBVIOUS
<1>6. d \in W
  <2>1. d \in 3 .. Len(input) + 1
    BY <1>1, <1>4, <1>5, RunsEnd
  <2> QED BY <1>3, <2>1
<1>7. PICK l : l = LineEnd(d)
  OBVIOUS
<1>8. l \in W
  <2>1. l \in d .. Len(input) + 1
    BY <1>1, <1>6, <1>7, LineStops
  <2> QED BY <1>3, <1>6, <2>1
<1>9. pos' \in W
  <2>1. pos' \in l .. Len(input) + 1
    BY <1>1, <1>2, <1>5, <1>7, <1>8, BlanksStop
  <2> QED BY <1>3, <1>8, <2>1
<1>10. StackOK(stack')
  <2> DEFINE f == Frame(Blank("object"), NULL)
             s == <<f>>
  <2>1. FrameOK(f) /\ f.node.type = "object"
    BY DEF FrameOK, Frame, NodeOK, Blank
  <2> HIDE DEF f
  <2>2. s \in Seq({f}) /\ Len(s) = 1 /\ s[1] = f /\ s # <<>> /\ DOMAIN s = 1 .. 1
    OBVIOUS
  <2> HIDE DEF s
  <2>3. Range(s) = {f}
    BY <2>2 DEF Range
  <2>4. \A i \in 1 .. Len(s) : i = 1
    BY <2>2
  <2>5. StackOK(s)
    BY <2>1, <2>2, <2>3, <2>4 DEF StackOK
  <2> QED BY <1>2, <2>5 DEF s, f
<1> QED BY <1>1, <1>2, <1>9, <1>10 DEF ReaderInv

\* What changes while containers are read.
InBody ==
  /\ status' = "body" /\ input' = input /\ rerror' = rerror /\ result' = result
  /\ pos' \in 1 .. Len(input) + 1 /\ StackOK(stack')

\* Steps of this kind keep the invariant.
LEMMA InBodyKeeps ==
  ASSUME ReaderInv, status = "body", InBody
  PROVE  ReaderInv'
BY DEF ReaderInv, InBody

\* A plain value is stored in the innermost container.
LEMMA ReadPlainKeeps ==
  ASSUME ReaderInv, ReadPlain
  PROVE  ReaderInv'
<1>1. input \in Seq(Signs) /\ status = "body"
  BY DEF ReaderInv, ReadPlain
<1>2. PICK p \in ValueStart : \E read \in {PlainAt(p)} \ {Bad} :
        /\ stack' = <<Filled(Top, Key, read.val)>> \o Tail(stack)
        /\ pos' = After(Top, read.end)
  BY DEF ReadPlain
<1>3. PICK read : read = PlainAt(p) /\ read # Bad
        /\ stack' = <<Filled(Top, Key, read.val)>> \o Tail(stack)
        /\ pos' = After(Top, read.end)
  BY <1>2
<1>4. p \in 1 .. Len(input) + 1
  BY <1>1, <1>2, Seen
<1>5. read.end \in 1 .. Len(input) + 1
  BY <1>1, <1>3, <1>4, PlainEnds DEF EndsIn
<1>6. pos' \in 1 .. Len(input) + 1
  BY <1>1, <1>3, <1>5, Seen
<1>7. StackOK(stack')
  <2>1. PICK f : f = Filled(Top, Key, read.val)
    OBVIOUS
  <2>2. FrameOK(f) /\ f.node.type = stack[1].node.type /\ StackOK(stack)
    BY <1>1, <2>1, Seen, FilledOK
  <2>3. PICK s : s = stack
    OBVIOUS
  <2>4. StackOK(Replaced(s, f))
    BY <2>2, <2>3, StacksOK
  <2> QED BY <1>3, <2>1, <2>3, <2>4 DEF Replaced
<1>8. InBody
  BY <1>1, <1>6, <1>7 DEF ReadPlain, InBody
<1> QED BY <1>1, <1>8, InBodyKeeps

\* A container is opened behind its name and its bracket.
LEMMA OpenContainerKeeps ==
  ASSUME ReaderInv, OpenContainer
  PROVE  ReaderInv'
<1>1. input \in Seq(Signs) /\ status = "body"
  BY DEF ReaderInv, OpenContainer
<1>2. PICK p \in ValueStart : \E read \in {ContainerAt(p)} \ {Bad} :
        /\ stack' = <<Frame(read.val, Key)>> \o stack
        /\ pos' = read.end
  BY DEF OpenContainer
<1>3. PICK read : read = ContainerAt(p) /\ read # Bad
        /\ stack' = <<Frame(read.val, Key)>> \o stack
        /\ pos' = read.end
  BY <1>2
<1>4. p \in 1 .. Len(input) + 1
  BY <1>1, <1>2, Seen
<1>5. pos' \in 1 .. Len(input) + 1 /\ NodeOK(read.val)
  BY <1>1, <1>3, <1>4, ContainersBegin
<1>6. StackOK(stack')
  <2>1. PICK f : f = Frame(read.val, Key)
    OBVIOUS
  <2>2. FrameOK(f) /\ StackOK(stack)
    BY <1>1, <1>5, <2>1, Seen DEF FrameOK, Frame
  <2>3. PICK s : s = stack
    OBVIOUS
  <2>4. StackOK(Pushed(s, f))
    BY <2>2, <2>3, StacksOK
  <2> QED BY <1>3, <2>1, <2>3, <2>4 DEF Pushed
<1>7. InBody
  BY <1>1, <1>5, <1>6 DEF OpenContainer, InBody
<1> QED BY <1>1, <1>7, InBodyKeeps

\* So is an object without "=".
LEMMA OpenShorthandKeeps ==
  ASSUME ReaderInv, OpenShorthand
  PROVE  ReaderInv'
<1>1. /\ status = "body" /\ At(Here + 1) = "{" /\ pos' = Here + 2
      /\ stack' = <<Frame(Blank("object"), Key)>> \o stack
  BY DEF OpenShorthand, IsShorthand
<1>2. pos' \in 1 .. Len(input) + 1
  <2>1. At(Here + 1) # EOF
    BY <1>1 DEF EOF
  <2> QED BY <1>1, <2>1, Seen
<1>3. StackOK(stack')
  <2>1. PICK f : f = Frame(Blank("object"), Key)
    OBVIOUS
  <2>2. FrameOK(f) /\ StackOK(stack)
    BY <1>1, <2>1, Seen DEF FrameOK, Frame, NodeOK, Blank
  <2>3. PICK s : s = stack
    OBVIOUS
  <2>4. StackOK(Pushed(s, f))
    BY <2>2, <2>3, StacksOK
  <2> QED BY <1>1, <2>1, <2>3, <2>4 DEF Pushed
<1>4. InBody
  BY <1>1, <1>2, <1>3 DEF OpenShorthand, InBody
<1> QED BY <1>1, <1>4, InBodyKeeps

\* A container that ends becomes a member of the one around it.
LEMMA CloseContainerKeeps ==
  ASSUME ReaderInv, CloseContainer
  PROVE  ReaderInv'
<1>1. /\ status = "body" /\ Len(stack) > 1 /\ Closes(Top) /\ pos' = After(stack[2], Here + 1)
      /\ stack' = <<Filled(stack[2], Top.key, Top.node)>> \o SubSeq(stack, 3, Len(stack))
  BY DEF CloseContainer
<1>2. pos' \in 1 .. Len(input) + 1
  <2>1. At(Here) # EOF
    BY <1>1 DEF EOF, Closes
  <2>2. PICK q : q = Here + 1
    OBVIOUS
  <2>3. q \in 1 .. Len(input) + 1
    BY <1>1, <2>1, <2>2, Seen
  <2> QED BY <1>1, <2>2, <2>3, Seen
<1>3. StackOK(stack')
  <2>1. PICK f : f = Filled(stack[2], Top.key, Top.node)
    OBVIOUS
  <2>2. StackOK(stack) /\ Len(stack) \in Nat
    BY <1>1, Seen
  <2>3. FrameOK(stack[2])
    <3>1. 2 \in 1 .. Len(stack)
      BY <1>1, <2>2
    <3> QED BY <2>2, <3>1 DEF StackOK
  <2>4. FrameOK(f) /\ f.node.type = stack[2].node.type
    BY <2>1, <2>3, FilledOK
  <2>5. PICK s : s = stack
    OBVIOUS
  <2>6. StackOK(Merged(s, f))
    BY <1>1, <2>2, <2>4, <2>5, StacksOK
  <2> QED BY <1>1, <2>1, <2>5, <2>6 DEF Merged
<1>4. InBody
  BY <1>1, <1>2, <1>3 DEF CloseContainer, InBody
<1> QED BY <1>1, <1>4, InBodyKeeps

\* The document that is returned is the root object, and none is left open.
LEMMA ReturnKeeps ==
  ASSUME ReaderInv, ReturnDocument \/ ReturnNull
  PROVE  ReaderInv'
<1>1. CASE ReturnDocument
  <2>1. /\ status = "body" /\ Len(stack) = 1 /\ status' = "doc" /\ result' = Top.node /\ stack' = <<>>
        /\ input' = input /\ rerror' = rerror /\ pos' = pos
    BY <1>1 DEF ReturnDocument, RootEnds
  <2>2. Top = stack[1] /\ StackOK(stack)
    BY <2>1, Seen
  <2>3. result'.type = "object"
    BY <2>1, <2>2 DEF StackOK
  <2> QED BY <2>1, <2>3 DEF ReaderInv
<1>2. CASE ReturnNull
  <2>1. /\ status \in {"header", "body"} /\ status' = "null" /\ result' = result /\ stack' = <<>>
        /\ input' = input /\ rerror' = rerror /\ pos' = pos
    BY <1>2 DEF ReturnNull, ParseFails
  <2> QED BY <2>1 DEF ReaderInv
<1> QED BY <1>1, <1>2

\* The two invariants hold of every behaviour.
LEMMA ReaderSound == Spec => [](WriterInv /\ ReaderInv)
<1>1. Init => ReaderInv
  <2> SUFFICES ASSUME Init  PROVE ReaderInv
    OBVIOUS
  <2>1. <<>> \in Seq(Signs) /\ Len(<<>>) = 0 /\ 1 \in 1 .. 0 + 1
    OBVIOUS
  <2> QED BY <2>1 DEF Init, ReaderInv
<1>2. WriterInv /\ ReaderInv /\ [Next]_vars => ReaderInv'
  <2> SUFFICES ASSUME WriterInv, ReaderInv, [Next]_vars  PROVE ReaderInv'
    OBVIOUS
  <2>1. CASE WriteChar
    BY <2>1 DEF WriteChar, readerVars, ReaderInv
  <2>2. CASE UNCHANGED vars
    BY <2>2 DEF vars, ReaderInv
  <2> QED BY <2>1, <2>2, OpenKeeps, ReadHeaderKeeps, ReadPlainKeeps, OpenContainerKeeps, OpenShorthandKeeps,
             CloseContainerKeeps, ReturnKeeps DEF Next, Write, Parse
<1>3. Spec => []ReaderInv
  BY <1>1, <1>2, WriterSound, PTL DEF Spec
<1> QED BY <1>3, WriterSound, PTL

\* The parser never goes more than one character past what it was given,
\* whatever that was, and has containers open exactly while it reads
\* (kdf_text_parser.c:22-863).
THEOREM TypeCorrect == Spec => []TypeOK
<1>1. WriterInv /\ ReaderInv => TypeOK
  BY DEF WriterInv, ReaderInv, TypeOK, StackOK, Last
<1> QED BY <1>1, ReaderSound, PTL

-----------------------------------------------------------------------------
(* What reading gives back.  In the lemmas that follow, input is the text of *)
(* a document or a beginning of it; each says what an operator reads where a *)
(* given text is, or would be if it had arrived.                             *)

\* From behind o on, the parser finds s, as far as it has arrived.
Sees(o, s) == \A j \in 1 .. Len(s) : At(o + j) = IF o + j <= Len(input) THEN s[j] ELSE EOF

\* No text has the end of the stream in it.
LEMMA NoEnd == EOF \notin Signs
<1>1. EOF \notin Marks \cup Keywords \cup DOMAIN Letters
  BY DEF EOF, Marks, Keywords, Letters, NewLine, Vectors, VectorSize
<1>2. EOF \notin Range(Digits)
  <2>1. DOMAIN Digits = 1 .. 10 /\ \A k \in 1 .. 10 : Digits[k] # EOF
    BY DEF Digits, EOF
  <2> QED BY <2>1 DEF Range
<1>3. EOF \notin Characters \cup Contents
  BY TextAssumption
<1> QED BY <1>1, <1>2, <1>3 DEF Signs

\* One text behind the other.
LEMMA SeesBoth ==
  ASSUME NEW s \in Seq(Signs), NEW t \in Seq(Signs), NEW o \in Nat, Sees(o, s \o t)
  PROVE  /\ Sees(o, s) /\ Sees(o + Len(s), t)
         /\ Len(s \o t) = Len(s) + Len(t) /\ Len(s) \in Nat /\ Len(t) \in Nat
<1>1. /\ Len(s \o t) = Len(s) + Len(t) /\ Len(s) \in Nat /\ Len(t) \in Nat
      /\ \A j \in 1 .. Len(s) : (s \o t)[j] = s[j]
      /\ \A j \in 1 .. Len(t) : (s \o t)[Len(s) + j] = t[j]
  BY Concatenated
<1> DEFINE u == s \o t
<1> HIDE DEF u
<1>2. \A j \in 1 .. Len(u) : At(o + j) = IF o + j <= Len(input) THEN u[j] ELSE EOF
  BY DEF Sees, u
<1>3. ASSUME NEW j \in 1 .. Len(s)
      PROVE  At(o + j) = IF o + j <= Len(input) THEN s[j] ELSE EOF
  <2>1. j \in 1 .. Len(u) /\ u[j] = s[j]
    BY <1>1 DEF u
  <2> QED BY <1>2, <2>1
<1>4. ASSUME NEW j \in 1 .. Len(t)
      PROVE  At((o + Len(s)) + j) = IF (o + Len(s)) + j <= Len(input) THEN t[j] ELSE EOF
  <2>1. Len(s) + j \in 1 .. Len(u) /\ u[Len(s) + j] = t[j]
    BY <1>1 DEF u
  <2>2. o + (Len(s) + j) = (o + Len(s)) + j
    BY <1>1
  <2> QED BY <1>2, <2>1, <2>2
<1> QED BY <1>1, <1>3, <1>4 DEF Sees

\* The parts of a flattened sequence.
LEMMA SeesParts ==
  ASSUME NEW seqs \in Seq(Seq(Signs)), NEW all, NEW at, Layout(seqs, all, at), NEW o \in Nat,
         Sees(o, all), NEW i \in 1 .. Len(seqs)
  PROVE  Sees(o + at[i], seqs[i]) /\ o + at[i] \in Nat
<1>1. PICK n, part, a : n = Len(seqs) /\ part = seqs[i] /\ a = at[i]
  OBVIOUS
<1>2. n \in Nat /\ part \in Seq(Signs) /\ Len(part) \in Nat /\ i \in 1 .. n /\ i \in 1 .. n + 1 /\ n + 1 \in 1 .. n + 1
  BY <1>1
<1>3. a \in Nat /\ Len(all) \in Nat /\ \A j \in 1 .. Len(part) : all[a + j] = part[j]
  BY <1>1, <1>2 DEF Layout
<1>4. a + Len(part) <= Len(all)
  BY <1>1, LayoutFits
<1>5. ASSUME NEW j \in 1 .. Len(part)
      PROVE  At((o + a) + j) = IF (o + a) + j <= Len(input) THEN part[j] ELSE EOF
  <2>1. a + j \in 1 .. Len(all) /\ o + (a + j) = (o + a) + j
    BY <1>2, <1>3, <1>4
  <2>2. At(o + (a + j)) = IF o + (a + j) <= Len(input) THEN all[a + j] ELSE EOF
    BY <2>1 DEF Sees
  <2> QED BY <1>3, <2>1, <2>2
<1>6. Sees(o + a, part) /\ o + a \in Nat
  BY <1>3, <1>5 DEF Sees
<1> QED BY <1>1, <1>6

\* An escaped character is one that stands for itself, or a backslash and what
\* parser_read_quoted_string makes that character of.
LEMMA EscapesUndone ==
  ASSUME NEW c \in Characters
  PROVE  /\ Escaped(c) \in Seq(Signs) /\ Len(Escaped(c)) \in {1, 2}
         /\ Len(Escaped(c)) = 1 => Escaped(c)[1] = c /\ c \notin {"\"", "\\", EOF}
         /\ Len(Escaped(c)) = 2 => Escaped(c)[1] = "\\" /\ Unescaped(Escaped(c)[2]) = c
<1>1. DOMAIN Letters = {"n", "r", "t"} /\ Letters["n"] = "\n" /\ Letters["r"] = "\r" /\ Letters["t"] = "\t"
  BY DEF Letters
<1>2. c \in Signs /\ "\\" \in Signs /\ "\"" \in Signs /\ DOMAIN Letters \subseteq Signs
  BY DEF Signs, Marks
<1> DEFINE Undone(e) == /\ e \in Seq(Signs) /\ Len(e) \in {1, 2}
                        /\ Len(e) = 1 => e[1] = c /\ c \notin {"\"", "\\", EOF}
                        /\ Len(e) = 2 => e[1] = "\\" /\ Unescaped(e[2]) = c
<1>a. ASSUME NEW l \in Signs, Unescaped(l) = c  PROVE Undone(<<"\\", l>>)
  <2>1. Len(<<"\\", l>>) = 2 /\ <<"\\", l>>[2] = l /\ <<"\\", l>>[1] = "\\"
    OBVIOUS
  <2>2. <<"\\", l>> \in Seq(Signs)
    BY <1>2, SignsJoined
  <2> QED BY <1>a, <2>1, <2>2
<1>b. ASSUME c \notin {"\"", "\\", EOF}  PROVE Undone(<<c>>)
  <2>1. Len(<<c>>) = 1 /\ <<c>>[1] = c
    OBVIOUS
  <2>2. <<c>> \in Seq(Signs)
    BY <1>2, SignsJoined
  <2>3. PICK e : e = <<c>>
    OBVIOUS
  <2>4. e \in Seq(Signs) /\ Len(e) = 1 /\ e[1] = c
    BY <2>1, <2>2, <2>3
  <2>5. 1 # 2
    OBVIOUS
  <2>6. Undone(e)
    BY <1>b, <2>4, <2>5
  <2> QED BY <2>3, <2>6
<1> HIDE DEF Undone
<1> SUFFICES Undone(Escaped(c))
  BY DEF Undone
<1>3. CASE c \in Range(Letters)
  <2> DEFINE l == CHOOSE k \in DOMAIN Letters : Letters[k] = c
  <2>1. l \in DOMAIN Letters /\ Letters[l] = c
    BY <1>3 DEF Range
  <2>2. Escaped(c) = <<"\\", l>>
    BY <1>3 DEF Escaped
  <2> HIDE DEF l
  <2>3. Unescaped(l) = c
    BY <2>1 DEF Unescaped
  <2> QED BY <1>2, <1>a, <2>1, <2>2, <2>3
<1>4. CASE c \notin Range(Letters) /\ c \in {"\"", "\\"}
  <2>1. Escaped(c) = <<"\\", c>>
    BY <1>4 DEF Escaped
  <2>2. c \notin DOMAIN Letters
    BY <1>1, <1>4
  <2>3. Unescaped(c) = c
    BY <2>2 DEF Unescaped
  <2> QED BY <1>2, <1>a, <2>1, <2>3
<1>5. CASE c \notin Range(Letters) /\ c \notin {"\"", "\\"}
  <2>1. Escaped(c) = <<c>>
    BY <1>5 DEF Escaped
  <2>2. c # EOF
    BY TextAssumption
  <2> QED BY <1>5, <1>b, <2>1, <2>2
<1> QED BY <1>3, <1>4, <1>5

\* It is read as that character, or, if the stream ends in it, not at all.
LEMMA EscapesRead ==
  ASSUME input \in Seq(Signs), NEW c \in Characters, NEW q \in 0 .. Len(input), Sees(q, Escaped(c))
  PROVE  LET l == Len(Escaped(c)) IN
         RestOfString[q + 1] = IF q + l <= Len(input) THEN Prefixed(c, RestOfString[(q + l) + 1]) ELSE Bad
<1> DEFINE n == Len(input)
           e == Escaped(c)
           Step(p) == CASE At(p) = EOF  -> Unclosed(p)
                        [] At(p) = "\"" -> Read(p + 1, <<>>)
                        [] At(p) = "\\" -> Prefixed(Unescaped(At(p + 1)), RestOfString[p + 2])
                        [] OTHER        -> Prefixed(At(p), RestOfString[p + 1])
<1>1. n \in Nat /\ q \in Nat
  OBVIOUS
<1>2. /\ Len(e) \in {1, 2}
      /\ Len(e) = 1 => e[1] = c /\ c \notin {"\"", "\\", EOF}
      /\ Len(e) = 2 => e[1] = "\\" /\ Unescaped(e[2]) = c
  BY EscapesUndone
<1>3. /\ At(q + 1) = IF q + 1 <= n THEN e[1] ELSE EOF
      /\ Len(e) = 2 => At(q + 2) = IF q + 2 <= n THEN e[2] ELSE EOF
  <2>0. \A j \in 1 .. Len(e) : At(q + j) = IF q + j <= n THEN e[j] ELSE EOF
    BY DEF Sees
  <2> HIDE DEF e, n
  <2>1. 1 \in 1 .. Len(e) /\ (Len(e) = 2 => 2 \in 1 .. Len(e))
    <3>1. PICK l : l = Len(e)
      OBVIOUS
    <3>2. l \in {1, 2}
      BY <1>2, <3>1
    <3>3. 1 \in 1 .. l /\ (l = 2 => 2 \in 1 .. l)
      BY <3>2
    <3> QED BY <3>1, <3>3
  <2> QED BY <2>0, <2>1
<1>4. \A p \in 1 .. n + 2 : RestOfString[p] = Step(p)
  BY StringsUnfolded
<1>5. \A p \in 1 .. n + 2 : At(p) = EOF => RestOfString[p] = Bad
  <2>1. EOF # "\"" /\ EOF # "\\"
    BY DEF EOF
  <2> QED BY <1>4, <2>1 DEF Unclosed
<1>6. "\\" # EOF /\ "\\" # "\""
  BY DEF EOF
<1> HIDE DEF n, e
<1>7. CASE q = n
  <2>1. q + 1 \in 1 .. n + 2 /\ ~ (q + 1 <= n) /\ ~ (q + Len(e) <= n)
    <3>1. PICK l : l = Len(e)
      OBVIOUS
    <3>2. l \in {1, 2}
      BY <1>2, <3>1
    <3>3. q + 1 \in 1 .. n + 2 /\ ~ (q + 1 <= n) /\ ~ (q + l <= n)
      BY <1>1, <1>7, <3>2
    <3> QED BY <3>1, <3>3
  <2>2. RestOfString[q + 1] = Bad
    BY <1>3, <1>5, <2>1
  <2> QED BY <2>1, <2>2 DEF e, n
<1>8. CASE q # n /\ Len(e) = 1
  <2>1. q + 1 \in 1 .. n + 2 /\ q + 1 <= n /\ (q + 1) + 1 = (q + Len(e)) + 1 /\ q + Len(e) <= n
    BY <1>1, <1>8 DEF n
  <2>2. At(q + 1) = c /\ c \notin {"\"", "\\", EOF}
    BY <1>2, <1>3, <1>8, <2>1
  <2>3. RestOfString[q + 1] = Prefixed(c, RestOfString[(q + 1) + 1])
    BY <1>4, <2>1, <2>2
  <2> QED BY <2>1, <2>3 DEF e, n
<1>9. CASE q # n /\ Len(e) = 2
  <2>1. q + 1 \in 1 .. n + 2 /\ q + 1 <= n /\ (q + 1) + 2 = (q + 2) + 1 /\ (q + 1) + 1 = q + 2
        /\ (q + 2) + 1 \in 1 .. n + 2
    BY <1>1, <1>9 DEF n
  <2>2. At(q + 1) = "\\"
    BY <1>2, <1>3, <1>9, <2>1
  <2>3. RestOfString[q + 1] = Prefixed(Unescaped(At(q + 2)), RestOfString[(q + 2) + 1])
    BY <1>4, <1>6, <2>1, <2>2
  <2>4. CASE q + 2 <= n
    BY <1>2, <1>3, <1>9, <2>3, <2>4 DEF e, n
  <2>5. CASE ~ (q + 2 <= n)
    <3>1. q + 2 = n + 1 /\ (q + 2) + 1 = n + 2
      BY <1>1, <2>1, <2>5
    <3>2. At(n + 2) = EOF
      BY AtTheEnd DEF At, n
    <3>3. RestOfString[n + 2] = Bad
      BY <1>5, <2>1, <3>1, <3>2
    <3>4. RestOfString[q + 1] = Bad
      BY <2>3, <3>1, <3>3 DEF Prefixed
    <3> QED BY <1>9, <2>5, <3>4 DEF e, n
  <2> QED BY <2>4, <2>5
<1> QED BY <1>2, <1>7, <1>8, <1>9

\* The string that comes back: a NULL one is empty.
Stored(str) == IF str = NULL THEN <<>> ELSE str

\* A string that tw_quoted wrote is read by parser_read_quoted_string as the
\* same string, whatever has to be escaped in it; if not all of it has arrived,
\* it is not read at all.
THEOREM StringsReadBack ==
  ASSUME input \in Seq(Signs), NEW str \in Seq(Characters) \cup {NULL},
         NEW o \in 0 .. Len(input), Sees(o, Quoted(str))
  PROVE  QuotedAt(o + 1) = IF o + Len(Quoted(str)) <= Len(input)
                           THEN Read((o + Len(Quoted(str))) + 1, Stored(str)) ELSE Bad
<1> DEFINE n == Len(input)
           text == Stored(str)
           e == [i \in DOMAIN text |-> Escaped(text[i])]
           body == FlattenSeq(e)
           quote == <<"\"">>
           m == Len(text)
<1>1. /\ text \in Seq(Characters) /\ m \in Nat /\ DOMAIN text = 1 .. m
      /\ \A i \in 1 .. m : text[i] \in Characters
  <2>1. text \in Seq(Characters)
    BY DEF Stored
  <2> HIDE DEF text
  <2> QED BY <2>1
<1>2. n \in Nat /\ o \in Nat /\ o <= n
  OBVIOUS
<1>3. e \in Seq(Seq(Signs)) /\ Len(e) = m /\ \A i \in 1 .. m : e[i] = Escaped(text[i])
  <2> HIDE DEF text, m
  <2>1. \A i \in 1 .. m : Escaped(text[i]) \in Seq(Signs)
    BY <1>1, EscapesUndone
  <2> QED BY <1>1, <2>1
<1> HIDE DEF n, text, m
<1>4. body \in Seq(Signs) /\ Len(body) \in Nat /\ \E at : Layout(e, body, at)
  <2> HIDE DEF e
  <2>1. body \in Seq(Signs) /\ \E at : Layout(e, body, at)
    BY <1>3, Flattened
  <2> QED BY <2>1
<1>5. Quoted(str) = quote \o body \o quote
  <2>1. CASE str = NULL
    <3>1. e = <<>>
      BY <2>1 DEF text, Stored
    <3>2. body = <<>>
      <4>1. PICK at : Layout(e, body, at)
        BY <1>4
      <4>2. Len(e) = 0
        BY <3>1
      <4> HIDE DEF e, body
      <4>3. Len(body) = 0
        <5>1. Len(e) + 1 = 1
          BY <4>2
        <5> QED BY <4>1, <5>1 DEF Layout
      <4> QED BY <1>4, <4>3
    <3> QED BY <2>1, <3>2 DEF Quoted
  <2>2. CASE str # NULL
    BY <2>2 DEF Quoted, text, Stored
  <2> QED BY <2>1, <2>2
<1> HIDE DEF e, body
<1>6. PICK at : Layout(e, body, at)
  BY <1>4
<1>7. quote \in Seq(Signs) /\ Len(quote) = 1 /\ quote[1] = "\""
  <2>1. "\"" \in Signs
    BY DEF Signs, Marks
  <2>2. quote \in Seq(Signs)
    BY <2>1, SignsJoined
  <2> QED BY <2>2
<1>8. /\ Len(Quoted(str)) = Len(body) + 2
      /\ Sees(o, quote) /\ Sees(o + 1, body) /\ Sees((o + 1) + Len(body), quote)
  <2> HIDE DEF quote
  <2>1. quote \o body \in Seq(Signs)
    BY <1>4, <1>7, SignsJoined
  <2>a. Sees(o, (quote \o body) \o quote) /\ Len(Quoted(str)) = Len((quote \o body) \o quote)
    BY <1>5
  <2>2. /\ Sees(o, quote \o body) /\ Sees(o + Len(quote \o body), quote)
        /\ Len(Quoted(str)) = Len(quote \o body) + Len(quote)
    BY <1>2, <1>7, <2>1, <2>a, SeesBoth
  <2>3. Sees(o, quote) /\ Sees(o + Len(quote), body) /\ Len(quote \o body) = Len(quote) + Len(body)
    BY <1>2, <1>4, <1>7, <2>2, SeesBoth
  <2>4. o + (1 + Len(body)) = (o + 1) + Len(body) /\ (1 + Len(body)) + 1 = Len(body) + 2
    BY <1>2, <1>4
  <2> QED BY <1>7, <2>2, <2>3, <2>4
<1> DEFINE c == (o + 1) + Len(body)
           Place(i) == (o + 1) + at[i]
           Rest(i) == SubSeq(text, i, m)
           Right(i) == RestOfString[Place(i) + 1] = IF c + 1 <= n THEN Read(c + 2, Rest(i)) ELSE Bad
           S == {k \in Nat : Place(m + 1 - k) <= n => Right(m + 1 - k)}
<1>9. /\ at \in [1 .. m + 1 -> Nat] /\ at[m + 1] = Len(body) /\ at[1] = 0 /\ c \in Nat
      /\ \A i \in 1 .. m : at[i + 1] = at[i] + Len(e[i])
  BY <1>2, <1>3, <1>4, <1>6 DEF Layout
<1>10. \A i \in 1 .. m : Sees(Place(i), e[i]) /\ Place(i) \in Nat
  <2>1. o + 1 \in Nat
    BY <1>2
  <2> QED BY <1>3, <1>6, <1>8, <2>1, SeesParts
<1>11. ASSUME NEW p \in 1 .. n + 2, At(p) = EOF  PROVE RestOfString[p] = Bad
  <2>1. EOF # "\"" /\ EOF # "\\"
    BY DEF EOF
  <2> QED BY <1>11, <2>1, StringsUnfolded DEF Unclosed, n
<1>12. At(c + 1) = IF c + 1 <= n THEN "\"" ELSE EOF
  <2> HIDE DEF quote, c
  <2>0. 1 \in 1 .. 1
    OBVIOUS
  <2>1. 1 \in 1 .. Len(quote)
    BY <1>7, <2>0, Zenon
  <2> QED BY <1>7, <1>8, <2>1 DEF Sees, n, c
<1>13. Place(m + 1) = c /\ Rest(m + 1) = <<>>
  BY <1>1, <1>9
<1>14. ASSUME NEW i \in 1 .. m
       PROVE  Rest(i) = <<text[i]>> \o Rest(i + 1)
  <2>1. /\ Rest(i) \in Seq(Characters) /\ Len(Rest(i)) = m - i + 1
        /\ \A j \in 1 .. m - i + 1 : Rest(i)[j] = text[i + j - 1]
    BY <1>1 DEF m
  <2>2. /\ Rest(i + 1) \in Seq(Characters) /\ Len(Rest(i + 1)) = m - i
        /\ \A j \in 1 .. m - i : Rest(i + 1)[j] = text[i + j]
    <3>0. i + 1 \in Int /\ m \in Int /\ m - (i + 1) + 1 = m - i /\ \A j \in i + 1 .. m : j \in 1 .. m
      BY <1>1
    <3>1. /\ \A j \in i + 1 .. m : text[j] \in Characters
          /\ (IF i + 1 <= m THEN m - (i + 1) + 1 ELSE 0) = m - (i + 1) + 1
      BY <1>1, <3>0
    <3>2. /\ SubSeq(text, i + 1, m) \in Seq(Characters) /\ Len(SubSeq(text, i + 1, m)) = m - (i + 1) + 1
          /\ \A j \in 1 .. m - (i + 1) + 1 : SubSeq(text, i + 1, m)[j] = text[(i + 1) + j - 1]
      <4> HIDE DEF m
      <4> QED BY <3>0, <3>1, SubSeqProperties
    <3>3. \A j \in 1 .. m - i : (i + 1) + j - 1 = i + j
      BY <1>1
    <3> HIDE DEF m
    <3> QED BY <3>0, <3>2, <3>3
  <2> DEFINE one == <<text[i]>>
             r == Rest(i + 1)
             both == one \o r
  <2>3. one \in Seq(Characters) /\ Len(one) = 1 /\ one[1] = text[i]
    BY <1>1
  <2> HIDE DEF one, Rest, r
  <2>4. /\ both \in Seq(Characters) /\ Len(both) = 1 + (m - i)
        /\ both[1] = text[i] /\ \A j \in 1 .. m - i : both[1 + j] = text[i + j]
    <3>1. r \in Seq(Characters) /\ one \in Seq(Characters)
      BY <2>2, <2>3 DEF r
    <3>2. /\ both \in Seq(Characters) /\ Len(both) = Len(one) + Len(r)
          /\ \A j \in 1 .. Len(one) : both[j] = one[j]
          /\ \A j \in 1 .. Len(r) : both[Len(one) + j] = r[j]
      BY <3>1, Concatenated
    <3> HIDE DEF both
    <3>3. Len(r) = m - i /\ \A j \in 1 .. m - i : r[j] = text[i + j]
      BY <2>2 DEF r
    <3>4. 1 \in 1 .. Len(one)
      BY <2>3
    <3> QED BY <2>3, <3>2, <3>3, <3>4
  <2> HIDE DEF both
  <2>5. \A j \in 1 .. m - i + 1 : both[j] = Rest(i)[j]
    <3> SUFFICES ASSUME NEW j \in 1 .. m - i + 1  PROVE both[j] = Rest(i)[j]
      OBVIOUS
    <3>1. CASE j = 1
      BY <2>1, <2>4, <3>1
    <3>2. CASE j # 1
      <4>1. j - 1 \in 1 .. m - i /\ 1 + (j - 1) = j /\ i + (j - 1) = i + j - 1
        BY <1>1, <3>2
      <4>2. both[1 + (j - 1)] = text[i + (j - 1)]
        BY <2>4, <4>1
      <4> QED BY <2>1, <4>1, <4>2
    <3> QED BY <3>1, <3>2
  <2>6. 1 + (m - i) = m - i + 1
    BY <1>1
  <2>7. both = Rest(i)
    BY <2>1, <2>4, <2>5, <2>6, SeqEqual
  <2> QED BY <2>7 DEF both, one, r
<1> HIDE DEF Rest, c
<1>15. 0 .. m \subseteq S
  <2>1. 0 \in S
    <3>1. m + 1 - 0 = m + 1
      BY <1>1
    <3>2. ASSUME Place(m + 1) <= n  PROVE Right(m + 1)
      <4>1. c + 1 \in 1 .. n + 2 /\ (c + 1) + 1 = c + 2
        BY <1>2, <1>9, <1>13, <3>2
      <4>2. CASE c + 1 <= n
        <5>1. At(c + 1) = "\"" /\ "\"" # EOF
          BY <1>12, <4>2 DEF EOF
        <5>2. RestOfString[c + 1] = Read((c + 1) + 1, <<>>)
          BY <4>1, <5>1, StringsUnfolded DEF n
        <5> QED BY <1>13, <4>1, <4>2, <5>2
      <4>3. CASE ~ (c + 1 <= n)
        BY <1>11, <1>12, <1>13, <4>1, <4>3
      <4> QED BY <4>2, <4>3
    <3> HIDE DEF Place, Right
    <3> QED BY <3>1, <3>2
  <2>2. ASSUME NEW k \in 0 .. m - 1, k \in S  PROVE k + 1 \in S
    <3>1. m - k \in 1 .. m /\ (m - k) + 1 = m + 1 - k /\ m + 1 - (k + 1) = m - k
      BY <1>1
    <3>2. PICK i : i = m - k
      OBVIOUS
    <3>3. i \in 1 .. m /\ m + 1 - (k + 1) = i /\ m + 1 - k = i + 1
      BY <3>1, <3>2
    <3>4. text[i] \in Characters /\ e[i] = Escaped(text[i]) /\ Len(e[i]) \in {1, 2}
      BY <1>1, <1>3, <3>3, EscapesUndone
    <3>5. PICK l : l = Len(e[i])
      OBVIOUS
    <3>6. l \in {1, 2} /\ Place(i + 1) = Place(i) + l /\ Place(i) \in Nat /\ Place(i + 1) <= c
      <4>1. i + 1 \in 1 .. m + 1 /\ at[i + 1] = at[i] + l /\ i \in 1 .. m + 1
        BY <1>1, <1>9, <3>3, <3>5
      <4>2. at[i] \in Nat /\ l \in {1, 2}
        BY <1>9, <3>4, <3>5, <4>1
      <4>3. at[i + 1] <= Len(body)
        <5>1. CASE i = m
          BY <1>9, <5>1
        <5>2. CASE i # m
          <6>1. i + 1 \in 1 .. m
            BY <1>1, <3>3, <5>2
          <6>2. at[i + 1] + Len(e[i + 1]) <= Len(body)
            BY <1>3, <1>6, <6>1, LayoutFits
          <6>3. Len(e[i + 1]) \in Nat /\ at[i + 1] \in Nat
            <7>1. e[i + 1] \in Seq(Signs)
              BY <1>3, <6>1
            <7> QED BY <1>9, <4>1, <7>1
          <6> QED BY <1>4, <6>2, <6>3
        <5> QED BY <5>1, <5>2
      <4>4. at[i + 1] \in Nat
        BY <4>1, <4>2
      <4>5. PICK a, b : a = at[i] /\ b = at[i + 1]
        OBVIOUS
      <4>6. a \in Nat /\ b \in Nat /\ b = a + l /\ b <= Len(body) /\ o \in Nat /\ Len(body) \in Nat
        BY <1>2, <1>4, <4>1, <4>2, <4>3, <4>4, <4>5
      <4>7. (o + 1) + b = ((o + 1) + a) + l /\ (o + 1) + a \in Nat /\ (o + 1) + b <= (o + 1) + Len(body)
        BY <4>2, <4>6
      <4> QED BY <4>2, <4>5, <4>7 DEF c
    <3>7. ASSUME Place(i) <= n  PROVE Right(i)
      <4>1. Sees(Place(i), Escaped(text[i])) /\ Place(i) \in 0 .. n
        BY <1>2, <1>10, <3>3, <3>4, <3>6, <3>7
      <4>2. RestOfString[Place(i) + 1] = IF Place(i) + l <= n
                 THEN Prefixed(text[i], RestOfString[(Place(i) + l) + 1]) ELSE Bad
        <5> HIDE DEF Place
        <5> QED BY <3>4, <3>5, <4>1, EscapesRead DEF n
      <4>3. CASE Place(i) + l <= n
        <5>1. Right(i + 1)
          <6> HIDE DEF Place, Right
          <6> QED BY <2>2, <3>3, <3>6, <4>3
        <5>2. RestOfString[Place(i) + 1] = Prefixed(text[i], RestOfString[Place(i + 1) + 1])
          <6> HIDE DEF Place
          <6> QED BY <3>6, <4>2, <4>3
        <5>3. Prefixed(text[i], Bad) = Bad
          BY DEF Prefixed
        <5>4. Prefixed(text[i], Read(c + 2, Rest(i + 1))) = Read(c + 2, Rest(i))
          <6>1. Read(c + 2, Rest(i + 1)) # Bad
            <7>1. c + 2 # 0
              BY <1>9
            <7> QED BY <7>1 DEF Read, Bad
          <6> QED BY <1>14, <3>3, <6>1 DEF Prefixed, Read
        <5> HIDE DEF Place
        <5> QED BY <5>1, <5>2, <5>3, <5>4
      <4>4. CASE ~ (Place(i) + l <= n)
        <5>1. ~ (c + 1 <= n)
          <6> HIDE DEF Place
          <6> QED BY <1>2, <1>9, <3>6, <4>4
        <5> QED BY <4>2, <4>4, <5>1
      <4> QED BY <4>3, <4>4
    <3>8. k + 1 \in Nat
      OBVIOUS
    <3> HIDE DEF Place, Right
    <3> QED BY <3>3, <3>7, <3>8
  <2> HIDE DEF S
  <2> QED BY <1>1, <2>1, <2>2, InductionUpTo
<1>16. Place(1) = o + 1 /\ Rest(1) = text
  <2>1. at[1] = 0
    BY <1>9
  <2>2. SubSeq(text, 1, Len(text)) = text
    BY <1>1
  <2> QED BY <1>2, <2>1, <2>2 DEF Rest, m
<1>17. o + 1 <= n => Right(1)
  <2>1. m \in 0 .. m /\ m + 1 - m = 1
    BY <1>1
  <2>2. m \in S
    BY <1>15, <2>1
  <2> HIDE DEF Right
  <2> QED BY <1>16, <2>1, <2>2
<1>18. At(o + 1) = IF o + 1 <= n THEN "\"" ELSE EOF
  <2> HIDE DEF quote
  <2>0. 1 \in 1 .. 1
    OBVIOUS
  <2>1. 1 \in 1 .. Len(quote)
    BY <1>7, <2>0, Zenon
  <2> QED BY <1>7, <1>8, <2>1 DEF Sees, n
<1>19. o + Len(Quoted(str)) = c + 1 /\ (o + Len(Quoted(str))) + 1 = c + 2
  <2>1. o + (Len(body) + 2) = ((o + 1) + Len(body)) + 1 /\ (o + (Len(body) + 2)) + 1 = ((o + 1) + Len(body)) + 2
    BY <1>2, <1>4
  <2> QED BY <1>8, <2>1 DEF c
<1>20. CASE o + 1 <= n
  <2>1. QuotedAt(o + 1) = RestOfString[(o + 1) + 1]
    BY <1>18, <1>20 DEF QuotedAt
  <2> QED BY <1>16, <1>17, <1>19, <1>20, <2>1 DEF n, text
<1>21. CASE ~ (o + 1 <= n)
  <2>1. QuotedAt(o + 1) = Bad
    <3>1. EOF # "\""
      BY DEF EOF
    <3> QED BY <1>18, <1>21, <3>1 DEF QuotedAt
  <2>2. ~ (c + 1 <= n)
    BY <1>2, <1>4, <1>21 DEF c
  <2> QED BY <1>19, <2>1, <2>2 DEF n
<1> QED BY <1>20, <1>21

-----------------------------------------------------------------------------
(* Numbers. *)

\* The sums of the digits up to each of them, as parser_read_number forms them.
Sums(ds, f) == f[0] = 0 /\ \A i \in 1 .. Len(ds) : f[i] = Shifted(f[i - 1], ds[i])

LEMMA AccumulatedSums ==
  ASSUME NEW X, NEW ds \in Seq(X)
  PROVE  \E f : Sums(ds, f) /\ Accumulated(ds) = f[Len(ds)]
<1> DEFINE n == Len(ds)
           Step(i, f) == IF i = 0 THEN 0 ELSE Shifted(f[i - 1], ds[i])
           S == {k \in Nat : \E f : f = [i \in 0 .. k |-> Step(i, f)]}
<1>0. n \in Nat
  OBVIOUS
<1> HIDE DEF n
<1>1. 0 .. n \subseteq S
  <2>1. 0 \in S
    <3>1. PICK f : f = [i \in 0 .. 0 |-> 0]
      OBVIOUS
    <3>2. f = [i \in 0 .. 0 |-> Step(i, f)]
      <4>1. \A i \in 0 .. 0 : i = 0
        OBVIOUS
      <4> QED BY <3>1, <4>1
    <3> HIDE DEF Step
    <3> QED BY <3>2
  <2>2. ASSUME NEW k \in 0 .. n - 1, k \in S  PROVE k + 1 \in S
    <3>1. PICK f : f = [i \in 0 .. k |-> Step(i, f)]
      BY <2>2
    <3> DEFINE g == [i \in 0 .. k + 1 |-> Step(i, f)]
    <3>2. \A i \in 0 .. k : g[i] = f[i]
      <4> HIDE DEF Step
      <4>1. \A i \in 0 .. k : i \in 0 .. k + 1
        OBVIOUS
      <4>2. \A i \in 0 .. k : f[i] = Step(i, f)
        BY <3>1
      <4> QED BY <4>1, <4>2
    <3>3. \A i \in 0 .. k + 1 : i # 0 => i - 1 \in 0 .. k
      OBVIOUS
    <3> HIDE DEF g
    <3>4. \A i \in 0 .. k + 1 : Step(i, g) = Step(i, f)
      BY <3>2, <3>3
    <3>5. g = [i \in 0 .. k + 1 |-> Step(i, g)]
      <4> HIDE DEF Step
      <4> QED BY <3>4 DEF g
    <3>6. k + 1 \in Nat
      OBVIOUS
    <3> HIDE DEF Step
    <3> QED BY <3>5, <3>6
  <2> HIDE DEF S
  <2> QED BY <1>0, <2>1, <2>2, InductionUpTo
<1> DEFINE F == CHOOSE f : f = [i \in 0 .. n |-> Step(i, f)]
<1>2. F = [i \in 0 .. n |-> Step(i, F)]
  <2>1. n \in 0 .. n
    BY <1>0
  <2>2. n \in S
    <3> HIDE DEF S
    <3> QED BY <1>1, <2>1
  <2> HIDE DEF Step
  <2> QED BY <2>2
<1>3. Accumulated(ds) = F[n]
  BY DEF Accumulated, n
<1> HIDE DEF F
<1>4. \A i \in 0 .. n : F[i] = Step(i, F)
  <2> HIDE DEF Step
  <2> QED BY <1>2
<1>5. 0 \in 0 .. n /\ \A i \in 1 .. n : i \in 0 .. n /\ i # 0
  BY <1>0
<1>6. Sums(ds, F)
  BY <1>4, <1>5 DEF Sums, n
<1> QED BY <1>3, <1>6 DEF n

\* One more digit.
LEMMA AccumulatedMore ==
  /\ Accumulated(<<>>) = 0
  /\ \A X : \A ds \in Seq(X), d \in X : Accumulated(ds \o <<d>>) = Shifted(Accumulated(ds), d)
<1>1. Accumulated(<<>>) = 0
  <2>1. <<>> \in Seq({}) /\ Len(<<>>) = 0
    OBVIOUS
  <2> QED BY <2>1, AccumulatedSums DEF Sums
<1>2. ASSUME NEW X, NEW ds \in Seq(X), NEW d \in X
      PROVE  Accumulated(ds \o <<d>>) = Shifted(Accumulated(ds), d)
  <2> DEFINE n == Len(ds)
             es == ds \o <<d>>
  <2>1. n \in Nat /\ es \in Seq(X) /\ Len(es) = n + 1 /\ es[n + 1] = d /\ \A i \in 1 .. n : es[i] = ds[i]
    OBVIOUS
  <2> HIDE DEF n, es
  <2>2. PICK f : Sums(ds, f) /\ Accumulated(ds) = f[n]
    BY AccumulatedSums DEF n
  <2>3. PICK g : Sums(es, g) /\ Accumulated(es) = g[n + 1]
    BY <2>1, AccumulatedSums
  <2> DEFINE S == {k \in Nat : f[k] = g[k]}
  <2>4. 0 .. n \subseteq S
    <3>1. 0 \in S
      BY <2>2, <2>3 DEF Sums
    <3>2. ASSUME NEW k \in 0 .. n - 1, k \in S  PROVE k + 1 \in S
      <4>1. k + 1 \in 1 .. n /\ k + 1 \in 1 .. n + 1 /\ (k + 1) - 1 = k /\ k + 1 \in Nat
        BY <2>1
      <4>2. f[k + 1] = Shifted(f[k], ds[k + 1]) /\ g[k + 1] = Shifted(g[k], es[k + 1])
        BY <2>1, <2>2, <2>3, <4>1 DEF Sums, n
      <4> QED BY <2>1, <3>2, <4>1, <4>2
    <3> HIDE DEF S
    <3> QED BY <2>1, <3>1, <3>2, InductionUpTo
  <2>5. n \in 0 .. n /\ n + 1 \in 1 .. n + 1 /\ (n + 1) - 1 = n
    BY <2>1
  <2>6. f[n] = g[n]
    BY <2>4, <2>5
  <2>7. g[n + 1] = Shifted(g[n], d)
    BY <2>1, <2>3, <2>5 DEF Sums
  <2> QED BY <2>2, <2>3, <2>6, <2>7 DEF es
<1> QED BY <1>1, <1>2

\* What the wrapping of integers keeps.
LEMMA Wrapped ==
  /\ \A a \in Int : Signed(a) \in Int /\ Unsigned(a) \in Int
  /\ \A a, d \in Int : Signed(Signed(a) * 10 + d) = Signed(a * 10 + d)
  /\ \A a \in Int : Signed(-Signed(a)) = Signed(-a) /\ Unsigned(Signed(a)) = Unsigned(a)
  /\ \A a \in Ints : Signed(a) = a
  /\ \A a \in Uints : Unsigned(a) = a
<1>1. PICK h, m, S : h = Half /\ m = 2 * h /\ S = [a \in Int |-> ((a + h) % m) - h]
  OBVIOUS
<1>2. h \in Nat \ {0}
  BY <1>1, NumberAssumption
<1>3. Wraps(S, h, m)
  BY ONLY <1>1, <1>2, TwosComplement
<1>4. \A a \in Int : Signed(a) = S[a] /\ Unsigned(a) = a % m
  BY <1>1 DEF Signed, Unsigned
<1>5. Ints = -h .. h - 1 /\ Uints = 0 .. m - 1 /\ Ints \subseteq Int /\ Uints \subseteq Int
  BY <1>1, <1>2 DEF Ints, Uints
<1>6. \A a, d \in Int : a * 10 + d \in Int /\ -a \in Int
  OBVIOUS
<1> QED BY <1>3, <1>4, <1>5, <1>6 DEF Wraps

\* The value of a digit.
LEMMA DigitValues == \A k \in 0 .. 9 : DigitOf(Digits[k + 1]) = k /\ Digits[k + 1] \in Range(Digits)
<1>1. DOMAIN Digits = 1 .. 10
  BY DEF Digits
<1>2. \A i, j \in 1 .. 10 : Digits[i] = Digits[j] => i = j
  BY DEF Digits
<1>3. \A k \in 0 .. 9 : k + 1 \in 1 .. 10 /\ (k + 1) - 1 = k
  OBVIOUS
<1>4. ASSUME NEW k \in 0 .. 9  PROVE (CHOOSE i \in DOMAIN Digits : Digits[i] = Digits[k + 1]) = k + 1
  BY <1>1, <1>2, <1>3
<1> QED BY <1>1, <1>3, <1>4 DEF DigitOf, Range

\* What is printed of a number is read as that number, but for its width.
LEMMA PrintedReadBack ==
  \A n \in Nat : /\ Accumulated(Printed[n]) = Signed(n) /\ Printed[n] \in Seq(Range(Digits))
                 /\ Len(Printed[n]) \in Nat \ {0}
                 /\ n < 10 => Accumulated(<<"0">> \o Printed[n]) = Signed(n)
<1> DEFINE R == Range(Digits)
           One(n) == Digits[(n % 10) + 1]
           Lead(n) == IF n < 10 THEN <<>> ELSE Printed[n \div 10]
           Good(n) == Accumulated(Printed[n]) = Signed(n)
           S == {d \in Nat : \A n \in 0 .. d : Good(n)}
<1>1. \A n \in Nat : Printed[n] = Lead(n) \o <<One(n)>> /\ Printed[n] \in Seq(R)
  BY PrintedTyped
<1>2. \A n \in Nat : One(n) \in R /\ DigitOf(One(n)) = (n % 10) /\ (n % 10) \in Nat
  <2>1. \A n \in Nat : (n % 10) \in 0 .. 9
    OBVIOUS
  <2> QED BY <2>1, DigitValues
<1>3. \A n \in Nat : ~ (n < 10) => /\ n \div 10 \in Nat /\ n \div 10 < n
                                   /\ (n \div 10) * 10 + (n % 10) = n
  OBVIOUS
<1>4. \A n \in Nat : n < 10 => (n % 10) = n
  OBVIOUS
<1>5. \A n \in Nat : Lead(n) \in Seq(R)
  <2>1. <<>> \in Seq(R)
    OBVIOUS
  <2> HIDE DEF R
  <2> QED BY <1>1, <1>3, <2>1
<1> HIDE DEF R, One
<1>6. ASSUME NEW n \in Nat, NEW s \in Seq(R)
      PROVE  Accumulated(s \o <<One(n)>>) = Signed(Accumulated(s) * 10 + (n % 10))
  <2>1. Accumulated(s \o <<One(n)>>) = Shifted(Accumulated(s), One(n))
    BY <1>2, AccumulatedMore
  <2> QED BY <1>2, <2>1 DEF Shifted
<1>7. Signed(0) = 0 /\ Accumulated(<<>>) = 0 /\ DigitOf("0") = 0 /\ "0" \in R
  <2>1. 0 \in Ints
    BY NumberAssumption DEF Ints
  <2>2. 0 \in 0 .. 9 /\ Digits[0 + 1] = "0"
    BY DEF Digits
  <2> QED BY <2>1, <2>2, Wrapped, AccumulatedMore, DigitValues DEF R
<1>8. ASSUME NEW n \in Nat, n < 10
      PROVE  Good(n) /\ Accumulated(<<"0">> \o Printed[n]) = Signed(n)
  <2>1. Printed[n] = <<>> \o <<One(n)>> /\ <<>> \in Seq(R)
    <3>1. <<>> \in Seq(R)
      OBVIOUS
    <3>2. Printed[n] = Lead(n) \o <<One(n)>>
      BY <1>1
    <3> QED BY <1>8, <3>1, <3>2
  <2>2. Accumulated(Printed[n]) = Signed(0 * 10 + (n % 10))
    BY <1>6, <1>7, <2>1
  <2>3. 0 * 10 + (n % 10) = n
    BY <1>4, <1>8
  <2>4. Accumulated(<<"0">>) = 0 /\ <<"0">> \in Seq(R)
    <3>0. <<>> \o <<"0">> = <<"0">> /\ \A r \in R : <<r>> \in Seq(R)
      OBVIOUS
    <3>1. Accumulated(<<>> \o <<"0">>) = Shifted(0, "0")
      BY <1>7, <2>1, AccumulatedMore
    <3>2. Shifted(0, "0") = Signed(0 * 10 + 0)
      BY <1>7 DEF Shifted
    <3>3. 0 * 10 + 0 = 0
      OBVIOUS
    <3> QED BY <1>7, <3>0, <3>1, <3>2, <3>3
  <2>5. <<>> \o <<One(n)>> = <<One(n)>>
    OBVIOUS
  <2>6. Accumulated(<<"0">> \o <<One(n)>>) = Signed(0 * 10 + (n % 10))
    BY <1>6, <2>4
  <2> QED BY <2>1, <2>2, <2>3, <2>5, <2>6
<1>9. ASSUME NEW n \in Nat, ~ (n < 10), Good(n \div 10)  PROVE Good(n)
  <2>1. Accumulated(Printed[n]) = Signed(Accumulated(Printed[n \div 10]) * 10 + (n % 10))
    BY <1>1, <1>3, <1>6, <1>9
  <2>2. PICK q, r \in Int : q = n \div 10 /\ r = (n % 10) /\ q * 10 + r = n
    BY <1>2, <1>3, <1>9
  <2>3. Signed(Signed(q) * 10 + r) = Signed(q * 10 + r)
    BY Wrapped
  <2>4. Signed(n) = Signed(Signed(q) * 10 + r) /\ Accumulated(Printed[q]) = Signed(q)
    BY <1>9, <2>2, <2>3
  <2>5. Accumulated(Printed[n]) = Signed(Accumulated(Printed[q]) * 10 + r)
    BY <2>1, <2>2
  <2> QED BY <2>4, <2>5
<1>10. Nat \subseteq S
  <2>1. 0 \in S
    <3>1. \A n \in 0 .. 0 : n \in Nat /\ n < 10
      OBVIOUS
    <3> HIDE DEF Good
    <3> QED BY <1>8, <3>1
  <2>2. ASSUME NEW d \in Nat, d \in S  PROVE d + 1 \in S
    <3>1. ASSUME NEW n \in 0 .. d + 1  PROVE Good(n)
      <4>1. n \in Nat /\ (~ (n < 10) => n \div 10 \in 0 .. d)
        <5>1. n \in Nat
          OBVIOUS
        <5>2. ~ (n < 10) => n \div 10 \in Nat /\ n \div 10 < n
          BY <1>3, <5>1
        <5> QED BY <5>1, <5>2
      <4> HIDE DEF Good
      <4> QED BY <1>8, <1>9, <2>2, <4>1
    <3> HIDE DEF Good
    <3> QED BY <3>1
  <2> HIDE DEF S
  <2> QED BY <2>1, <2>2, Induction
<1>11. \A n \in Nat : Good(n)
  <2>1. \A n \in Nat : n \in 0 .. n
    OBVIOUS
  <2> HIDE DEF Good
  <2> QED BY <1>10, <2>1
<1>12. \A n \in Nat : Len(Printed[n]) \in Nat \ {0}
  <2> SUFFICES ASSUME NEW n \in Nat  PROVE Len(Printed[n]) \in Nat \ {0}
    OBVIOUS
  <2>1. PICK s : s = Lead(n)
    OBVIOUS
  <2>2. s \in Seq(R) /\ <<One(n)>> \in Seq(R) /\ Len(<<One(n)>>) = 1
    BY <1>2, <1>5, <2>1
  <2>3. Len(s \o <<One(n)>>) = Len(s) + 1 /\ Len(s) \in Nat
    BY <2>2
  <2>4. Printed[n] = s \o <<One(n)>>
    BY <1>1, <2>1
  <2>5. \A l \in Nat : l + 1 \in Nat \ {0}
    OBVIOUS
  <2> QED BY <2>3, <2>4, <2>5
<1> QED BY <1>1, <1>8, <1>11, <1>12 DEF R

\* Behind the end, the end is seen.
LEMMA SeesEnd ==
  ASSUME input \in Seq(Signs), NEW q \in Nat, q > Len(input)
  PROVE  At(q) = EOF
<1>1. q \notin DOMAIN input
  OBVIOUS
<1> QED BY <1>1 DEF At, CharAt

\* Digits are none of the characters that stand around them.
LEMMA DigitsApart ==
  /\ Range(Digits) \subseteq Signs
  /\ \A d \in Range(Digits) :
       d \notin {EOF, NewLine, "#", ",", ")", "(", "-", "+", ".", "e", "E", "u", "U", "inf", "\"", "[", "{", "]", "}"} \cup Keywords
<1>1. DOMAIN Digits = 1 .. 10
  BY DEF Digits
<1>2. \A i \in 1 .. 10 : Digits[i] \in {"0", "1", "2", "3", "4", "5", "6", "7", "8", "9"}
  BY DEF Digits
<1>3. Range(Digits) \subseteq {"0", "1", "2", "3", "4", "5", "6", "7", "8", "9"}
  BY <1>1, <1>2 DEF Range
<1>4. \A d \in {"0", "1", "2", "3", "4", "5", "6", "7", "8", "9"} :
        /\ d \notin {EOF, NewLine, "#", ",", ")", "(", "-", "+", ".", "e", "E", "u", "U", "inf", "\"", "[", "{", "]", "}"}
        /\ d \notin Keywords
  BY DEF EOF, NewLine, Keywords, Vectors, VectorSize
<1> QED BY <1>3, <1>4 DEF Signs

\* A run of digits ends where they end, or where the stream ends.
LEMMA DigitsRun ==
  ASSUME input \in Seq(Signs), NEW ds \in Seq(Range(Digits)), NEW o \in 0 .. Len(input), Sees(o, ds),
         ~ IsDigit(At((o + Len(ds)) + 1))
  PROVE  /\ o + Len(ds) <= Len(input) =>
              /\ DigitsEnd(input, o + 1) = (o + Len(ds)) + 1
              /\ SubSeq(input, o + 1, (o + Len(ds))) = ds
         /\ o + Len(ds) > Len(input) => DigitsEnd(input, o + 1) = Len(input) + 1
<1>1. PICK n, l : n = Len(input) /\ l = Len(ds)
  OBVIOUS
<1>2. n \in Nat /\ l \in Nat /\ o \in Nat /\ o <= n /\ DOMAIN input = 1 .. n /\ DOMAIN ds = 1 .. l
  BY <1>1
<1>3. \A j \in 1 .. l : ds[j] \in Range(Digits)
  BY <1>1
<1> DEFINE Good(j) == ~ IsDigit(CharAt(input, j)) /\ \A k \in o + 1 .. j - 1 : IsDigit(input[k])
<1>4. \A i, j \in o + 1 .. n + 1 : Good(i) /\ Good(j) => ~ (i < j)
  <2> SUFFICES ASSUME NEW i \in o + 1 .. n + 1, NEW j \in o + 1 .. n + 1, Good(i), Good(j), i < j
               PROVE  FALSE
    OBVIOUS
  <2>1. i \in o + 1 .. j - 1 /\ i \in 1 .. n
    BY <1>2
  <2> QED BY <1>2, <2>1 DEF CharAt
<1>5. \A i \in o + 1 .. n + 1 : Good(i) => DigitsEnd(input, o + 1) = i
  <2> SUFFICES ASSUME NEW i \in o + 1 .. n + 1, Good(i)  PROVE DigitsEnd(input, o + 1) = i
    OBVIOUS
  <2> DEFINE c == CHOOSE j \in o + 1 .. n + 1 : Good(j)
  <2>1. c \in o + 1 .. n + 1 /\ Good(c)
    OBVIOUS
  <2>2. c = DigitsEnd(input, o + 1)
    BY <1>1 DEF DigitsEnd
  <2> HIDE DEF c, Good
  <2>3. ~ (i < c) /\ ~ (c < i)
    BY <1>4, <2>1
  <2> QED BY <1>2, <2>1, <2>2, <2>3
<1>6. \A k \in o + 1 .. o + l : k <= n => input[k] = ds[k - o] /\ IsDigit(input[k])
  <2> SUFFICES ASSUME NEW k \in o + 1 .. o + l, k <= n  PROVE input[k] = ds[k - o] /\ IsDigit(input[k])
    OBVIOUS
  <2>1. k - o \in 1 .. l /\ o + (k - o) = k /\ k \in 1 .. n
    BY <1>2
  <2>2. At(k) = ds[k - o]
    BY <1>1, <2>1 DEF Sees
  <2> QED BY <1>2, <1>3, <2>1, <2>2 DEF At, CharAt, IsDigit
<1>7. CASE o + l <= n
  <2>1. PICK e : e = (o + l) + 1
    OBVIOUS
  <2>2. e \in o + 1 .. n + 1 /\ e - 1 = o + l
    BY <1>2, <1>7, <2>1
  <2>3. Good(e)
    <3>1. ~ IsDigit(CharAt(input, e))
      BY <1>1, <2>1 DEF At
    <3>2. \A k \in o + 1 .. e - 1 : k \in o + 1 .. o + l /\ k <= n
      BY <1>2, <1>7, <2>2
    <3> QED BY <1>6, <3>1, <3>2
  <2>4. DigitsEnd(input, o + 1) = e
    BY <1>5, <2>2, <2>3
  <2>5. SubSeq(input, o + 1, o + l) = ds
    <3> DEFINE t == SubSeq(input, o + 1, o + l)
    <3>1. \A i \in o + 1 .. o + l : input[i] \in Signs
      BY <1>2, <1>7
    <3>2. t \in Seq(Signs) /\ Len(t) = l
          /\ \A i \in 1 .. l : t[i] = input[(o + 1) + i - 1]
      <4>1. o + 1 \in Int /\ o + l \in Int
        BY <1>2
      <4>2. Len(t) = IF o + 1 <= o + l THEN (o + l) - (o + 1) + 1 ELSE 0
        BY <3>1, <4>1, SubSeqProperties
      <4>3. Len(t) = l
        BY <1>2, <4>2
      <4> QED BY <3>1, <4>1, <4>3, SubSeqProperties
    <3>3. \A i \in 1 .. l : (o + 1) + i - 1 \in o + 1 .. o + l /\ (o + 1) + i - 1 <= n /\ ((o + 1) + i - 1) - o = i
      BY <1>2, <1>7
    <3>4. \A i \in 1 .. l : t[i] = ds[i]
      BY <1>6, <3>2, <3>3
    <3> HIDE DEF t
    <3>5. t = [i \in 1 .. l |-> t[i]]
      BY <3>2
    <3>6. ds = [i \in 1 .. l |-> ds[i]]
      BY <1>1
    <3> QED BY <3>4, <3>5, <3>6 DEF t
  <2> QED BY <1>1, <1>2, <1>7, <2>1, <2>4, <2>5
<1>8. CASE o + l > n
  <2>1. n + 1 \in o + 1 .. n + 1 /\ n + 1 > n /\ n + 1 \in Nat
    BY <1>2
  <2>2. Good(n + 1)
    <3>1. At(n + 1) = EOF
      BY <1>1, <2>1, SeesEnd
    <3>2. \A k \in o + 1 .. (n + 1) - 1 : k \in o + 1 .. o + l /\ k <= n
      BY <1>2, <1>8
    <3>3. ~ IsDigit(EOF)
      BY DigitsApart DEF IsDigit
    <3> QED BY <1>6, <3>1, <3>2, <3>3 DEF At
  <2>3. DigitsEnd(input, o + 1) = n + 1
    BY <1>5, <2>1, <2>2
  <2> QED BY <1>1, <1>2, <1>8, <2>3
<1> QED BY <1>1, <1>2, <1>7, <1>8

\* A text of two characters.
LEMMA SeesTwo ==
  ASSUME NEW c, NEW d, NEW o \in Nat, Sees(o, <<c, d>>)
  PROVE  /\ At(o + 1) = IF o + 1 <= Len(input) THEN c ELSE EOF
         /\ At(o + 2) = IF o + 2 <= Len(input) THEN d ELSE EOF
         /\ Len(<<c, d>>) = 2
<1>1. Len(<<c, d>>) = 2 /\ <<c, d>>[1] = c /\ <<c, d>>[2] = d /\ 1 \in 1 .. 2 /\ 2 \in 1 .. 2
  OBVIOUS
<1>2. At(o + 1) = IF o + 1 <= Len(input) THEN <<c, d>>[1] ELSE EOF
  BY <1>1 DEF Sees
<1>3. At(o + 2) = IF o + 2 <= Len(input) THEN <<c, d>>[2] ELSE EOF
  BY <1>1 DEF Sees
<1> QED BY <1>1, <1>2, <1>3

\* An exponent is a sign and digits.
LEMMA ExponentParts ==
  ASSUME NEW e \in -(Half - 1) .. Half - 1
  PROVE  \E ds \in Seq(Range(Digits)), sign \in {"-", "+"} :
           /\ ExpText(e) = <<"e", sign>> \o ds /\ (sign = "-" <=> e < 0)
           /\ Len(ds) \in Nat \ {0} /\ Accumulated(ds) = IF e < 0 THEN -e ELSE e
           /\ ds \in Seq(Signs) /\ <<"e", sign>> \in Seq(Signs)
           /\ ExpText(e) \in Seq(Signs) /\ ExpText(e)[1] = "e" /\ Len(ExpText(e)) = Len(ds) + 2
<1> DEFINE R == Range(Digits)
           sign == IF e < 0 THEN "-" ELSE "+"
           pad  == IF e \in -9 .. 9 THEN <<"0">> ELSE <<>>
           k    == IF e < 0 THEN -e ELSE e
           ds   == pad \o Printed[k]
           lead == <<"e", sign>>
           E    == ExpText(e)
<1>2. Half \in Nat \ {0}
  BY NumberAssumption
<1>3. e \in Int /\ k \in Nat /\ k \in Ints /\ (e \in -9 .. 9 => k < 10)
  BY <1>2 DEF Ints
<1>4. "0" \in R /\ R \subseteq Signs
  <2>1. 0 \in 0 .. 9 /\ Digits[0 + 1] = "0"
    BY DEF Digits
  <2> QED BY <2>1, DigitValues, DigitsApart
<1>5. ds \in Seq(R) /\ Accumulated(ds) = k
  <2>1. Printed[k] \in Seq(R) /\ Accumulated(Printed[k]) = Signed(k) /\ Signed(k) = k
        /\ (k < 10 => Accumulated(<<"0">> \o Printed[k]) = Signed(k))
    BY <1>3, PrintedReadBack, Wrapped
  <2> HIDE DEF R, k
  <2>2. <<"0">> \in Seq(R) /\ <<>> \o Printed[k] = Printed[k]
    BY <1>4, <2>1
  <2>3. CASE e \in -9 .. 9
    <3>1. ds = <<"0">> \o Printed[k]
      BY <2>3
    <3> QED BY <1>3, <2>1, <2>2, <2>3, <3>1
  <2>4. CASE e \notin -9 .. 9
    <3>1. ds = Printed[k]
      BY <2>2, <2>4
    <3> QED BY <2>1, <3>1
  <2> QED BY <2>3, <2>4
<1>6. lead \in Seq(Signs) /\ pad \in Seq(Signs) /\ Printed[k] \in Seq(Signs) /\ ds \in Seq(Signs)
  <2>1. "e" \in Signs /\ "-" \in Signs /\ "+" \in Signs
    BY DEF Signs, Marks
  <2>2. <<"e", "-">> \in Seq(Signs) /\ <<"e", "+">> \in Seq(Signs) /\ <<"0">> \in Seq(Signs) /\ <<>> \in Seq(Signs)
    BY <1>4, <2>1, SignsJoined
  <2>3. Printed[k] \in Seq(R)
    BY <1>3, PrintedReadBack
  <2> HIDE DEF R, ds, k
  <2>4. \A s \in Seq(R) : s \in Seq(Signs)
    BY <1>4
  <2> QED BY <1>5, <2>2, <2>3, <2>4
<1>7. E = lead \o ds
  <2>1. E = (lead \o pad) \o Printed[k]
    BY DEF ExpText
  <2> HIDE DEF lead, pad, k, E
  <2>2. (lead \o pad) \o Printed[k] = lead \o (pad \o Printed[k])
    <3>1. PICK a \in Seq(Signs), b \in Seq(Signs), c \in Seq(Signs) : a = lead /\ b = pad /\ c = Printed[k]
      BY <1>6
    <3>2. (a \o b) \o c = a \o (b \o c)
      BY ConcatAssociative
    <3> QED BY <3>1, <3>2
  <2>3. pad \o Printed[k] = ds
    BY DEF ds
  <2> QED BY <2>1, <2>2, <2>3
<1>8. Len(ds) \in Nat \ {0}
  <2>1. Len(Printed[k]) \in Nat \ {0}
    BY <1>3, PrintedReadBack
  <2> HIDE DEF k, pad
  <2>2. Len(pad \o Printed[k]) = Len(pad) + Len(Printed[k]) /\ Len(pad) \in Nat
    BY <1>6, ConcatProperties
  <2> HIDE DEF ds
  <2>3. Len(ds) = Len(pad) + Len(Printed[k])
    BY <2>2 DEF ds
  <2> QED BY <2>1, <2>2, <2>3
<1> HIDE DEF ds, pad, R
<1>9. E \in Seq(Signs) /\ E[1] = "e" /\ Len(E) = Len(ds) + 2
  <2>1. lead[1] = "e" /\ 1 \in 1 .. 2 /\ Len(lead) = 2
    OBVIOUS
  <2> HIDE DEF lead, E
  <2>2. lead \o ds \in Seq(Signs) /\ \A j \in 1 .. Len(lead) : (lead \o ds)[j] = lead[j]
    BY <1>6, Concatenated
  <2>3. (lead \o ds)[1] = "e"
    BY <2>1, <2>2
  <2>4. Len(lead \o ds) = Len(lead) + Len(ds)
    BY <1>6, ConcatProperties
  <2>5. Len(E) = Len(ds) + 2
    BY <1>7, <1>8, <2>1, <2>4
  <2> QED BY <1>7, <2>2, <2>3, <2>5
<1>10. sign \in {"-", "+"} /\ (sign = "-" <=> e < 0)
  OBVIOUS
<1>11. ds \in Seq(Range(Digits))
  BY <1>5 DEF R
<1> QED BY <1>5, <1>6, <1>7, <1>8, <1>9, <1>10, <1>11

\* An exponent that was written is read as the same exponent; if not all of it
\* has arrived, it is read up to the end.
LEMMA ExponentRead ==
  ASSUME input \in Seq(Signs), NEW e \in -(Half - 1) .. Half - 1, NEW o \in 0 .. Len(input),
         Sees(o, ExpText(e)), ~ IsDigit(At((o + Len(ExpText(e))) + 1))
  PROVE  /\ ExpText(e) \in Seq(Signs) /\ ExpText(e)[1] = "e" /\ Len(ExpText(e)) \in Nat \ {0, 1}
         /\ o + Len(ExpText(e)) <= Len(input) =>
              ReadExponent(input, o + 1) = Read((o + Len(ExpText(e))) + 1, e)
         /\ o + Len(ExpText(e)) > Len(input) => ReadExponent(input, o + 1).end = Len(input) + 1
<1> DEFINE E == ExpText(e)
           k == IF e < 0 THEN -e ELSE e
<1>1. PICK n : n = Len(input)
  OBVIOUS
<1>2. n \in Nat /\ o \in Nat /\ o <= n /\ Half \in Nat \ {0}
  BY <1>1, NumberAssumption
<1>3. e \in Int /\ k \in Nat
  BY <1>2
<1>4. PICK ds \in Seq(Range(Digits)), sign \in {"-", "+"} :
        /\ E = <<"e", sign>> \o ds /\ (sign = "-" <=> e < 0)
        /\ Len(ds) \in Nat \ {0} /\ Accumulated(ds) = k
        /\ ds \in Seq(Signs) /\ <<"e", sign>> \in Seq(Signs)
        /\ E \in Seq(Signs) /\ E[1] = "e" /\ Len(E) = Len(ds) + 2
  BY ExponentParts
<1>5. ds \in Seq(Range(Digits)) /\ Accumulated(ds) = k
  BY <1>4
<1> DEFINE lead == <<"e", sign>>
<1>8. Sees(o, lead) /\ Sees(o + Len(lead), ds) /\ Len(lead) = 2
  <2>1. Sees(o, lead \o ds)
    BY <1>4
  <2>2. Len(lead) = 2 /\ lead \in Seq(Signs) /\ ds \in Seq(Signs)
    BY <1>4
  <2> HIDE DEF lead
  <2> QED BY <1>2, <2>1, <2>2, SeesBoth
<1>9. PICK l : l = Len(ds)
  OBVIOUS
<1>10. l \in Nat /\ Len(E) = l + 2 /\ Sees(o + 2, ds) /\ l # 0
  BY <1>2, <1>4, <1>8, <1>9
<1>11. l # 0
  BY <1>10
<1>12. E \in Seq(Signs) /\ E[1] = "e" /\ Len(E) \in Nat \ {0, 1}
  <2>1. l + 2 \in Nat \ {0, 1}
    BY <1>10
  <2> QED BY <1>4, <1>10, <2>1
<1>13. /\ At(o + 1) = IF o + 1 <= n THEN "e" ELSE EOF
       /\ At(o + 2) = IF o + 2 <= n THEN sign ELSE EOF
  BY <1>1, <1>2, <1>8, SeesTwo
<1>14. EOF \notin {"e", "E", "-", "+"} /\ At(n + 1) = EOF
  <2>1. n + 1 \in Nat /\ n + 1 > n
    BY <1>2
  <2> QED BY <1>1, <2>1, SeesEnd DEF EOF
<1>15. sign \in {"-", "+"} /\ (sign = "-" <=> e < 0)
  BY <1>4
<1> DEFINE from == IF At(o + 2) \in {"-", "+"} THEN o + 3 ELSE o + 2
           to   == DigitsEnd(input, from)
           exp  == Accumulated(SubSeq(input, from, to - 1))
<1>16. At(o + 1) \in {"e", "E"} =>
         ReadExponent(input, o + 1) = Read(to, IF At(o + 2) = "-" THEN -exp ELSE exp)
  <2>1. (o + 1) + 1 = o + 2 /\ (o + 1) + 2 = o + 3
    BY <1>2
  <2> QED BY <2>1 DEF ReadExponent, At
<1>17. At(o + 1) \notin {"e", "E"} => ReadExponent(input, o + 1) = Read(o + 1, 0)
  BY DEF ReadExponent, At
<1>18. CASE o = n
  <2>1. At(o + 1) = EOF
    BY <1>14, <1>18
  <2>2. ReadExponent(input, o + 1).end = n + 1
    BY <1>14, <1>17, <1>18, <2>1 DEF Read
  <2>3. o + Len(E) > n
    BY <1>2, <1>10, <1>18
  <2> QED BY <1>1, <1>12, <2>2, <2>3
<1>19. CASE o + 1 = n
  <2>1. At(o + 1) = "e" /\ At(o + 2) = EOF
    BY <1>2, <1>13, <1>19
  <2>2. from = n + 1
    BY <1>14, <1>19, <2>1
  <2>3. DigitsEnd(input, n + 1) \in n + 1 .. n + 1
    BY <1>1, <1>2, RunsEnd
  <2>4. to = n + 1
    BY <1>2, <2>2, <2>3
  <2>5. ReadExponent(input, o + 1).end = n + 1
    <3> HIDE DEF to, exp
    <3> QED BY <1>16, <2>1, <2>4 DEF Read
  <2>6. o + Len(E) > n
    BY <1>2, <1>10, <1>11, <1>19
  <2> QED BY <1>1, <1>12, <2>5, <2>6
<1>20. CASE o + 2 <= n
  <2>1. At(o + 1) = "e" /\ At(o + 2) = sign /\ o + 2 \in 0 .. n
    BY <1>2, <1>13, <1>20
  <2>2. from = (o + 2) + 1
    BY <1>2, <1>15, <2>1
  <2>3. (o + 2) + Len(ds) = o + Len(E) /\ ~ IsDigit(At(((o + 2) + Len(ds)) + 1))
    <3>1. (o + 2) + Len(ds) = o + Len(E)
      BY <1>2, <1>9, <1>10
    <3> QED BY <3>1
  <2>4. /\ (o + 2) + Len(ds) <= n => /\ to = ((o + 2) + Len(ds)) + 1
                                    /\ SubSeq(input, from, (o + 2) + Len(ds)) = ds
        /\ (o + 2) + Len(ds) > n => to = n + 1
    <3> HIDE DEF from
    <3> QED BY <1>1, <1>5, <1>10, <2>1, <2>2, <2>3, DigitsRun
  <2>5. CASE o + Len(E) <= n
    <3>1. to = (o + Len(E)) + 1 /\ SubSeq(input, from, o + Len(E)) = ds
      BY <2>3, <2>4, <2>5
    <3>2. to - 1 = o + Len(E)
      BY <1>2, <1>10, <3>1
    <3>3. exp = k
      BY <1>5, <3>1, <3>2
    <3>4. (IF At(o + 2) = "-" THEN -exp ELSE exp) = e
      BY <1>3, <1>15, <2>1, <3>3
    <3> HIDE DEF to, exp
    <3>5. ReadExponent(input, o + 1) = Read((o + Len(E)) + 1, e)
      BY <1>16, <2>1, <3>1, <3>4
    <3>6. ~ (o + Len(E) > n)
      BY <1>2, <1>10, <2>5
    <3> QED BY <1>1, <1>12, <3>5, <3>6
  <2>6. CASE o + Len(E) > n
    <3>1. to = n + 1
      BY <2>3, <2>4, <2>6
    <3> HIDE DEF to, exp
    <3>2. ReadExponent(input, o + 1).end = n + 1
      BY <1>16, <2>1, <3>1 DEF Read
    <3>3. ~ (o + Len(E) <= n)
      BY <1>2, <1>10, <2>6
    <3> QED BY <1>1, <1>12, <3>2, <3>3
  <2>7. o + Len(E) \in Nat
    BY <1>2, <1>10
  <2> HIDE DEF E
  <2> QED BY <1>2, <2>5, <2>6, <2>7
<1>21. o = n \/ o + 1 = n \/ o + 2 <= n
  BY <1>2
<1> QED BY <1>18, <1>19, <1>20, <1>21

\* Where parser_read_number, called behind o, finds the first digits, where they
\* end, and what they amount to.
DigitsFrom(o) == IF At(o + 1) = "-" THEN o + 2 ELSE o + 1
DigitsTo(o)   == DigitsEnd(input, DigitsFrom(o))
Amount(o)     == Accumulated(SubSeq(input, DigitsFrom(o), DigitsTo(o) - 1))
FractionTo(o) == DigitsEnd(input, DigitsTo(o) + 1)

\* What it makes of them.
LEMMA NumberArms ==
  ASSUME input \in Seq(Signs), NEW o \in 0 .. Len(input)
  PROVE  LET minus == At(o + 1) = "-"
             next  == At(DigitsTo(o))
             exp   == ReadExponent(input, FractionTo(o))
             r     == ReadNumber(input, o + 1)
         IN /\ DigitsTo(o) \in DigitsFrom(o) .. Len(input) + 1 /\ DigitsFrom(o) \in o + 1 .. Len(input) + 1
            /\ DigitsTo(o) = DigitsFrom(o) => r = Bad
            /\ DigitsTo(o) > DigitsFrom(o) /\ next \in {"u", "U"} =>
                 r = Read(DigitsTo(o) + 1, UintVal(Unsigned(IF minus THEN -Amount(o) ELSE Amount(o))))
            /\ DigitsTo(o) > DigitsFrom(o) /\ next = "." =>
                 r = Read(exp.end, FloatVal(Decimal(minus, Amount(o),
                                        SubSeq(input, DigitsTo(o) + 1, FractionTo(o) - 1), exp.val)))
            /\ DigitsTo(o) > DigitsFrom(o) /\ next \notin {"u", "U", "."} =>
                 r = Read(DigitsTo(o), IntVal(Signed(IF minus THEN -Amount(o) ELSE Amount(o))))
<1> DEFINE n == Len(input)
           minus == At(o + 1) = "-"
           from == DigitsFrom(o)
           to == DigitsTo(o)
           next == At(to)
           exp == ReadExponent(input, FractionTo(o))
           wrapped == IF minus THEN -Amount(o) ELSE Amount(o)
           uint == Read(to + 1, UintVal(Unsigned(wrapped)))
           float == Read(exp.end, FloatVal(Decimal(minus, Amount(o), SubSeq(input, to + 1, FractionTo(o) - 1), exp.val)))
           int == Read(to, IntVal(Signed(wrapped)))
           r == ReadNumber(input, o + 1)
<1>1. n \in Nat /\ o \in Nat /\ o <= n
  OBVIOUS
<1>2. from \in o + 1 .. n + 1
  <2>1. CASE minus
    <3>1. "-" # EOF
      BY DEF EOF
    <3>2. o + 1 \in 1 .. n /\ o + 1 \in Nat
      BY <1>1, <2>1, <3>1, Inside DEF At
    <3> QED BY <1>1, <2>1, <3>2 DEF DigitsFrom
  <2>2. CASE ~ minus
    BY <1>1, <2>2 DEF DigitsFrom
  <2> QED BY <2>1, <2>2
<1>3. to \in from .. n + 1
  <2>1. from \in 1 .. n + 1
    BY <1>1, <1>2
  <2> QED BY <2>1, RunsEnd DEF DigitsTo
<1>4. r = CASE to = from -> Bad
            [] to > from /\ next \in {"u", "U"} -> uint
            [] to > from /\ next = "." -> float
            [] OTHER -> int
  <2>1. (o + 1) + 1 = o + 2
    BY <1>1
  <2> QED BY <2>1 DEF ReadNumber, DigitsFrom, DigitsTo, Amount, FractionTo, At
<1>5. from \in Int /\ to \in Int
  BY <1>1, <1>2, <1>3
<1> HIDE DEF r, uint, float, int, next, to, from
<1>6. /\ to = from => r = Bad
      /\ to > from /\ next \in {"u", "U"} => r = uint
      /\ to > from /\ next = "." => r = float
      /\ to > from /\ next \notin {"u", "U", "."} => r = int
  <2>1. to = from => ~ (to > from)
    BY <1>5
  <2>2. "." \notin {"u", "U"}
    OBVIOUS
  <2> QED BY <1>4, <2>1, <2>2
<1> QED BY <1>2, <1>3, <1>6 DEF r, uint, float, int, next, to, from

\* A sign and digits that were written are found as such; if not all of them
\* have arrived, they are taken up to the end.
LEMMA LeadRead ==
  ASSUME input \in Seq(Signs), NEW neg \in BOOLEAN, NEW w \in Nat, NEW o \in 0 .. Len(input),
         NEW a, a = (IF neg THEN <<"-">> ELSE <<>>), Sees(o, a), Sees(o + Len(a), Printed[w]),
         ~ IsDigit(At(((o + Len(a)) + Len(Printed[w])) + 1))
  PROVE  LET C == (o + Len(a)) + Len(Printed[w]) IN
         /\ C <= Len(input) => /\ (At(o + 1) = "-" <=> neg) /\ DigitsTo(o) = C + 1
                               /\ DigitsTo(o) > DigitsFrom(o) /\ Amount(o) = Signed(w)
         /\ C > Len(input) => DigitsTo(o) = Len(input) + 1
<1> DEFINE R == Range(Digits)
<1>1. PICK n, la, b, lb : n = Len(input) /\ la = Len(a) /\ b = Printed[w] /\ lb = Len(b)
  OBVIOUS
<1>2. n \in Nat /\ o \in Nat /\ o <= n
  BY <1>1
<1>3. b \in Seq(R) /\ Accumulated(b) = Signed(w) /\ lb \in Nat \ {0}
  BY <1>1, PrintedReadBack
<1>4. la = IF neg THEN 1 ELSE 0
  BY <1>1
<1>5. At(n + 1) = EOF /\ EOF # "-" /\ "-" \notin R
  <2>1. n + 1 \in Nat /\ n + 1 > n
    BY <1>2
  <2>2. EOF # "-"
    BY DEF EOF
  <2> QED BY <1>1, <2>1, <2>2, SeesEnd, DigitsApart
<1>6. o < n => /\ (At(o + 1) = "-" <=> neg)
               /\ DigitsFrom(o) = (o + la) + 1 /\ o + la \in 0 .. n
  <2> SUFFICES ASSUME o < n  PROVE (At(o + 1) = "-" <=> neg)
    <3>1. CASE neg
      BY <1>2, <1>4, <3>1 DEF DigitsFrom
    <3>2. CASE ~ neg
      BY <1>2, <1>4, <3>2 DEF DigitsFrom
    <3> QED BY <3>1, <3>2
  <2>1. o + 1 <= n
    BY <1>2
  <2>2. CASE neg
    <3>1. 1 \in 1 .. Len(a) /\ a[1] = "-"
      BY <2>2
    <3>2. At(o + 1) = IF o + 1 <= Len(input) THEN a[1] ELSE EOF
      BY <3>1 DEF Sees
    <3> QED BY <1>1, <2>1, <2>2, <3>1, <3>2
  <2>3. CASE ~ neg
    <3>1. 1 \in 1 .. Len(b) /\ b[1] \in R
      BY <1>1, <1>3
    <3>2. o + la = o
      BY <1>2, <1>4, <2>3
    <3>3. At(o + 1) = IF o + 1 <= Len(input) THEN b[1] ELSE EOF
      BY <1>1, <3>1, <3>2 DEF Sees
    <3> QED BY <1>1, <1>5, <2>1, <2>3, <3>1, <3>3
  <2> QED BY <2>2, <2>3
<1> HIDE DEF R
<1>7. CASE o = n
  <2>1. At(o + 1) = EOF
    BY <1>5, <1>7
  <2>2. DigitsFrom(o) = n + 1
    BY <1>5, <1>7, <2>1 DEF DigitsFrom
  <2>3. DigitsTo(o) \in n + 1 .. n + 1
    BY <1>1, <1>2, <2>2, NumberArms
  <2>4. DigitsTo(o) = n + 1
    BY <1>2, <2>3
  <2>5. (o + la) + lb > n /\ ~ ((o + la) + lb <= n)
    BY <1>2, <1>3, <1>4, <1>7
  <2> QED BY <1>1, <2>4, <2>5
<1>8. CASE o < n
  <2>1. PICK B : B = o + la
    OBVIOUS
  <2>2. B \in 0 .. n /\ DigitsFrom(o) = B + 1 /\ (At(o + 1) = "-" <=> neg)
    BY <1>6, <1>8, <2>1
  <2>3. Sees(B, b) /\ ~ IsDigit(At((B + Len(b)) + 1))
    BY <1>1, <2>1
  <2>4. /\ B + Len(b) <= n => DigitsEnd(input, B + 1) = (B + Len(b)) + 1 /\ SubSeq(input, B + 1, B + Len(b)) = b
        /\ B + Len(b) > n => DigitsEnd(input, B + 1) = n + 1
    BY <1>1, <1>3, <2>2, <2>3, DigitsRun DEF R
  <2>5. /\ B + lb <= n => DigitsTo(o) = (B + lb) + 1 /\ SubSeq(input, DigitsFrom(o), B + lb) = b
        /\ B + lb > n => DigitsTo(o) = n + 1
    BY <1>1, <2>2, <2>4 DEF DigitsTo
  <2>6. (B + lb) + 1 > B + 1 /\ ((B + lb) + 1) - 1 = B + lb
    BY <1>2, <1>3, <2>2
  <2>7. B + lb <= n => DigitsTo(o) > DigitsFrom(o) /\ Amount(o) = Signed(w)
    BY <1>3, <2>2, <2>5, <2>6 DEF Amount
  <2> QED BY <1>1, <2>1, <2>2, <2>5, <2>7
<1>9. o = n \/ o < n
  BY <1>2
<1> QED BY <1>7, <1>8, <1>9

\* What may stand behind a number, and what parser_read_number makes of the
\* text of the number v that ends at e: what v is reread as, if all of the text
\* arrived and is a number; else an error, or the number is cut, before the end
\* of the stream or before an exponent that follows no point.
Follow == {EOF, NewLine, ",", ")"}
ReadsNumber(r, v, e) ==
  \/ e <= Len(input) /\ WholeTextIsNumber(v) /\ r = Read(e + 1, Reread(v))
  \/ ~ (e <= Len(input) /\ WholeTextIsNumber(v)) /\ r = Bad
  \/ /\ r = Read(r.end, r.val) /\ r.val.type \in Numbers
     /\ \/ At(r.end) = EOF /\ e > Len(input)
        \/ At(r.end) = "e" /\ At(r.end + 1) \in {"-", "+", EOF} /\ ~ WholeTextIsNumber(v)

\* Nothing that may follow a number goes on with it.
LEMMA FollowApart ==
  /\ \A c \in Follow \cup {"e"} : ~ IsDigit(c) /\ c \notin {"u", "U", ".", "-", "+"}
  /\ \A c \in Follow : c \notin {"e", "E"}
  /\ ~ IsDigit("u") /\ ~ IsDigit(".") /\ ~ IsDigit("inf") /\ ~ IsDigit(EOF) /\ ~ IsDigit("e") /\ ~ IsDigit("-")
<1>1. \A c \in {EOF, NewLine, ",", ")", "e", "u", ".", "inf", "-"} : ~ IsDigit(c)
  BY DigitsApart DEF IsDigit
<1> QED BY <1>1 DEF Follow, EOF, NewLine

\* What is there of a number that ends with the stream.
LEMMA CutLead ==
  ASSUME input \in Seq(Signs), NEW o \in 0 .. Len(input), DigitsTo(o) = Len(input) + 1,
         NEW v, NEW e, e > Len(input), ~ (e <= Len(input))
  PROVE  ReadsNumber(ReadNumber(input, o + 1), v, e)
<1>1. Len(input) \in Nat /\ At(Len(input) + 1) = EOF
  BY AtTheEnd DEF At
<1>2. EOF \notin {"u", "U", "."}
  BY DEF EOF
<1>3. DigitsTo(o) = DigitsFrom(o) \/ DigitsTo(o) > DigitsFrom(o)
  BY <1>1, NumberArms
<1>4. PICK r, i : /\ r = ReadNumber(input, o + 1)
                  /\ i = IntVal(Signed(IF At(o + 1) = "-" THEN -Amount(o) ELSE Amount(o)))
  OBVIOUS
<1>5. r = Bad \/ r = Read(Len(input) + 1, i)
  BY <1>1, <1>2, <1>3, <1>4, NumberArms
<1>6. r = Read(Len(input) + 1, i) => r = Read(r.end, r.val) /\ r.val.type \in Numbers /\ r.end = Len(input) + 1
  BY <1>4 DEF Read, IntVal, Numbers
<1> QED BY <1>1, <1>4, <1>5, <1>6 DEF ReadsNumber

\* Integers that were written are read as the same integers.
LEMMA IntegersRead ==
  ASSUME input \in Seq(Signs), NEW v, v.type \in {"int", "uint"}, PlainOK(v),
         NEW o \in 0 .. Len(input), Sees(o, NumberText(v)), At((o + Len(NumberText(v))) + 1) \in Follow
  PROVE  /\ ReadsNumber(ReadNumber(input, o + 1), v, o + Len(NumberText(v)))
         /\ NumberText(v) \in Seq(Signs) /\ NumberText(v) # <<>>
         /\ NumberText(v)[1] \in {"-"} \cup Range(Digits)
<1> DEFINE s == NumberText(v)
           R == Range(Digits)
<1>1. PICK n : n = Len(input)
  OBVIOUS
<1>2. n \in Nat /\ o \in Nat /\ o <= n /\ Half \in Nat \ {0}
  BY <1>1, NumberAssumption
<1>3. WholeTextIsNumber(v) /\ Reread(v) = v
  BY DEF WholeTextIsNumber, Reread
<1>4. \A t \in Seq(R) : t \in Seq(Signs)
  <2>1. R \subseteq Signs
    BY DigitsApart
  <2> HIDE DEF R
  <2> QED BY <2>1
<1>5. ASSUME NEW k \in Nat
      PROVE  /\ Printed[k] \in Seq(Signs) /\ Printed[k] \in Seq(R) /\ Len(Printed[k]) \in Nat \ {0}
             /\ Printed[k] # <<>> /\ Printed[k][1] \in R
  <2>1. PICK t : t = Printed[k]
    OBVIOUS
  <2>2. t \in Seq(R) /\ Len(t) \in Nat \ {0}
    BY <2>1, PrintedReadBack
  <2>3. t # <<>> /\ t[1] \in R
    <3> HIDE DEF R
    <3> QED BY <2>2
  <2> QED BY <1>4, <2>1, <2>2, <2>3
<1>6. "-" \in Signs /\ "u" \in Signs /\ <<"-">> \in Seq(Signs) /\ <<"u">> \in Seq(Signs)
  <2>1. "-" \in Signs /\ "u" \in Signs
    BY DEF Signs, Marks
  <2> QED BY <2>1, SignsJoined
<1> HIDE DEF R
<1>7. CASE v.type = "int"
  <2>1. v = IntVal(v.n) /\ v.n \in Ints /\ v.n \in Int
    BY <1>2, <1>7 DEF PlainOK, Ints
  <2> DEFINE neg == v.n < 0
             w == IF neg THEN -v.n ELSE v.n
             a == IF neg THEN <<"-">> ELSE <<>>
  <2>2. w \in Nat /\ neg \in BOOLEAN
    BY <2>1
  <2>3. s = IF neg THEN <<"-">> \o Printed[w] ELSE Printed[w]
    BY <1>7 DEF NumberText, IntText
  <2>4. PICK b : b = Printed[w]
    OBVIOUS
  <2> HIDE DEF w
  <2>5. b \in Seq(Signs) /\ Len(b) \in Nat \ {0} /\ b # <<>> /\ b[1] \in R
    BY <1>5, <2>2, <2>4
  <2>6. /\ Sees(o, a) /\ Sees(o + Len(a), b) /\ (o + Len(a)) + Len(b) = o + Len(s)
        /\ s \in Seq(Signs) /\ s # <<>> /\ s[1] \in {"-"} \cup R
    <3>1. CASE neg
      <4>1. s = <<"-">> \o b /\ Sees(o, <<"-">> \o b)
        BY <2>3, <2>4, <3>1
      <4>2. Len(<<"-">>) = 1 /\ <<"-">>[1] = "-" /\ 1 \in 1 .. 1
        OBVIOUS
      <4>3. Sees(o, <<"-">>) /\ Sees(o + 1, b) /\ Len(s) = 1 + Len(b)
        BY <1>2, <1>6, <2>5, <4>1, <4>2, SeesBoth
      <4>4. s \in Seq(Signs) /\ s[1] = "-"
        BY <1>6, <2>5, <4>1, <4>2, Concatenated
      <4>5. a = <<"-">> /\ (o + 1) + Len(b) = o + Len(s) /\ Len(s) # 0
        BY <1>2, <2>5, <3>1, <4>3
      <4> QED BY <4>2, <4>3, <4>4, <4>5
    <3>2. CASE ~ neg
      <4>1. s = b /\ a = <<>> /\ Len(a) = 0 /\ o + 0 = o
        BY <1>2, <2>3, <2>4, <3>2
      <4>2. Sees(o, <<>>)
        BY DEF Sees
      <4> QED BY <2>5, <4>1, <4>2
    <3> QED BY <3>1, <3>2
  <2>7. PICK C : C = o + Len(s)
    OBVIOUS
  <2>8. C \in Nat /\ At(C + 1) \in Follow /\ ~ IsDigit(At(C + 1)) /\ At(C + 1) \notin {"u", "U", "."}
    <3>1. Len(s) \in Nat
      BY <2>6
    <3> QED BY <1>2, <2>7, <3>1, FollowApart
  <2>9. /\ C <= n => /\ (At(o + 1) = "-" <=> neg) /\ DigitsTo(o) = C + 1
                     /\ DigitsTo(o) > DigitsFrom(o) /\ Amount(o) = Signed(w)
        /\ C > n => DigitsTo(o) = n + 1
    <3>1. PICK g \in BOOLEAN, sign \in {<<>>, <<"-">>}, m \in Nat : g = neg /\ sign = a /\ m = w
      BY <2>2
    <3>2. sign = (IF g THEN <<"-">> ELSE <<>>)
      BY <3>1
    <3>3. Sees(o, sign) /\ Sees(o + Len(sign), Printed[m]) /\ C = (o + Len(sign)) + Len(Printed[m])
      BY <2>4, <2>6, <2>7, <3>1
    <3>4. /\ C <= n => /\ (At(o + 1) = "-" <=> g) /\ DigitsTo(o) = C + 1
                       /\ DigitsTo(o) > DigitsFrom(o) /\ Amount(o) = Signed(m)
          /\ C > n => DigitsTo(o) = n + 1
      <4>1. ~ IsDigit(At(((o + Len(sign)) + Len(Printed[m])) + 1))
        BY <2>8, <3>3
      <4> QED BY <1>1, <3>2, <3>3, <4>1, LeadRead
    <3> QED BY <3>1, <3>4
  <2>10. Signed(IF neg THEN -Signed(w) ELSE Signed(w)) = v.n
    <3>1. Signed(v.n) = v.n
      BY <2>1, Wrapped
    <3>2. CASE neg
      <4>0. w \in Int /\ -w = v.n
        BY <2>1, <3>2 DEF w
      <4>1. Signed(-Signed(w)) = Signed(-w) /\ -w = v.n
        BY <4>0, Wrapped
      <4> QED BY <3>1, <3>2, <4>1
    <3>3. CASE ~ neg
      <4>1. w = v.n
        BY <3>3 DEF w
      <4> QED BY <3>1, <3>3, <4>1
    <3> QED BY <3>2, <3>3
  <2>11. CASE C <= n
    <3>1. ReadNumber(input, o + 1) = Read(C + 1, v)
      BY <2>1, <2>8, <2>9, <2>10, <2>11, NumberArms
    <3>2. ReadsNumber(ReadNumber(input, o + 1), v, C)
      BY <1>1, <1>3, <2>11, <3>1 DEF ReadsNumber
    <3> QED BY <2>6, <2>7, <3>2 DEF R
  <2>12. CASE C > n
    <3>1. ~ (C <= n)
      BY <1>2, <2>8, <2>12
    <3>2. ReadsNumber(ReadNumber(input, o + 1), v, C)
      BY <1>1, <2>9, <2>12, <3>1, CutLead
    <3> QED BY <2>6, <2>7, <3>2 DEF R
  <2>13. C <= n \/ C > n
    BY <1>2, <2>8
  <2> QED BY <2>11, <2>12, <2>13
<1>8. CASE v.type = "uint"
  <2>1. v = UintVal(v.n) /\ v.n \in Uints /\ v.n \in Nat
    BY <1>2, <1>8 DEF PlainOK, Uints
  <2>2. s = Printed[v.n] \o <<"u">>
    BY <1>8 DEF NumberText, UintText
  <2>3. PICK b : b = Printed[v.n]
    OBVIOUS
  <2>4. b \in Seq(Signs) /\ Len(b) \in Nat \ {0} /\ b[1] \in R /\ 1 \in 1 .. Len(b)
    BY <1>5, <2>1, <2>3
  <2>5. Len(<<"u">>) = 1 /\ <<"u">>[1] = "u" /\ 1 \in 1 .. 1
    OBVIOUS
  <2>6. /\ Sees(o, b) /\ Sees(o + Len(b), <<"u">>) /\ Len(s) = Len(b) + 1
    <3>1. s = b \o <<"u">> /\ Sees(o, b \o <<"u">>)
      BY <2>2, <2>3
    <3> QED BY ZenonT(60), <1>2, <1>6, <2>4, <2>5, <3>1, SeesBoth
  <2>7. s \in Seq(Signs) /\ s[1] \in R /\ s # <<>>
    <3>1. b \o <<"u">> \in Seq(Signs) /\ (b \o <<"u">>)[1] = b[1]
      BY <1>6, <2>4, Concatenated
    <3>2. Len(s) # 0
      BY <2>4, <2>6
    <3> QED BY <2>2, <2>3, <2>4, <3>1, <3>2
  <2>8. PICK C : C = o + Len(b)
    OBVIOUS
  <2>9. C \in Nat /\ o + Len(s) = C + 1 /\ At(C + 1) = IF C + 1 <= n THEN "u" ELSE EOF
    <3>1. 1 \in 1 .. Len(<<"u">>)
      OBVIOUS
    <3>2. At(C + 1) = IF C + 1 <= n THEN <<"u">>[1] ELSE EOF
      BY <1>1, <2>6, <2>8, <3>1 DEF Sees
    <3> QED BY <1>2, <2>4, <2>5, <2>6, <2>8, <3>2
  <2>10. ~ IsDigit(At(C + 1))
    BY <2>9, FollowApart
  <2>11. /\ C <= n => /\ ~ (At(o + 1) = "-") /\ DigitsTo(o) = C + 1
                      /\ DigitsTo(o) > DigitsFrom(o) /\ Amount(o) = Signed(v.n)
         /\ C > n => DigitsTo(o) = n + 1
    <3>1. PICK g \in BOOLEAN, a \in {<<>>} : ~ g
      OBVIOUS
    <3>2. a = (IF g THEN <<"-">> ELSE <<>>) /\ o + Len(a) = o /\ Sees(o, a)
      BY <1>2, <3>1 DEF Sees
    <3>3. Sees(o + Len(a), Printed[v.n]) /\ C = (o + Len(a)) + Len(Printed[v.n])
      BY <2>3, <2>6, <2>8, <3>2
    <3>4. /\ C <= n => /\ (At(o + 1) = "-" <=> g) /\ DigitsTo(o) = C + 1
                       /\ DigitsTo(o) > DigitsFrom(o) /\ Amount(o) = Signed(v.n)
          /\ C > n => DigitsTo(o) = n + 1
      BY <1>1, <2>1, <2>10, <3>2, <3>3, LeadRead
    <3> QED BY <3>1, <3>4
  <2>12. Unsigned(Signed(v.n)) = v.n
    <3>1. v.n \in Int
      BY <2>1
    <3>2. Unsigned(Signed(v.n)) = Unsigned(v.n)
      BY <3>1, Wrapped
    <3> QED BY <2>1, <3>2, Wrapped
  <2>13. CASE C + 1 <= n
    <3>1. C <= n /\ At(C + 1) = "u"
      BY <1>2, <2>9, <2>13
    <3>2. ReadNumber(input, o + 1) = Read((C + 1) + 1, v)
      BY <2>1, <2>11, <2>12, <3>1, NumberArms
    <3>3. ReadsNumber(ReadNumber(input, o + 1), v, C + 1)
      BY <1>1, <1>3, <2>13, <3>2 DEF ReadsNumber
    <3> QED BY <2>7, <2>9, <3>3 DEF R
  <2>14. CASE ~ (C + 1 <= n)
    <3>1. DigitsTo(o) = n + 1 /\ C + 1 > n
      BY <1>2, <2>9, <2>11, <2>14
    <3>2. ReadsNumber(ReadNumber(input, o + 1), v, C + 1)
      BY <1>1, <2>14, <3>1, CutLead
    <3> QED BY <2>7, <2>9, <3>2 DEF R
  <2> QED BY <2>13, <2>14
<1> QED BY <1>7, <1>8 DEF R

LEMMA SeesFour ==
  ASSUME NEW a \in Seq(Signs), NEW b \in Seq(Signs), NEW c \in Seq(Signs), NEW d \in Seq(Signs),
         NEW o \in Nat, Sees(o, ((a \o b) \o c) \o d)
  PROVE  /\ Sees(o, a) /\ Sees(o + Len(a), b) /\ Sees((o + Len(a)) + Len(b), c)
         /\ Sees(((o + Len(a)) + Len(b)) + Len(c), d)
         /\ o + Len(((a \o b) \o c) \o d) = (((o + Len(a)) + Len(b)) + Len(c)) + Len(d)
         /\ Len(a) \in Nat /\ Len(b) \in Nat /\ Len(c) \in Nat /\ Len(d) \in Nat
<1>1. PICK ab \in Seq(Signs) : ab = a \o b
  BY ConcatProperties
<1>2. PICK abc \in Seq(Signs) : abc = ab \o c
  BY ConcatProperties
<1>3. Sees(o, abc \o d)
  BY <1>1, <1>2
<1>4. Sees(o, abc) /\ Sees(o + Len(abc), d) /\ Len(abc \o d) = Len(abc) + Len(d) /\ Len(abc) \in Nat /\ Len(d) \in Nat
  BY <1>3, SeesBoth
<1>5. Sees(o, ab) /\ Sees(o + Len(ab), c) /\ Len(abc) = Len(ab) + Len(c) /\ Len(ab) \in Nat /\ Len(c) \in Nat
  BY <1>2, <1>4, SeesBoth
<1>6. Sees(o, a) /\ Sees(o + Len(a), b) /\ Len(ab) = Len(a) + Len(b) /\ Len(a) \in Nat /\ Len(b) \in Nat
  BY <1>1, <1>5, SeesBoth
<1>7. /\ o + Len(ab) = (o + Len(a)) + Len(b)
      /\ o + Len(abc) = ((o + Len(a)) + Len(b)) + Len(c)
      /\ o + (Len(abc) + Len(d)) = (((o + Len(a)) + Len(b)) + Len(c)) + Len(d)
  BY <1>4, <1>5, <1>6
<1> QED BY <1>1, <1>2, <1>4, <1>5, <1>6, <1>7

\* What a float looks like.
Sign(x)     == IF x.neg THEN <<"-">> ELSE <<>>
Whole(x)    == IF x.whole = NotFinite THEN <<"inf">> ELSE Printed[x.whole]
Fraction(x) == IF x.frac = <<>> THEN <<>> ELSE <<".">> \o x.frac
Exponent(x) == IF x.exp = 0 THEN <<>> ELSE ExpText(x.exp)

LEMMA FloatParts ==
  ASSUME NEW x \in Decimals
  PROVE  /\ FloatText(x) = ((Sign(x) \o Whole(x)) \o Fraction(x)) \o Exponent(x)
         /\ x.neg \in BOOLEAN /\ x.frac \in Seq(Range(Digits)) /\ x.exp \in -(Half - 1) .. Half - 1
         /\ x = Decimal(x.neg, x.whole, x.frac, x.exp)
         /\ x.whole # NotFinite => x.whole \in Nat /\ x.whole \in Ints /\ -x.whole \in Ints
         /\ Sign(x) \in Seq(Signs) /\ Whole(x) \in Seq(Signs) /\ Fraction(x) \in Seq(Signs)
         /\ Exponent(x) \in Seq(Signs)
         /\ Len(Whole(x)) \in Nat \ {0} /\ Whole(x)[1] \in {"inf"} \cup Range(Digits)
<1> DEFINE R == Range(Digits)
<1>1. Half \in Nat \ {0}
  BY NumberAssumption
<1>2. /\ x.neg \in BOOLEAN /\ x.frac \in Seq(Range(Digits)) /\ x.exp \in -(Half - 1) .. Half - 1
      /\ x = Decimal(x.neg, x.whole, x.frac, x.exp) /\ x.whole \in 0 .. Half - 1 \cup {NotFinite}
  BY DEF Decimals, Decimal
<1>3. x.whole # NotFinite => x.whole \in Nat /\ x.whole \in Ints /\ -x.whole \in Ints
  BY <1>1, <1>2 DEF Ints
<1>4. R \subseteq Signs /\ "-" \in Signs /\ "." \in Signs /\ "inf" \in Signs
  BY DigitsApart DEF Signs, Marks
<1>5. <<"-">> \in Seq(Signs) /\ <<".">> \in Seq(Signs) /\ <<"inf">> \in Seq(Signs) /\ <<>> \in Seq(Signs)
  BY <1>4, SignsJoined
<1>6. \A t \in Seq(R) : t \in Seq(Signs)
  <2> HIDE DEF R
  <2> QED BY <1>4
<1>7. x.whole # NotFinite => /\ Printed[x.whole] \in Seq(Signs) /\ Len(Printed[x.whole]) \in Nat \ {0}
                             /\ Printed[x.whole][1] \in R
  <2>1. \A t \in Seq(R) : Len(t) \in Nat \ {0} => t[1] \in R
    <3> HIDE DEF R
    <3> QED OBVIOUS
  <2> QED BY <1>3, <1>6, <2>1, PrintedReadBack
<1>8. Whole(x) \in Seq(Signs) /\ Len(Whole(x)) \in Nat \ {0} /\ Whole(x)[1] \in {"inf"} \cup R
  <2>1. Len(<<"inf">>) = 1 /\ <<"inf">>[1] = "inf" /\ 1 \in Nat \ {0}
    OBVIOUS
  <2> HIDE DEF R
  <2> QED BY <1>5, <1>7, <2>1 DEF Whole
<1>9. Fraction(x) \in Seq(Signs)
  <2>1. <<".">> \o x.frac \in Seq(Signs)
    BY <1>2, <1>5, <1>6, ConcatProperties
  <2> QED BY <1>5, <2>1 DEF Fraction
<1>10. Exponent(x) \in Seq(Signs)
  <2>1. x.exp \in Int
    BY <1>1, <1>2
  <2> DEFINE e == x.exp
             sign == IF e < 0 THEN "-" ELSE "+"
             pad  == IF e \in -9 .. 9 THEN <<"0">> ELSE <<>>
             k    == IF e < 0 THEN -e ELSE e
  <2>2. k \in Nat
    BY <2>1
  <2>3. "e" \in Signs /\ sign \in Signs /\ "0" \in Signs
    BY DEF Signs, Marks
  <2>4. <<"e", sign>> \in Seq(Signs) /\ pad \in Seq(Signs)
    <3> HIDE DEF sign
    <3> QED BY <2>3, SignsJoined
  <2>5. Printed[k] \in Seq(Signs)
    BY <1>6, <2>2, PrintedReadBack
  <2> HIDE DEF k, pad, sign
  <2>6. (<<"e", sign>> \o pad) \o Printed[k] \in Seq(Signs)
    BY <2>4, <2>5, SignsJoined
  <2>7. ExpText(x.exp) \in Seq(Signs)
    BY <2>6 DEF ExpText, k, pad, sign
  <2> QED BY <1>5, <2>7 DEF Exponent
<1>11. Sign(x) \in Seq(Signs)
  BY <1>5 DEF Sign
<1>12. FloatText(x) = ((Sign(x) \o Whole(x)) \o Fraction(x)) \o Exponent(x)
  BY DEF FloatText, Sign, Whole, Fraction, Exponent
<1> QED BY <1>2, <1>3, <1>8, <1>9, <1>10, <1>11, <1>12 DEF R

\* Floats that were written are read as the same floats, but for those without
\* a fraction, which come back as integers, and those that have an exponent all
\* the same and infinities, which are not read.
LEMMA FloatsRead ==
  ASSUME input \in Seq(Signs), NEW x \in Decimals,
         NEW o \in 0 .. Len(input), Sees(o, FloatText(x)), At((o + Len(FloatText(x))) + 1) \in Follow
  PROVE  /\ ReadsNumber(ReadNumber(input, o + 1), FloatVal(x), o + Len(FloatText(x)))
         /\ FloatText(x) \in Seq(Signs) /\ FloatText(x) # <<>>
         /\ FloatText(x)[1] \in {"-", "inf"} \cup Range(Digits)
<1> DEFINE R == Range(Digits)
           s == FloatText(x)
           v == FloatVal(x)
           r == ReadNumber(input, o + 1)
<1>1. PICK n : n = Len(input)
  OBVIOUS
<1>2. n \in Nat /\ o \in Nat /\ o <= n /\ At(n + 1) = EOF
  <2>1. n \in Nat /\ o \in Nat /\ o <= n
    BY <1>1
  <2>2. n + 1 \in Nat /\ n + 1 > n
    BY <2>1
  <2> QED BY <1>1, <2>1, <2>2, SeesEnd
<1>3. PICK a \in Seq(Signs), b \in Seq(Signs), c \in Seq(Signs), d \in Seq(Signs) :
        a = Sign(x) /\ b = Whole(x) /\ c = Fraction(x) /\ d = Exponent(x)
  BY FloatParts
<1>4. s = ((a \o b) \o c) \o d
  BY <1>3, FloatParts
<1>5. PICK B, C, D, F : B = o + Len(a) /\ C = B + Len(b) /\ D = C + Len(c) /\ F = D + Len(d)
  OBVIOUS
<1>6. /\ Sees(o, a) /\ Sees(B, b) /\ Sees(C, c) /\ Sees(D, d) /\ F = o + Len(s)
      /\ Len(a) \in Nat /\ Len(b) \in Nat \ {0} /\ Len(c) \in Nat /\ Len(d) \in Nat
      /\ s \in Seq(Signs)
      /\ Len(a) # 0 => s[1] = a[1]
      /\ Len(a) = 0 => s[1] = b[1]
  <2>1. Sees(o, ((a \o b) \o c) \o d)
    BY <1>4
  <2> HIDE DEF s
  <2>2. /\ Sees(o, a) /\ Sees(o + Len(a), b) /\ Sees((o + Len(a)) + Len(b), c)
        /\ Sees(((o + Len(a)) + Len(b)) + Len(c), d)
        /\ o + Len(((a \o b) \o c) \o d) = (((o + Len(a)) + Len(b)) + Len(c)) + Len(d)
        /\ Len(a) \in Nat /\ Len(b) \in Nat /\ Len(c) \in Nat /\ Len(d) \in Nat
    BY <1>2, <2>1, SeesFour
  <2>3. Len(b) # 0
    BY <1>3, FloatParts
  <2>4. F = o + Len(s) /\ s \in Seq(Signs) /\ (Len(a) # 0 => s[1] = a[1]) /\ (Len(a) = 0 => s[1] = b[1])
    <3>1. s \in Seq(Signs) /\ (Len(a) # 0 => s[1] = a[1]) /\ (Len(a) = 0 /\ Len(b) # 0 => s[1] = b[1])
      BY SMTT(60), <1>4, FourJoined
    <3> QED BY <1>4, <1>5, <2>2, <2>3, <3>1
  <2> QED BY <1>5, <2>2, <2>3, <2>4
<1>7. B \in Nat /\ C \in Nat /\ D \in Nat /\ F \in Nat /\ o <= B /\ B < C /\ C <= D /\ D <= F /\ At(F + 1) \in Follow
  <2>1. PICK la \in Nat, lb \in Nat \ {0}, lc \in Nat, ld \in Nat :
          la = Len(a) /\ lb = Len(b) /\ lc = Len(c) /\ ld = Len(d)
    BY <1>6
  <2>2. B \in Nat /\ C \in Nat /\ D \in Nat /\ F \in Nat /\ o <= B /\ B < C /\ C <= D /\ D <= F
    BY SMTT(60), <1>2, <1>5, <2>1
  <2> QED BY <1>6, <2>2
<1>8. s # <<>> /\ s[1] \in {"-", "inf"} \cup R
  <2>1. (Len(a) = 1 /\ a[1] = "-") \/ Len(a) = 0
    BY <1>3 DEF Sign
  <2>2. b[1] \in {"inf"} \cup R /\ 1 \in 1 .. Len(b)
    BY <1>3, <1>6, FloatParts
  <2>3. (Len(a) # 0 /\ s[1] = a[1]) \/ (Len(a) = 0 /\ s[1] = b[1])
    BY <1>6, <2>1
  <2>4. Len(s) # 0
    BY <1>2, <1>6, <1>7
  <2>5. s # <<>>
    BY <2>4
  <2> QED BY <2>1, <2>2, <2>3, <2>5
<1>9. WholeTextIsNumber(v) <=> x.whole # NotFinite /\ (x.frac = <<>> => x.exp = 0)
  BY DEF WholeTextIsNumber, FloatVal
<1> HIDE DEF R, s, v, r
<1>10. SUFFICES ReadsNumber(r, v, F)
  BY <1>6, <1>8 DEF r, s, v, R
<1>11. ASSUME o < n  PROVE (At(o + 1) = "-" <=> x.neg) /\ DigitsFrom(o) = B + 1 /\ B \in 0 .. n
  <2>1. CASE x.neg
    <3>1. a = <<"-">> /\ Len(a) = 1 /\ 1 \in 1 .. 1 /\ a[1] = "-"
      BY <1>3, <2>1 DEF Sign
    <3>2. At(o + 1) = IF o + 1 <= n THEN a[1] ELSE EOF
      BY <1>1, <1>6, <3>1 DEF Sees
    <3>3. At(o + 1) = "-"
      BY <1>2, <1>11, <3>1, <3>2
    <3> QED BY <1>2, <1>5, <1>11, <2>1, <3>1, <3>3 DEF DigitsFrom
  <2>2. CASE ~ x.neg
    <3>1. a = <<>> /\ Len(a) = 0 /\ B = o
      BY <1>2, <1>3, <1>5, <2>2 DEF Sign
    <3>2. b[1] \in {"inf"} \cup R /\ 1 \in 1 .. Len(b)
      BY <1>3, <1>6, FloatParts DEF R
    <3>3. At(o + 1) = IF o + 1 <= n THEN b[1] ELSE EOF
      BY <1>1, <1>6, <3>1, <3>2 DEF Sees
    <3>4. At(o + 1) # "-"
      <4>1. "-" \notin R /\ "-" # "inf"
        BY DigitsApart DEF R
      <4>2. o + 1 <= n
        BY <1>2, <1>11
      <4> QED BY <3>2, <3>3, <4>1, <4>2
    <3> QED BY <1>2, <1>11, <2>2, <3>1, <3>4 DEF DigitsFrom
  <2> QED BY <2>1, <2>2
<1>12. ASSUME DigitsTo(o) = n + 1, F > n  PROVE ReadsNumber(r, v, F)
  <2>1. ~ (F <= n)
    BY <1>2, <1>7, <1>12
  <2> QED BY <1>1, <1>12, <2>1, CutLead DEF r
<1>13. CASE o = n
  <2>1. At(o + 1) = EOF /\ EOF # "-"
    BY <1>2, <1>13 DEF EOF
  <2>2. DigitsFrom(o) = n + 1
    BY <1>13, <2>1 DEF DigitsFrom
  <2>3. DigitsTo(o) \in n + 1 .. n + 1
    BY <1>1, <1>2, <2>2, NumberArms
  <2>4. DigitsTo(o) = n + 1 /\ F > n
    BY <1>2, <1>7, <1>13, <2>3
  <2> QED BY <1>12, <2>4
<1>14. CASE o < n /\ x.whole = NotFinite
  <2>1. b = <<"inf">> /\ 1 \in 1 .. Len(b) /\ b[1] = "inf"
    BY <1>3, <1>14 DEF Whole
  <2>2. At(B + 1) \in {"inf", EOF}
    BY <1>6, <2>1 DEF Sees
  <2>3. PICK ds \in {<<>>} : TRUE
    OBVIOUS
  <2>4. ds \in Seq(Range(Digits)) /\ Len(ds) = 0 /\ Sees(B, ds) /\ B + Len(ds) = B
    BY <1>7, <2>3 DEF Sees
  <2>5. ~ IsDigit(At((B + Len(ds)) + 1)) /\ B \in 0 .. n
    BY <1>11, <1>14, <2>2, <2>4, FollowApart
  <2>6. DigitsEnd(input, B + 1) = B + 1
    <3>1. B + Len(ds) <= n /\ B \in 0 .. Len(input)
      BY <1>1, <1>2, <2>4, <2>5
    <3>2. DigitsEnd(input, B + 1) = (B + Len(ds)) + 1
      BY <1>1, <2>4, <2>5, <3>1, DigitsRun
    <3> QED BY <2>4, <3>2
  <2>7. DigitsTo(o) = DigitsFrom(o)
    BY <1>11, <1>14, <2>6 DEF DigitsTo
  <2>8. r = Bad
    BY <1>1, <2>7, NumberArms DEF r
  <2> QED BY <1>9, <1>14, <2>8 DEF ReadsNumber
<1>15. CASE o < n /\ x.whole # NotFinite
  <2>1. PICK w \in Nat : w = x.whole
    BY <1>15, FloatParts
  <2>2. b = Printed[w] /\ Signed(w) = w /\ w \in Int
    <3>1. w \in Ints /\ w \in Int
      BY <1>15, <2>1, FloatParts
    <3>2. Signed(w) = w
      BY <3>1, Wrapped
    <3> QED BY <1>3, <1>15, <2>1, <3>1, <3>2 DEF Whole
  <2>3. At(C + 1) \in Follow \cup {"e", "."}
        /\ (x.frac # <<>> => At(C + 1) = IF C + 1 <= n THEN "." ELSE EOF)
        /\ (x.frac = <<>> /\ x.exp # 0 => At(C + 1) = IF C + 1 <= n THEN "e" ELSE EOF)
        /\ (x.frac = <<>> /\ x.exp = 0 => F = C)
        /\ (x.frac # <<>> => Sees(C + 1, x.frac) /\ D = (C + 1) + Len(x.frac))
        /\ (x.frac = <<>> => D = C)
        /\ (x.exp # 0 => Len(d) \in Nat \ {0} /\ At(D + 1) \in {"e", EOF} /\ At(D + 2) \in {"-", "+", EOF})
        /\ (x.exp = 0 => D = F)
    <3>1. ASSUME x.frac # <<>>
          PROVE  /\ At(C + 1) = IF C + 1 <= n THEN "." ELSE EOF
                 /\ Sees(C + 1, x.frac) /\ D = (C + 1) + Len(x.frac)
      <4>1. c = <<".">> \o x.frac /\ x.frac \in Seq(R) /\ x.frac \in Seq(Signs) /\ <<".">> \in Seq(Signs)
        <5>1. c = <<".">> \o x.frac /\ x.frac \in Seq(R)
          BY <1>3, <3>1, FloatParts DEF Fraction, R
        <5>2. R \subseteq Signs /\ "." \in Signs
          BY DigitsApart DEF Signs, Marks, R
        <5> QED BY <5>1, <5>2, SignsJoined
      <4>2. Len(<<".">>) = 1 /\ <<".">>[1] = "." /\ 1 \in 1 .. 1
        OBVIOUS
      <4>3. Sees(C, <<".">> \o x.frac)
        BY <1>6, <4>1
      <4>4. Sees(C, <<".">>) /\ Sees(C + 1, x.frac) /\ Len(c) = 1 + Len(x.frac) /\ Len(x.frac) \in Nat
        BY <1>7, <4>1, <4>2, <4>3, SeesBoth
      <4>5. At(C + 1) = IF C + 1 <= n THEN "." ELSE EOF
        BY <1>1, <4>2, <4>4 DEF Sees
      <4>6. D = (C + 1) + Len(x.frac)
        <5>1. PICK l \in Nat : l = Len(x.frac)
          BY <4>4
        <5>2. D = C + (1 + l) /\ C \in Nat
          BY <1>5, <1>7, <4>4, <5>1
        <5>3. D = (C + 1) + l
          BY <5>2
        <5> QED BY <5>1, <5>3
      <4> QED BY <4>4, <4>5, <4>6
    <3>2. ASSUME x.frac = <<>>  PROVE D = C
      <4>1. Len(c) = 0
        BY <1>3, <3>2 DEF Fraction
      <4> QED BY <1>5, <1>7, <4>1
    <3>3. ASSUME x.exp # 0
          PROVE  /\ Len(d) \in Nat \ {0} /\ At(D + 1) = IF D + 1 <= n THEN "e" ELSE EOF
                 /\ At(D + 2) \in {"-", "+", EOF}
      <4>1. d = ExpText(x.exp) /\ x.exp \in -(Half - 1) .. Half - 1
        BY <1>3, <3>3, FloatParts DEF Exponent
      <4>2. PICK ds \in Seq(Range(Digits)), sign \in {"-", "+"} :
              /\ d = <<"e", sign>> \o ds /\ Len(ds) \in Nat \ {0} /\ Len(d) = Len(ds) + 2
              /\ ds \in Seq(Signs) /\ <<"e", sign>> \in Seq(Signs)
        BY <4>1, ExponentParts
      <4>3. Len(d) \in Nat \ {0}
        BY <4>2
      <4>4. PICK es \in Seq(Signs) : es = <<"e", sign>> /\ Sees(D, es \o ds)
        BY <1>6, <4>2
      <4>5. Sees(D, es)
        BY <1>7, <4>2, <4>4, SeesBoth
      <4>6. At(D + 1) = (IF D + 1 <= n THEN "e" ELSE EOF) /\ At(D + 2) = (IF D + 2 <= n THEN sign ELSE EOF)
        BY <1>1, <1>7, <4>4, <4>5, SeesTwo
      <4> QED BY <4>3, <4>6
    <3>4. ASSUME x.exp = 0  PROVE D = F
      <4>1. Len(d) = 0
        BY <1>3, <3>4 DEF Exponent
      <4> QED BY <1>5, <1>7, <4>1
    <3>5. At(C + 1) \in Follow \cup {"e", "."}
      BY <1>7, <3>1, <3>2, <3>3, <3>4 DEF Follow
    <3> QED BY <3>1, <3>2, <3>3, <3>4, <3>5
  <2>4. /\ C <= n => /\ (At(o + 1) = "-" <=> x.neg) /\ DigitsTo(o) = C + 1
                     /\ DigitsTo(o) > DigitsFrom(o) /\ Amount(o) = w
        /\ C > n => DigitsTo(o) = n + 1
    <3>1. PICK g \in BOOLEAN : g = x.neg
      BY FloatParts
    <3>2. a = (IF g THEN <<"-">> ELSE <<>>)
      BY <1>3, <3>1 DEF Sign
    <3>3. Sees(o, a) /\ Sees(o + Len(a), Printed[w]) /\ C = (o + Len(a)) + Len(Printed[w])
      BY <1>5, <1>6, <2>2
    <3>4. ~ IsDigit(At(((o + Len(a)) + Len(Printed[w])) + 1))
      BY <2>3, <3>3, FollowApart
    <3>5. /\ C <= n => /\ (At(o + 1) = "-" <=> g) /\ DigitsTo(o) = C + 1
                       /\ DigitsTo(o) > DigitsFrom(o) /\ Amount(o) = Signed(w)
          /\ C > n => DigitsTo(o) = n + 1
      BY <1>1, <3>2, <3>3, <3>4, LeadRead
    <3> QED BY <2>2, <3>1, <3>5
  <2>5. PICK i : i = IntVal(Signed(IF x.neg THEN -w ELSE w))
    OBVIOUS
  <2>6. ASSUME C <= n, At(C + 1) \notin {"u", "U", "."}  PROVE r = Read(C + 1, i)
    BY <1>1, <2>4, <2>5, <2>6, NumberArms DEF r
  <2>7. ASSUME NEW q, r = Read(q, i)  PROVE r = Read(r.end, r.val) /\ r.val.type \in Numbers /\ r.end = q
    BY <2>5, <2>7 DEF Read, IntVal, Numbers
  <2>8. CASE C > n
    <3>1. F > n
      BY <1>2, <1>7, <2>8
    <3> QED BY <1>12, <2>4, <2>8, <3>1
  <2>9. CASE C <= n /\ x.frac = <<>> /\ x.exp = 0
    <3>1. F = C /\ At(C + 1) \notin {"u", "U", "."}
      BY <1>7, <2>3, <2>9, FollowApart
    <3>2. i = Reread(v)
      <4>1. w \in Ints /\ -w \in Ints
        BY <1>15, <2>1, FloatParts
      <4>2. i = IntVal(IF x.neg THEN -w ELSE w)
        BY <2>5, <4>1, Wrapped
      <4> QED BY <2>1, <2>9, <4>2 DEF Reread, v, FloatVal
    <3>3. WholeTextIsNumber(v)
      BY <1>9, <1>15, <2>9
    <3> QED BY <1>1, <2>6, <2>9, <3>1, <3>2, <3>3 DEF ReadsNumber
  <2>10. CASE C <= n /\ x.frac = <<>> /\ x.exp # 0
    <3>1. At(C + 1) \in {"e", EOF} /\ At(C + 1) \notin {"u", "U", "."} /\ At((C + 1) + 1) \in {"-", "+", EOF}
      <4>2. D = C /\ (C + 1) + 1 = C + 2
        BY <1>7, <2>3, <2>10
      <4>3. At((C + 1) + 1) \in {"-", "+", EOF}
        BY <2>3, <2>10, <4>2
      <4>1. At(C + 1) \in {"e", EOF}
        BY <2>3, <2>10
      <4> QED BY <4>1, <4>3 DEF EOF
    <3>2. r = Read(C + 1, i) /\ r = Read(r.end, r.val) /\ r.val.type \in Numbers /\ r.end = C + 1
      BY <2>6, <2>7, <2>10, <3>1
    <3>3. ~ WholeTextIsNumber(v)
      BY <1>9, <2>10
    <3>4. At(C + 1) = EOF => F > n
      <4>1. EOF # "e"
        BY DEF EOF
      <4>2. At(C + 1) = EOF => ~ (C + 1 <= n)
        BY <2>3, <2>10, <4>1
      <4>3. PICK ld \in Nat \ {0} : F = C + ld
        <5>1. Len(d) \in Nat /\ F = C + Len(d)
          BY <1>5, <1>6, <2>3, <2>10
        <5>2. Len(d) # 0
          BY <2>3, <2>10
        <5> QED BY <5>1, <5>2
      <4> QED BY <1>2, <1>7, <4>2, <4>3
    <3> QED BY <1>1, <3>1, <3>2, <3>3, <3>4 DEF ReadsNumber
  <2>11. CASE C <= n /\ x.frac # <<>>
    <3> DEFINE to == FractionTo(o)
               exp == ReadExponent(input, to)
               read(y) == Read(exp.end, FloatVal(Decimal(x.neg, w, y, exp.val)))
    <3>1. WholeTextIsNumber(v) /\ Reread(v) = v
      <4>1. v.type = "float" /\ v.x = x
        BY DEF v, FloatVal
      <4> QED BY <1>9, <1>15, <2>11, <4>1 DEF Reread
    <3>2. At(C + 1) = (IF C + 1 <= n THEN "." ELSE EOF) /\ Sees(C + 1, x.frac) /\ D = (C + 1) + Len(x.frac)
          /\ DigitsTo(o) = C + 1 /\ DigitsTo(o) > DigitsFrom(o) /\ (At(o + 1) = "-" <=> x.neg) /\ Amount(o) = w
      BY <2>3, <2>4, <2>11
    <3>3. D >= C + 1
      <4>1. x.frac \in Seq(Range(Digits))
        BY FloatParts
      <4>2. PICK l \in Nat : l = Len(x.frac)
        BY <4>1
      <4>3. D = (C + 1) + l /\ C \in Nat
        BY <1>7, <3>2, <4>2
      <4> QED BY <4>3
    <3>4. CASE C = n
      <4>1. F > n
        BY <1>2, <1>7, <3>3, <3>4
      <4> QED BY <1>12, <3>2, <3>4, <4>1
    <3>5. CASE C < n
      <4>1. At(C + 1) = "." /\ C + 1 \in 0 .. n
        BY <1>2, <1>7, <3>2, <3>5
      <4>2. PICK y : y = SubSeq(input, (C + 1) + 1, to - 1)
        OBVIOUS
      <4>3. r = read(y)
        <5>1. At(DigitsTo(o)) = "." /\ x.neg \in BOOLEAN
          BY <3>2, <4>1, FloatParts
        <5>2. r = Read(exp.end, FloatVal(Decimal(At(o + 1) = "-", Amount(o), SubSeq(input, DigitsTo(o) + 1, to - 1), exp.val)))
          BY <1>1, <3>2, <5>1, NumberArms DEF r
        <5>3. (At(o + 1) = "-") = x.neg
          BY <3>2, <5>1
        <5> QED BY <3>2, <4>2, <5>2, <5>3
      <4>4. ~ IsDigit(At(D + 1))
        <5>1. At(D + 1) \in Follow \cup {"e", EOF}
          BY <1>7, <2>3
        <5> QED BY <5>1, FollowApart
      <4>5. /\ D <= n => to = D + 1 /\ y = x.frac
            /\ D > n => to = n + 1
        <5>1. x.frac \in Seq(Range(Digits)) /\ ~ IsDigit(At(((C + 1) + Len(x.frac)) + 1))
          BY <3>2, <4>4, FloatParts
        <5>2. /\ D <= n => /\ DigitsEnd(input, (C + 1) + 1) = D + 1
                           /\ SubSeq(input, (C + 1) + 1, D) = x.frac
              /\ D > n => DigitsEnd(input, (C + 1) + 1) = n + 1
          BY <1>1, <3>2, <4>1, <5>1, DigitsRun
        <5>3. to = DigitsEnd(input, (C + 1) + 1)
          BY <3>2 DEF FractionTo
        <5>4. (D + 1) - 1 = D
          BY <1>7
        <5> HIDE DEF to
        <5> QED BY <4>2, <5>2, <5>3, <5>4
      <4> HIDE DEF to
      <4>6. r = Read(r.end, r.val) /\ r.val.type \in Numbers /\ r.end = exp.end
        <5>1. PICK f : f = FloatVal(Decimal(x.neg, w, y, exp.val))
          OBVIOUS
        <5>2. f.type = "float"
          BY <5>1 DEF FloatVal
        <5>3. r = Read(exp.end, f)
          BY <4>3, <5>1
        <5> QED BY <5>2, <5>3 DEF Read, Numbers
      <4>7. ASSUME exp.end = n + 1, F > n  PROVE ReadsNumber(r, v, F)
        <5>1. At(r.end) = EOF
          BY <1>2, <4>6, <4>7
        <5> QED BY <1>1, <4>6, <4>7, <5>1 DEF ReadsNumber
      <4>8. CASE D > n
        <5>1. CharAt(input, to) \notin {"e", "E"}
          BY <1>2, <4>5, <4>8 DEF At, EOF
        <5>2. exp = Read(n + 1, 0)
          BY <4>5, <4>8, <5>1 DEF ReadExponent
        <5>3. exp.end = n + 1 /\ F > n
          BY <1>2, <1>7, <4>8, <5>2 DEF Read
        <5> QED BY <4>7, <5>3
      <4>9. ASSUME D <= n, F <= n, exp = Read(F + 1, x.exp)  PROVE ReadsNumber(r, v, F)
        <5>1. Decimal(x.neg, w, y, exp.val) = x /\ exp.end = F + 1
          BY <2>1, <4>5, <4>9, FloatParts DEF Read
        <5>2. r = Read(F + 1, Reread(v))
          BY <3>1, <4>3, <5>1 DEF v
        <5> QED BY <1>1, <3>1, <4>9, <5>2 DEF ReadsNumber
      <4>10. CASE D <= n /\ x.exp = 0
        <5>1. CharAt(input, to) \notin {"e", "E"} /\ F = D
          BY <1>7, <2>3, <4>5, <4>10, FollowApart DEF At
        <5>2. exp = Read(F + 1, x.exp)
          BY <4>5, <4>10, <5>1 DEF ReadExponent
        <5> QED BY <4>9, <4>10, <5>1, <5>2
      <4>11. CASE D <= n /\ x.exp # 0
        <5>1. d = ExpText(x.exp) /\ x.exp \in -(Half - 1) .. Half - 1 /\ D \in 0 .. n
          <6>1. D \in 0 .. n
            BY <1>2, <1>7, <4>11
          <6> QED BY <1>3, <4>11, <6>1, FloatParts DEF Exponent
        <5>2. ~ IsDigit(At((D + Len(ExpText(x.exp))) + 1)) /\ Sees(D, ExpText(x.exp)) /\ F = D + Len(ExpText(x.exp))
          BY <1>5, <1>6, <1>7, <5>1, FollowApart
        <5>3. /\ F <= n => ReadExponent(input, D + 1) = Read(F + 1, x.exp)
              /\ F > n => ReadExponent(input, D + 1).end = n + 1
          BY <1>1, <5>1, <5>2, ExponentRead
        <5>4. exp = ReadExponent(input, D + 1)
          BY <4>5, <4>11
        <5> HIDE DEF exp
        <5>5. F <= n \/ F > n
          BY <1>2, <1>7
        <5> QED BY <4>7, <4>9, <4>11, <5>3, <5>4, <5>5 DEF exp
      <4>12. D > n \/ D <= n
        BY <1>2, <1>7
      <4> QED BY <4>8, <4>10, <4>11, <4>12
    <3> QED BY <1>2, <1>7, <2>11, <3>4, <3>5
  <2> QED BY <1>2, <1>7, <2>8, <2>9, <2>10, <2>11
<1>16. o = n \/ o < n
  BY <1>2
<1> QED BY <1>13, <1>14, <1>15, <1>16

\* Numbers that were written are read as what Reread says.
LEMMA NumbersRead ==
  ASSUME input \in Seq(Signs), NEW v, v.type \in Numbers, PlainOK(v),
         NEW o \in 0 .. Len(input), Sees(o, NumberText(v)), At((o + Len(NumberText(v))) + 1) \in Follow
  PROVE  /\ ReadsNumber(ReadNumber(input, o + 1), v, o + Len(NumberText(v)))
         /\ NumberText(v) \in Seq(Signs) /\ NumberText(v) # <<>>
         /\ NumberText(v)[1] \in {"-", "inf"} \cup Range(Digits)
<1>1. CASE v.type \in {"int", "uint"}
  BY <1>1, IntegersRead
<1>2. CASE v.type = "float"
  <2>1. v = FloatVal(v.x) /\ v.x \in Decimals /\ NumberText(v) = FloatText(v.x)
    BY <1>2 DEF PlainOK, NumberText
  <2> QED BY <2>1, FloatsRead
<1> QED BY <1>1, <1>2 DEF Numbers

\* A text of one character.
LEMMA SeesOne ==
  ASSUME NEW c, NEW o \in Nat, Sees(o, <<c>>)
  PROVE  At(o + 1) = (IF o + 1 <= Len(input) THEN c ELSE EOF) /\ Len(<<c>>) = 1
<1>1. Len(<<c>>) = 1 /\ <<c>>[1] = c /\ 1 \in 1 .. 1
  OBVIOUS
<1>2. At(o + 1) = IF o + 1 <= Len(input) THEN <<c>>[1] ELSE EOF
  BY <1>1 DEF Sees
<1> QED BY <1>1, <1>2

\* What was read is not an error.
LEMMA ReadNotBad == \A e, v : Read(e, v) # Bad /\ Read(e, v).end = e /\ Read(e, v).val = v
<1>1. \A e, v : "val" \in DOMAIN Read(e, v) /\ Read(e, v).end = e /\ Read(e, v).val = v
  BY DEF Read
<1>2. "val" \notin DOMAIN Bad
  BY DEF Bad
<1> QED BY <1>1, <1>2

\* A reference in brackets is read as the same reference, if all of it arrived.
LEMMA ReferencesRead ==
  ASSUME input \in Seq(Signs), NEW str \in Seq(Characters) \cup {NULL}, NEW q \in 0 .. Len(input),
         Sees(q, <<"(">>), Sees(q + 1, Quoted(str)), Sees((q + 1) + Len(Quoted(str)), <<")">>)
  PROVE  LET e == ((q + 1) + Len(Quoted(str))) + 1 IN
         ReferenceAt(q + 1) = IF e <= Len(input) THEN Read(e + 1, Stored(str)) ELSE Bad
<1>1. PICK n, l : n = Len(input) /\ l = Len(Quoted(str))
  OBVIOUS
<1>2. n \in Nat /\ l \in Nat /\ q \in Nat /\ q <= n
  <2>1. Quoted(str) \in Seq(Signs)
    BY StringsTyped, BareJoined
  <2>2. Len(Quoted(str)) \in Nat
    BY <2>1
  <2> QED BY <1>1, <2>2
<1>3. PICK f : f = (q + 1) + l
  OBVIOUS
<1>4. f \in Nat /\ q + 1 \in Nat /\ (q + 1) + 1 \in Nat /\ q + 1 <= f
  BY <1>2, <1>3
<1>5. /\ At(q + 1) = IF q + 1 <= n THEN "(" ELSE EOF
      /\ At(f + 1) = IF f + 1 <= n THEN ")" ELSE EOF
  BY <1>1, <1>2, <1>3, <1>4, SeesOne
<1>6. EOF # "(" /\ EOF # ")"
  BY DEF EOF
<1>7. ReferenceAt(q + 1) =
        LET quoted == IF At(q + 1) = "(" THEN QuotedAt((q + 1) + 1) ELSE Bad IN
        IF quoted # Bad /\ At(quoted.end) = ")" THEN Read(quoted.end + 1, quoted.val) ELSE Bad
  BY DEF ReferenceAt
<1>8. q + 1 <= n => QuotedAt((q + 1) + 1) = IF f <= n THEN Read(f + 1, Stored(str)) ELSE Bad
  <2> SUFFICES ASSUME q + 1 <= n  PROVE QuotedAt((q + 1) + 1) = IF f <= n THEN Read(f + 1, Stored(str)) ELSE Bad
    OBVIOUS
  <2>1. q + 1 \in 0 .. Len(input) /\ (q + 1) + Len(Quoted(str)) = f
    BY <1>1, <1>2, <1>3
  <2> QED BY <1>1, <2>1, StringsReadBack
<1>9. CASE ~ (q + 1 <= n)
  <2>1. ~ (f + 1 <= n) /\ At(q + 1) # "("
    BY <1>2, <1>4, <1>5, <1>6, <1>9
  <2>2. ReferenceAt(q + 1) = Bad
    BY <1>7, <2>1
  <2> QED BY <1>1, <1>3, <2>1, <2>2
<1>10. CASE q + 1 <= n /\ ~ (f <= n)
  <2>1. ~ (f + 1 <= n)
    BY <1>2, <1>4, <1>10
  <2>2. ReferenceAt(q + 1) = Bad
    BY <1>7, <1>8, <1>10
  <2> QED BY <1>1, <1>3, <2>1, <2>2
<1>11. CASE q + 1 <= n /\ f <= n
  <2>1. ReferenceAt(q + 1) = IF At(f + 1) = ")" THEN Read((f + 1) + 1, Stored(str)) ELSE Bad
    BY <1>5, <1>7, <1>8, <1>11, ReadNotBad
  <2> QED BY <1>1, <1>3, <1>5, <1>6, <2>1
<1> QED BY <1>9, <1>10, <1>11

\* Where the components of a list end: the bracket or the comma before each,
\* what it looks like, and the end.
Separator(k, m) == IF k = 0 THEN "(" ELSE IF k < m THEN "," ELSE ")"
Ends(xs, o, E) ==
  /\ E \in [0 .. Len(xs) -> Nat] /\ E[0] = o
  /\ \A k \in 1 .. Len(xs) : /\ Sees(E[k - 1] + 1, FloatText(xs[k]))
                             /\ E[k] = (E[k - 1] + 1) + Len(FloatText(xs[k]))
  /\ \A k \in 0 .. Len(xs) : At(E[k] + 1) = IF E[k] + 1 <= Len(input) THEN Separator(k, Len(xs)) ELSE EOF
  /\ E[Len(xs)] + 1 = o + Len(FloatListText(xs))

LEMMA ListSeen ==
  ASSUME input \in Seq(Signs), NEW xs \in Seq(Decimals), xs # <<>>, NEW o \in Nat, Sees(o, FloatListText(xs))
  PROVE  \E E : Ends(xs, o, E)
<1> DEFINE lead(i) == IF i > 1 THEN <<",">> ELSE <<>>
           e == [i \in DOMAIN xs |-> lead(i) \o FloatText(xs[i])]
           all == FlattenSeq(e)
           open == <<"(">>
           close == <<")">>
<1>1. PICK m : m = Len(xs)
  OBVIOUS
<1>2. m \in Nat \ {0} /\ DOMAIN xs = 1 .. m /\ \A i \in 1 .. m : xs[i] \in Decimals
  BY <1>1
<1>3. open \in Seq(Signs) /\ close \in Seq(Signs) /\ Len(open) = 1 /\ \A i \in 1 .. m : lead(i) \in Seq(Signs)
  <2>1. "(" \in Signs /\ ")" \in Signs /\ "," \in Signs
    BY DEF Signs, Marks
  <2> QED BY <2>1, SignsJoined
<1>4. \A i \in 1 .. m : FloatText(xs[i]) \in Seq(Signs) /\ Len(FloatText(xs[i])) \in Nat
  <2>1. \A i \in 1 .. m : FloatText(xs[i]) \in Seq(Signs)
    BY <1>2, NumbersTyped, BareJoined
  <2> QED BY <2>1
<1> HIDE DEF lead, open, close
<1>5. e \in Seq(Seq(Signs)) /\ Len(e) = m /\ \A i \in 1 .. m : e[i] = lead(i) \o FloatText(xs[i])
  <2>1. \A i \in 1 .. m : lead(i) \o FloatText(xs[i]) \in Seq(Signs)
    BY <1>3, <1>4, SignsJoined
  <2> QED BY <1>2, <2>1
<1> HIDE DEF e
<1>6. all \in Seq(Signs) /\ \E at : Layout(e, all, at)
  BY <1>5, Flattened
<1> HIDE DEF all
<1>7. PICK at : Layout(e, all, at)
  BY <1>6
<1>8. FloatListText(xs) = (open \o all) \o close
  BY DEF FloatListText, open, all, e, lead, close
<1>9. /\ Sees(o, open) /\ Sees(o + 1, all) /\ Sees((o + 1) + Len(all), close)
      /\ Len(FloatListText(xs)) = (1 + Len(all)) + 1 /\ Len(all) \in Nat
  <2>1. PICK oa \in Seq(Signs) : oa = open \o all
    BY <1>3, <1>6, SignsJoined
  <2>2. Len(close) = 1
    BY DEF close
  <2>3. Sees(o, oa) /\ Sees(o + Len(oa), close) /\ Len(FloatListText(xs)) = Len(oa) + 1
    <3>1. Sees(o, oa \o close)
      BY <1>8, <2>1
    <3> QED BY <1>3, <1>8, <2>1, <2>2, <3>1, SeesBoth
  <2>4. Sees(o, open) /\ Sees(o + 1, all) /\ Len(oa) = 1 + Len(all) /\ Len(all) \in Nat
    BY <1>3, <1>6, <2>1, <2>3, SeesBoth
  <2>5. o + Len(oa) = (o + 1) + Len(all)
    BY <2>4
  <2> QED BY <2>3, <2>4, <2>5
<1>10. /\ \A i \in 1 .. m + 1 : at[i] \in Nat
       /\ at[1] = 0 /\ at[m + 1] = Len(all)
       /\ \A i \in 1 .. m : at[i + 1] = at[i] + Len(e[i])
  BY <1>5, <1>7 DEF Layout
<1>11. \A i \in 1 .. m : Sees((o + 1) + at[i], e[i])
  <2>1. o + 1 \in Nat
    OBVIOUS
  <2> QED BY <1>5, <1>7, <1>9, <2>1, SeesParts
<1>12. ASSUME NEW i \in 1 .. m
       PROVE  /\ i = 1 => Sees(o + 1, FloatText(xs[i])) /\ at[i + 1] = Len(FloatText(xs[i]))
              /\ i > 1 => /\ At(((o + 1) + at[i]) + 1) = IF ((o + 1) + at[i]) + 1 <= Len(input) THEN "," ELSE EOF
                          /\ Sees(((o + 1) + at[i]) + 1, FloatText(xs[i]))
                          /\ at[i + 1] = at[i] + (1 + Len(FloatText(xs[i])))
  <2>1. PICK t \in Seq(Signs), q \in Nat : t = FloatText(xs[i]) /\ q = (o + 1) + at[i]
    <3>1. i \in 1 .. m + 1
      BY <1>2
    <3>2. at[i] \in Nat
      BY <1>10, <3>1
    <3>3. (o + 1) + at[i] \in Nat
      BY <3>2
    <3> QED BY <1>4, <3>3
  <2>2. Sees(q, lead(i) \o t) /\ at[i + 1] = at[i] + Len(lead(i) \o t)
    BY <1>5, <1>10, <1>11, <2>1
  <2>3. Sees(q, lead(i)) /\ Sees(q + Len(lead(i)), t) /\ Len(lead(i) \o t) = Len(lead(i)) + Len(t) /\ Len(t) \in Nat
    BY <1>3, <2>1, <2>2, SeesBoth
  <2>4. CASE i = 1
    <3>1. Len(lead(i)) = 0 /\ ~ (i > 1)
      BY <2>4 DEF lead
    <3>2. q + 0 = o + 1 /\ at[i + 1] = Len(t)
      BY <1>10, <2>1, <2>2, <2>3, <2>4, <3>1
    <3> QED BY <2>1, <2>3, <3>1, <3>2
  <2>5. CASE i > 1
    <3>0. lead(i) = <<",">>
      BY <2>5 DEF lead
    <3>1. lead(i) = <<",">> /\ Len(lead(i)) = 1 /\ i # 1
      <4>1. Len(<<",">>) = 1
        OBVIOUS
      <4>2. i # 1
        BY <2>5
      <4> QED BY <3>0, <4>1, <4>2
    <3>2. At(q + 1) = IF q + 1 <= Len(input) THEN "," ELSE EOF
      BY <2>1, <2>3, <3>1, SeesOne
    <3> QED BY <2>1, <2>2, <2>3, <3>1, <3>2
  <2> QED BY <1>2, <2>4, <2>5
<1> DEFINE E == [k \in 0 .. m |-> IF k = 0 THEN o ELSE (o + 1) + at[k + 1]]
<1>13. E \in [0 .. m -> Nat] /\ E[0] = o
  <2>1. \A k \in 0 .. m : k + 1 \in 1 .. m + 1
    BY <1>2
  <2> QED BY <1>2, <1>10, <2>1
<1>14. \A k \in 1 .. m : E[k] = (o + 1) + at[k + 1] /\ k - 1 \in 0 .. m /\ (k - 1) + 1 = k
                         /\ E[k - 1] = IF k = 1 THEN o ELSE (o + 1) + at[k]
  <2>1. \A k \in 1 .. m : k \in 0 .. m /\ k # 0 /\ k - 1 \in 0 .. m /\ (k - 1) + 1 = k /\ (k - 1 = 0 <=> k = 1)
    BY <1>2
  <2> QED BY <2>1
<1> HIDE DEF E
<1>15. ASSUME NEW k \in 1 .. m
       PROVE  /\ Sees(E[k - 1] + 1, FloatText(xs[k])) /\ E[k] = (E[k - 1] + 1) + Len(FloatText(xs[k]))
              /\ k > 1 => At(E[k - 1] + 1) = IF E[k - 1] + 1 <= Len(input) THEN "," ELSE EOF
  <2>1. PICK l \in Nat : l = Len(FloatText(xs[k]))
    BY <1>4
  <2>2. CASE k = 1
    <3>1. E[k - 1] = o /\ E[k] = (o + 1) + l /\ Sees(o + 1, FloatText(xs[k])) /\ ~ (k > 1)
      <4>1. Sees(o + 1, FloatText(xs[k])) /\ at[k + 1] = l
        BY <1>12, <2>1, <2>2
      <4>2. E[k - 1] = o
        BY <1>14, <2>2
      <4>3. E[k] = (o + 1) + at[k + 1] /\ ~ (k > 1)
        BY <1>14, <2>2
      <4> QED BY <4>1, <4>2, <4>3
    <3> QED BY <2>1, <3>1
  <2>3. CASE k > 1
    <3>1. E[k - 1] = (o + 1) + at[k] /\ E[k] = (o + 1) + (at[k] + (1 + l)) /\ at[k] \in Nat
      <4>1. k \in 1 .. m + 1 /\ k # 1
        BY <1>2, <2>3
      <4> QED BY <1>10, <1>12, <1>14, <2>1, <2>3, <4>1
    <3>2. E[k] = (E[k - 1] + 1) + l
      <4>1. PICK a \in Nat : a = at[k]
        BY <3>1
      <4>2. E[k - 1] = (o + 1) + a /\ E[k] = (o + 1) + (a + (1 + l))
        BY <3>1, <4>1
      <4>3. (o + 1) + (a + (1 + l)) = (((o + 1) + a) + 1) + l
        <5>1. \A x, y, z \in Nat : (x + 1) + (y + (1 + z)) = (((x + 1) + y) + 1) + z
          OBVIOUS
        <5> QED BY <2>1, <4>1, <5>1
      <4> QED BY <4>2, <4>3
    <3>3. PICK q : q = (o + 1) + at[k]
      OBVIOUS
    <3>4. /\ At(q + 1) = IF q + 1 <= Len(input) THEN "," ELSE EOF
          /\ Sees(q + 1, FloatText(xs[k]))
      BY <1>12, <2>3, <3>3
    <3>5. q = E[k - 1]
      BY <3>1, <3>3
    <3>6. Sees(E[k - 1] + 1, FloatText(xs[k]))
      BY <3>4, <3>5
    <3>7. At(E[k - 1] + 1) = IF E[k - 1] + 1 <= Len(input) THEN "," ELSE EOF
      BY <3>4, <3>5
    <3>8. E[k] = (E[k - 1] + 1) + Len(FloatText(xs[k]))
      BY <2>1, <3>2
    <3> QED BY <3>6, <3>7, <3>8
  <2>4. k = 1 \/ k > 1
    BY <1>2
  <2> QED BY <2>2, <2>3, <2>4
<1>16. ASSUME NEW k \in 0 .. m
       PROVE  At(E[k] + 1) = IF E[k] + 1 <= Len(input) THEN Separator(k, m) ELSE EOF
  <2>1. CASE k = 0
    <3>1. At(o + 1) = IF o + 1 <= Len(input) THEN "(" ELSE EOF
      BY <1>9, SeesOne DEF open
    <3> QED BY <1>13, <2>1, <3>1 DEF Separator
  <2>2. CASE k # 0 /\ k < m
    <3>1. k + 1 \in 1 .. m /\ k + 1 > 1 /\ (k + 1) - 1 = k
      BY <1>2, <2>2
    <3> QED BY <1>15, <2>2, <3>1 DEF Separator
  <2>3. CASE k = m
    <3>1. E[k] = (o + 1) + Len(all) /\ (o + 1) + Len(all) \in Nat
      <4>1. m \in 1 .. m
        BY <1>2
      <4>2. E[m] = (o + 1) + Len(all)
        BY <1>10, <1>14, <4>1
      <4> QED BY <1>9, <2>3, <4>2
    <3>2. At(E[k] + 1) = IF E[k] + 1 <= Len(input) THEN ")" ELSE EOF
      BY <1>9, <3>1, SeesOne DEF close
    <3>3. k # 0 /\ ~ (k < m)
      BY <1>2, <2>3
    <3> QED BY <2>3, <3>2, <3>3 DEF Separator
  <2> QED BY <1>2, <2>1, <2>2, <2>3
<1>17. E[m] + 1 = o + Len(FloatListText(xs))
  <2>1. E[m] = (o + 1) + Len(all)
    <3>1. m \in 1 .. m
      BY <1>2
    <3> QED BY <1>10, <1>14, <3>1
  <2> QED BY <1>9, <2>1
<1>18. Ends(xs, o, E)
  BY <1>1, <1>13, <1>15, <1>16, <1>17 DEF Ends
<1> QED BY <1>18

\* Another component.
More(read, number) == Read(number.end, Append(read.val, AsFloat(number.val)))
Opener(read) == IF read.val = <<>> THEN "(" ELSE ","
LEMMA OneMoreIs ==
  ASSUME NEW read, NEW r, r = ReadNumber(input, read.end + 1)
  PROVE  /\ At(read.end) # Opener(read) => OneMore(read) = {}
         /\ r = Bad => OneMore(read) = {}
         /\ At(read.end) = Opener(read) /\ r # Bad => OneMore(read) = {More(read, r)}
BY DEF OneMore, More, Opener

LEMMA ExtendedIs == Extended({}) = {} /\ \A r : Extended({r}) = OneMore(r)
BY DEF Extended

\* A list is read as the same components, if all of it arrived and is numbers.
Component(x) == AsFloat(Reread(FloatVal(x)))
LEMMA ListsRead ==
  ASSUME input \in Seq(Signs), NEW xs \in Seq(Decimals), xs # <<>>, NEW o \in 0 .. Len(input),
         Sees(o, FloatListText(xs))
  PROVE  LET e == o + Len(FloatListText(xs)) IN
         FloatListAt(o + 1, Len(xs)) =
           IF e <= Len(input) /\ \A i \in DOMAIN xs : WholeTextIsNumber(FloatVal(xs[i]))
           THEN Read(e + 1, [i \in DOMAIN xs |-> Component(xs[i])]) ELSE Bad
<1>1. PICK n, m : n = Len(input) /\ m = Len(xs)
  OBVIOUS
<1>2. n \in Nat /\ m \in Nat \ {0} /\ o \in Nat /\ DOMAIN xs = 1 .. m /\ \A i \in 1 .. m : xs[i] \in Decimals
  BY <1>1
<1>3. PICK E : Ends(xs, o, E)
  BY <1>2, ListSeen
<1>4. PICK f : ComponentsAt(o + 1, m) = f[m] /\ OneByOne(f, o + 1, m)
  BY <1>2, ComponentsUnfolded
<1>5. f[0] = {Read(o + 1, <<>>)} /\ \A k \in 0 .. m - 1 : f[k + 1] = Extended(f[k])
  BY <1>4 DEF OneByOne
<1>6. /\ \A k \in 0 .. m : E[k] \in Nat
      /\ E[0] = o
      /\ \A k \in 0 .. m : At(E[k] + 1) = IF E[k] + 1 <= n THEN Separator(k, m) ELSE EOF
      /\ E[m] + 1 = o + Len(FloatListText(xs))
  BY <1>1, <1>3 DEF Ends
<1>7. \A k \in 0 .. m - 1 : /\ k + 1 \in 1 .. m /\ k + 1 \in 0 .. m /\ k \in 0 .. m
                            /\ Sees(E[k] + 1, FloatText(xs[k + 1]))
                            /\ E[k + 1] = (E[k] + 1) + Len(FloatText(xs[k + 1]))
  <2>1. \A k \in 0 .. m - 1 : k + 1 \in 1 .. m /\ k + 1 \in 0 .. m /\ k \in 0 .. m /\ (k + 1) - 1 = k
    BY <1>2
  <2>2. \A k \in 1 .. m : /\ Sees(E[k - 1] + 1, FloatText(xs[k]))
                          /\ E[k] = (E[k - 1] + 1) + Len(FloatText(xs[k]))
    BY <1>1, <1>3 DEF Ends
  <2> QED BY <2>1, <2>2
<1>8. \A k \in 0 .. m - 1 : FloatText(xs[k + 1]) \in Seq(Signs) /\ Len(FloatText(xs[k + 1])) \in Nat
  <2>1. \A k \in 0 .. m - 1 : FloatText(xs[k + 1]) \in Seq(Signs)
    BY <1>2, <1>7, NumbersTyped, BareJoined
  <2> QED BY <2>1
<1> DEFINE Got(k) == [i \in 1 .. k |-> Component(xs[i])]
           All(k) == E[k] <= n /\ \A i \in 1 .. k : WholeTextIsNumber(FloatVal(xs[i]))
           Good(k) == All(k) /\ f[k] = {Read(E[k] + 1, Got(k))}
           Fail(k) == ~ All(k) /\ (f[k] = {} \/ \E r : f[k] = {r} /\ At(r.end) \in {EOF, "e"})
           S == {k \in Nat : Good(k) \/ Fail(k)}
<1>9. \A k \in 0 .. m - 1 : Append(Got(k), Component(xs[k + 1])) = Got(k + 1) /\ (Got(k) = <<>> <=> k = 0)
  <2> SUFFICES ASSUME NEW k \in 0 .. m - 1
               PROVE  Append(Got(k), Component(xs[k + 1])) = Got(k + 1) /\ (Got(k) = <<>> <=> k = 0)
    OBVIOUS
  <2> DEFINE X == {Component(xs[i]) : i \in 1 .. m}
             c(i) == Component(xs[i])
             g == Got(k)
             h == Append(g, c(k + 1))
  <2>1. k \in Nat /\ k + 1 \in Nat /\ \A i \in 1 .. k + 1 : i \in 1 .. m /\ c(i) \in X
    BY <1>2
  <2> HIDE DEF X, c
  <2>2. k + 1 \in 1 .. k + 1 /\ \A i \in 1 .. k : i \in 1 .. k + 1
    BY <2>1
  <2>3. g = [i \in 1 .. k |-> c(i)]
    BY DEF c
  <2>4. g \in Seq(X) /\ Len(g) = k /\ (\A i \in 1 .. k : g[i] = c(i)) /\ (g = <<>> <=> k = 0)
    <3> HIDE DEF g
    <3> QED BY <2>1, <2>2, <2>3
  <2> HIDE DEF g
  <2>5. h \in Seq(X) /\ Len(h) = k + 1 /\ (\A i \in 1 .. k : h[i] = g[i]) /\ h[k + 1] = c(k + 1)
    BY <2>1, <2>2, <2>4, Appended
  <2>6. h = [i \in 1 .. k + 1 |-> c(i)]
    <3> HIDE DEF h
    <3>1. \A i \in 1 .. k + 1 : i \in 1 .. k \/ i = k + 1
      BY <2>1
    <3>2. \A i \in 1 .. k + 1 : h[i] = c(i)
      BY <2>4, <2>5, <3>1
    <3>3. h = [i \in 1 .. k + 1 |-> h[i]]
      BY <2>1, <2>5
    <3> QED BY <3>2, <3>3
  <2> QED BY <2>4, <2>6 DEF g, c
<1> HIDE DEF Got
<1>10. 0 \in S
  <2>1. All(0) /\ Got(0) = <<>> /\ f[0] = {Read(E[0] + 1, Got(0))}
    <3>1. Got(0) = <<>>
      BY DEF Got
    <3> QED BY <1>1, <1>2, <1>5, <1>6, <3>1
  <2> QED BY <2>1
<1>11. ASSUME NEW k \in 0 .. m - 1, k \in S  PROVE k + 1 \in S
  <2>1. /\ k \in Nat /\ k + 1 \in Nat /\ k \in 0 .. m /\ k < m /\ E[k] \in Nat /\ E[k + 1] \in Nat /\ E[k + 1] > E[k]
        /\ k + 1 \in 1 .. k + 1 /\ \A i \in 1 .. k : i \in 1 .. k + 1
    BY SMTT(60), <1>2, <1>6, <1>7, <1>8
  <2>2. f[k + 1] = Extended(f[k])
    BY <1>5
  <2>3. CASE Fail(k)
    <3>1. ~ All(k + 1)
      BY <1>2, <2>1, <2>3
    <3>2. f[k + 1] = {}
      <4>1. CASE f[k] = {}
        BY <2>2, <4>1, ExtendedIs
      <4>2. CASE f[k] # {}
        <5>1. PICK r : f[k] = {r} /\ At(r.end) \in {EOF, "e"}
          BY <2>3, <4>2
        <5>2. At(r.end) \notin {"(", ","}
          BY <5>1 DEF EOF
        <5>4. Opener(r) \in {"(", ","}
          BY DEF Opener
        <5>3. OneMore(r) = {}
          BY <5>2, <5>4, OneMoreIs
        <5> QED BY <2>2, <5>1, <5>3, ExtendedIs
      <4> QED BY <4>1, <4>2
    <3> QED BY <2>1, <3>1, <3>2
  <2>4. CASE Good(k)
    <3> DEFINE x == xs[k + 1]
               q == E[k] + 1
               read == Read(q, Got(k))
               r == ReadNumber(input, q + 1)
               sign == IF k = 0 THEN "(" ELSE ","
               l == Len(FloatText(x))
    <3>1. f[k] = {read} /\ All(k) /\ read.end = q /\ read.val = Got(k)
      BY <2>4, ReadNotBad
    <3>2. f[k + 1] = OneMore(read) /\ sign = IF read.val = <<>> THEN "(" ELSE ","
      BY <1>9, <2>2, <3>1, ExtendedIs
    <3>3. /\ At(q) # sign => f[k + 1] = {}
          /\ r = Bad => f[k + 1] = {}
          /\ At(q) = sign /\ r # Bad => f[k + 1] = {Read(r.end, Append(Got(k), AsFloat(r.val)))}
      <4>1. r = ReadNumber(input, read.end + 1)
        BY <3>1
      <4> HIDE DEF read, sign, r, q
      <4>2. /\ At(read.end) # sign => OneMore(read) = {}
            /\ r = Bad => OneMore(read) = {}
            /\ At(read.end) = sign /\ r # Bad => OneMore(read) = {Read(r.end, Append(read.val, AsFloat(r.val)))}
        <5>1. PICK rd, num : rd = read /\ num = r
          OBVIOUS
        <5>2. num = ReadNumber(input, rd.end + 1) /\ sign = Opener(rd)
          BY <3>2, <4>1, <5>1 DEF Opener
        <5>3. /\ At(rd.end) # Opener(rd) => OneMore(rd) = {}
              /\ num = Bad => OneMore(rd) = {}
              /\ At(rd.end) = Opener(rd) /\ num # Bad => OneMore(rd) = {More(rd, num)}
          BY <5>2, OneMoreIs
        <5> QED BY <5>1, <5>2, <5>3 DEF More
      <4> QED BY <3>1, <3>2, <4>2
    <3>4. At(q) = (IF q <= n THEN sign ELSE EOF) /\ EOF # sign
      BY <1>6, <2>1 DEF Separator, EOF
    <3>5. All(k + 1) <=> E[k + 1] <= n /\ WholeTextIsNumber(FloatVal(x))
      <4>1. \A i \in 1 .. k + 1 : i \in 1 .. k \/ i = k + 1
        BY <2>1
      <4> QED BY <2>1, <3>1, <4>1
    <3>6. CASE ~ (q <= n)
      <4>1. ~ (E[k + 1] <= n)
        BY <1>2, <2>1, <3>6
      <4> QED BY <2>1, <3>3, <3>4, <3>5, <3>6, <4>1
    <3>7. CASE q <= n
      <4>1. q \in 0 .. Len(input) /\ x \in Decimals /\ Sees(q, FloatText(x)) /\ E[k + 1] = q + l
        BY <1>1, <1>2, <1>7, <2>1, <3>7
      <4>2. At((q + l) + 1) \in Follow
        <5>1. At(E[k + 1] + 1) \in {",", ")", EOF}
          <6>1. k + 1 \in 0 .. m /\ k + 1 # 0
            BY <1>7
          <6> QED BY <1>6, <6>1 DEF Separator
        <5> QED BY <4>1, <5>1 DEF Follow
      <4> HIDE DEF q, x, All, r, l
      <4>3. ReadsNumber(r, FloatVal(x), E[k + 1])
        BY <4>1, <4>2, FloatsRead DEF r, l
      <4>4. CASE E[k + 1] <= n /\ WholeTextIsNumber(FloatVal(x)) /\ r = Read(E[k + 1] + 1, Reread(FloatVal(x)))
        <5>1. r # Bad /\ r.end = E[k + 1] + 1 /\ AsFloat(r.val) = Component(x)
          BY <4>4, ReadNotBad DEF Component
        <5>2. f[k + 1] = {Read(E[k + 1] + 1, Append(Got(k), Component(x)))}
          BY <3>3, <3>4, <3>7, <5>1
        <5>3. Good(k + 1)
          BY <1>9, <3>5, <4>4, <5>2 DEF x
        <5> QED BY <2>1, <5>3
      <4>5. CASE ~ All(k + 1) /\ r = Bad
        BY <2>1, <3>3, <4>5
      <4>6. CASE ~ All(k + 1) /\ r = Read(r.end, r.val) /\ At(r.end) \in {EOF, "e"}
        <5>1. r # Bad
          BY <4>6, ReadNotBad
        <5> DEFINE y == Read(r.end, Append(Got(k), AsFloat(r.val)))
        <5>2. f[k + 1] = {y} /\ y.end = r.end
          BY <3>3, <3>4, <3>7, <5>1, ReadNotBad
        <5> HIDE DEF y
        <5>3. Fail(k + 1)
          BY <4>6, <5>2
        <5> QED BY <2>1, <5>3
      <4>7. E[k + 1] > n => ~ (E[k + 1] <= n)
        BY <1>2, <2>1
      <4> QED BY <1>1, <3>5, <4>3, <4>4, <4>5, <4>6, <4>7 DEF ReadsNumber
    <3> QED BY <3>6, <3>7
  <2> QED BY <1>11, <2>3, <2>4
<1>12. m \in S
  <2>1. m \in 0 .. m
    BY <1>2
  <2> HIDE DEF S
  <2> QED BY <1>2, <1>10, <1>11, <2>1, InductionUpTo
<1> DEFINE lists == {list \in ComponentsAt(o + 1, m) : At(list.end) = ")"}
           list == CHOOSE l \in lists : TRUE
           e == o + Len(FloatListText(xs))
<1>13. FloatListAt(o + 1, m) = IF lists = {} THEN Bad ELSE Read(list.end + 1, list.val)
  BY DEF FloatListAt
<1>14. E[m] \in Nat /\ E[m] + 1 = e /\ At(E[m] + 1) = (IF E[m] + 1 <= n THEN ")" ELSE EOF) /\ EOF # ")"
  <2>1. m \in 0 .. m /\ m # 0 /\ ~ (m < m)
    BY <1>2
  <2> QED BY <1>6, <2>1 DEF Separator, EOF
<1>15. CASE Good(m)
  <2> DEFINE read == Read(E[m] + 1, Got(m))
  <2>1. read.end = e /\ read.val = Got(m) /\ f[m] = {read} /\ All(m)
    BY <1>14, <1>15, ReadNotBad
  <2> HIDE DEF read
  <2>2. lists = IF At(e) = ")" THEN {read} ELSE {}
    BY <1>4, <2>1
  <2> HIDE DEF lists
  <2>3. lists # {} => list = read
    BY <2>2
  <2> HIDE DEF list, e
  <2>4. FloatListAt(o + 1, m) = IF At(e) = ")" THEN Read(e + 1, Got(m)) ELSE Bad
    BY <1>13, <2>1, <2>2, <2>3
  <2>5. At(e) = ")" <=> e <= n
    BY <1>14
  <2> QED BY <1>1, <1>2, <2>1, <2>4, <2>5 DEF Got, e
<1>16. CASE Fail(m)
  <2>1. lists = {}
    <3>1. \A r \in f[m] : At(r.end) # ")"
      BY <1>16 DEF EOF
    <3> QED BY <1>4, <3>1
  <2>2. FloatListAt(o + 1, m) = Bad
    BY <1>13, <2>1
  <2>3. ~ (e <= n /\ \A i \in DOMAIN xs : WholeTextIsNumber(FloatVal(xs[i])))
    <3>1. e <= n => E[m] <= n
      BY <1>2, <1>14
    <3> QED BY <1>2, <1>16, <3>1
  <2> QED BY <1>1, <2>2, <2>3
<1> QED BY <1>12, <1>15, <1>16

\* No keyword from behind a to b is across the end of a buffer.
KeywordsIn(a, b) == \A p \in a + 1 .. b : At(p) \in Keywords /\ At(p + 1) = "~" => SameBuffer(p, p + 1)

\* What parser_parse_value makes of what begins with no keyword.
LEMMA NoKeyword ==
  ASSUME NEW p, At(p) \notin Keywords
  PROVE  /\ PlainAt(p) = IF At(p) = "\"" THEN As(QuotedAt(p), "string", "str")
                         ELSE IF IsDigit(At(p)) \/ At(p) = "-" THEN ReadNumber(input, p) ELSE Bad
         /\ At(p) \notin {"[", "{"} => ContainerAt(p) = Bad
         /\ At(p) = "[" => ContainerAt(p) = Read(p + 1, Blank("array"))
         /\ At(p) = "{" => ContainerAt(p) = Read(p + 1, Blank("object"))
<1>1. \A word : KeywordAt(p, word) => word \notin Keywords
  BY DEF KeywordAt
<1>2. {"null", "true", "false", "asset", "external", "subresource"} \cup Vectors \subseteq Keywords
  BY DEF Keywords
<1>3. /\ ~ KeywordAt(p, "null") /\ ~ KeywordAt(p, "true") /\ ~ KeywordAt(p, "false")
      /\ ~ KeywordAt(p, "asset") /\ ~ KeywordAt(p, "external") /\ ~ KeywordAt(p, "subresource")
      /\ ~ \E t \in Vectors : KeywordAt(p, t)
  BY <1>1, <1>2
<1>4. PlainAt(p) = IF At(p) = "\"" THEN As(QuotedAt(p), "string", "str")
                   ELSE IF IsDigit(At(p)) \/ At(p) = "-" THEN ReadNumber(input, p) ELSE Bad
  <2> DEFINE a == Read(p + 2, NullValue)
             b == Read(p + 2, Bool(TRUE))
             c == Read(p + 2, Bool(FALSE))
             d == As(FloatListAt(p + 2, VectorSize[At(p)]), At(p), "xs")
             f == As(ReferenceAt(p + 2), "asset_ref", "str")
             g == As(ReferenceAt(p + 2), "resource_ref", "str")
             h == As(QuotedAt(p), "string", "str")
             r == ReadNumber(input, p)
             V == \E t \in Vectors : KeywordAt(p, t)
             D == IsDigit(At(p)) \/ At(p) = "-"
             kn == KeywordAt(p, "null")
             kt == KeywordAt(p, "true")
             kf == KeywordAt(p, "false")
             ka == KeywordAt(p, "asset")
             ke == KeywordAt(p, "external")
  <2>1. PlainAt(p) = CASE kn -> a [] kt -> b [] kf -> c [] V -> d
                       [] ka -> f [] ke -> g [] At(p) = "\"" -> h [] D -> r
                       [] OTHER -> Bad
    BY DEF PlainAt
  <2>2. ~ kn /\ ~ kt /\ ~ kf /\ ~ V /\ ~ ka /\ ~ ke
    BY <1>3
  <2>4. ~ (At(p) = "\"" /\ D)
    BY FollowApart, DigitsApart DEF IsDigit
  <2> HIDE DEF a, b, c, d, f, g, h, r, V, D, kn, kt, kf, ka, ke
  <2>3. PlainAt(p) = IF At(p) = "\"" THEN h ELSE IF D THEN r ELSE Bad
    BY <2>1, <2>2, <2>4
  <2> QED BY <2>3 DEF h, D, r
<1>5. /\ At(p) \notin {"[", "{"} => ContainerAt(p) = Bad
      /\ At(p) = "[" => ContainerAt(p) = Read(p + 1, Blank("array"))
      /\ At(p) = "{" => ContainerAt(p) = Read(p + 1, Blank("object"))
  BY <1>3 DEF ContainerAt
<1> QED BY <1>4, <1>5

\* What it makes of what begins with one.
LEMMA SomeKeyword ==
  ASSUME NEW p, At(p) \in Keywords
  PROVE  /\ ~ KeywordAt(p, At(p)) => PlainAt(p) = Bad /\ ContainerAt(p) = Bad
         /\ KeywordAt(p, At(p)) =>
              /\ At(p) = "null" => PlainAt(p) = Read(p + 2, NullValue)
              /\ At(p) = "true" => PlainAt(p) = Read(p + 2, Bool(TRUE))
              /\ At(p) = "false" => PlainAt(p) = Read(p + 2, Bool(FALSE))
              /\ At(p) \in Vectors => PlainAt(p) = As(FloatListAt(p + 2, VectorSize[At(p)]), At(p), "xs")
              /\ At(p) = "asset" => PlainAt(p) = As(ReferenceAt(p + 2), "asset_ref", "str")
              /\ At(p) = "external" => PlainAt(p) = As(ReferenceAt(p + 2), "resource_ref", "str")
              /\ At(p) = "subresource" => PlainAt(p) = Bad
              /\ At(p) # "subresource" => ContainerAt(p) = Bad
              /\ At(p) = "subresource" =>
                   ContainerAt(p) = IF At(p + 2) \in Identifiers /\ At(p + 3) = "{"
                                    THEN Read(p + 4, [Blank("subresource") EXCEPT !.name = At(p + 2)]) ELSE Bad
<1>1. \A word : KeywordAt(p, word) <=> word = At(p) /\ KeywordAt(p, At(p))
  BY DEF KeywordAt
<1>2. At(p) \notin {"\"", "-", "[", "{"} /\ ~ IsDigit(At(p))
  <2>1. \A d \in Range(Digits) : d \notin Keywords
    BY DigitsApart
  <2>2. {"\"", "-", "[", "{"} \cap Keywords = {}
    BY DEF Keywords, Vectors, VectorSize
  <2> QED BY <2>1, <2>2 DEF IsDigit
<1>3. \A w \in {"null", "true", "false", "asset", "external", "subresource"} : w \notin Vectors
  BY DEF Vectors, VectorSize
<1>4. (\E t \in Vectors : KeywordAt(p, t)) <=> At(p) \in Vectors /\ KeywordAt(p, At(p))
  BY <1>1
<1> DEFINE list == As(FloatListAt(p + 2, VectorSize[At(p)]), At(p), "xs")
           asset == As(ReferenceAt(p + 2), "asset_ref", "str")
           external == As(ReferenceAt(p + 2), "resource_ref", "str")
           sub == Read(p + 4, [Blank("subresource") EXCEPT !.name = At(p + 2)])
           a == Read(p + 2, NullValue)
           b == Read(p + 2, Bool(TRUE))
           c == Read(p + 2, Bool(FALSE))
           h == As(QuotedAt(p), "string", "str")
           r == ReadNumber(input, p)
           V == \E t \in Vectors : KeywordAt(p, t)
           D == IsDigit(At(p)) \/ At(p) = "-"
           kn == KeywordAt(p, "null")
           kt == KeywordAt(p, "true")
           kf == KeywordAt(p, "false")
           ka == KeywordAt(p, "asset")
           ke == KeywordAt(p, "external")
           ks == KeywordAt(p, "subresource")
           k  == KeywordAt(p, At(p))
<1>5. PlainAt(p) = CASE kn -> a [] kt -> b [] kf -> c [] V -> list [] ka -> asset [] ke -> external
                     [] At(p) = "\"" -> h [] D -> r [] OTHER -> Bad
  BY DEF PlainAt
<1>6. ContainerAt(p) = IF ks /\ At(p + 2) \in Identifiers /\ At(p + 3) = "{" THEN sub ELSE Bad
  BY <1>2 DEF ContainerAt
<1>7. /\ (kn <=> k /\ At(p) = "null") /\ (kt <=> k /\ At(p) = "true") /\ (kf <=> k /\ At(p) = "false")
      /\ (ka <=> k /\ At(p) = "asset") /\ (ke <=> k /\ At(p) = "external")
      /\ (ks <=> k /\ At(p) = "subresource") /\ (V <=> k /\ At(p) \in Vectors)
      /\ ~ D /\ ~ (At(p) = "\"")
  BY <1>1, <1>2, <1>4
<1>8. {kn, kt, kf, ka, ke, ks, k, V, D} \subseteq BOOLEAN
  BY DEF KeywordAt
<1> HIDE DEF list, asset, external, sub, a, b, c, h, r, V, D, kn, kt, kf, ka, ke, ks, k
<1>9. ~ k => PlainAt(p) = Bad /\ ContainerAt(p) = Bad
  BY <1>5, <1>6, <1>7, <1>8
<1>10. k /\ At(p) = "null" => PlainAt(p) = a
  BY <1>3, <1>5, <1>7, <1>8
<1>11. k /\ At(p) = "true" => PlainAt(p) = b
  BY <1>3, <1>5, <1>7, <1>8
<1>12. k /\ At(p) = "false" => PlainAt(p) = c
  BY <1>3, <1>5, <1>7, <1>8
<1>13. k /\ At(p) = "asset" => PlainAt(p) = asset
  BY <1>3, <1>5, <1>7, <1>8
<1>14. k /\ At(p) = "external" => PlainAt(p) = external
  BY <1>3, <1>5, <1>7, <1>8
<1>15. k /\ At(p) = "subresource" => PlainAt(p) = Bad
  BY <1>3, <1>5, <1>7, <1>8
<1>16. k /\ At(p) \in Vectors => PlainAt(p) = list
  BY <1>3, <1>5, <1>7, <1>8
<1>17. /\ At(p) # "subresource" => ContainerAt(p) = Bad
       /\ k /\ At(p) = "subresource" =>
            ContainerAt(p) = IF At(p + 2) \in Identifiers /\ At(p + 3) = "{" THEN sub ELSE Bad
  BY <1>6, <1>7, <1>8
<1> QED BY <1>9, <1>10, <1>11, <1>12, <1>13, <1>14, <1>15, <1>16, <1>17
        DEF k, a, b, c, list, asset, external, sub

\* Where no keyword is written, none is cut.
LEMMA BareSeen ==
  ASSUME NEW t \in Seq(Bare), NEW o \in Nat, Sees(o, t)
  PROVE  KeywordsIn(o, o + Len(t)) /\ \A p \in o + 1 .. o + Len(t) : At(p) \notin Keywords
<1>1. EOF \notin Keywords
  BY DEF Keywords, Vectors, VectorSize, EOF
<1>2. \A i \in 1 .. Len(t) : t[i] \notin Keywords
  BY BareJoined
<1>3. \A p \in o + 1 .. o + Len(t) : At(p) \notin Keywords
  <2> SUFFICES ASSUME NEW p \in o + 1 .. o + Len(t)  PROVE At(p) \notin Keywords
    OBVIOUS
  <2>1. p - o \in 1 .. Len(t) /\ o + (p - o) = p
    <3>1. Len(t) \in Nat
      OBVIOUS
    <3> QED BY <3>1
  <2>2. At(p) = IF p <= Len(input) THEN t[p - o] ELSE EOF
    BY <2>1 DEF Sees
  <2> QED BY <1>1, <1>2, <2>1, <2>2
<1> QED BY <1>3 DEF KeywordsIn

\* A keyword and what is written behind it.
LEMMA KeywordSeen ==
  ASSUME input \in Seq(Signs), NEW w \in Keywords, NEW t \in Seq(Bare), NEW o \in 0 .. Len(input),
         Sees(o, Keyword(w) \o t)
  PROVE  LET e == o + Len(Keyword(w) \o t) IN
         /\ Keyword(w) \o t \in Seq(Signs) /\ Len(Keyword(w) \o t) = 2 + Len(t) /\ (Keyword(w) \o t)[1] = w
         /\ Sees(o + 2, t) /\ e = (o + 2) + Len(t) /\ Len(t) \in Nat
         /\ KeywordAt(o + 1, w) => At(o + 1) = w /\ o + 2 \in 0 .. Len(input) /\ KeywordsIn(o, e)
         /\ ~ KeywordAt(o + 1, w) => /\ PlainAt(o + 1) = Bad /\ ContainerAt(o + 1) = Bad
                                     /\ ~ (e <= Len(input) /\ KeywordsIn(o, e))
<1>1. PICK n : n = Len(input)
  OBVIOUS
<1>2. n \in Nat /\ o \in Nat /\ o <= n
  BY <1>1
<1>3. /\ Keyword(w) \in Seq(Signs) /\ t \in Seq(Signs)
      /\ Keyword(w) = <<w, "~">> /\ Len(Keyword(w)) = 2 /\ Keyword(w)[1] = w
  <2>1. w \in Signs /\ "~" \in Signs
    BY DEF Signs, Marks
  <2> QED BY <2>1, SignsJoined, BareJoined DEF Keyword
<1>4. Sees(o, Keyword(w)) /\ Sees(o + 2, t) /\ Len(Keyword(w) \o t) = 2 + Len(t) /\ Len(t) \in Nat
  BY <1>2, <1>3, SeesBoth
<1>5. Keyword(w) \o t \in Seq(Signs) /\ (Keyword(w) \o t)[1] = w
  <2>1. Keyword(w) \o t \in Seq(Signs) /\ \A j \in 1 .. 2 : (Keyword(w) \o t)[j] = Keyword(w)[j]
    BY <1>3, Concatenated
  <2> QED BY <1>3, <2>1
<1>6. /\ At(o + 1) = IF o + 1 <= n THEN w ELSE EOF
      /\ At(o + 2) = IF o + 2 <= n THEN "~" ELSE EOF
  BY <1>1, <1>2, <1>3, <1>4, SeesTwo
<1>7. PICK e : e = o + Len(Keyword(w) \o t)
  OBVIOUS
<1>8. e = (o + 2) + Len(t) /\ e \in Nat /\ o + 2 <= e
  BY <1>2, <1>4, <1>7
<1>9. EOF \notin Keywords /\ "~" \notin Keywords /\ "~" # EOF /\ (o + 1) + 1 = o + 2
  BY <1>2 DEF Keywords, Vectors, VectorSize, EOF
<1>10. KeywordsIn(o, e) <=> (At(o + 1) = w /\ At(o + 2) = "~" => SameBuffer(o + 1, o + 2))
  <2>1. o + 1 \in o + 1 .. e /\ \A p \in o + 1 .. e : p = o + 1 \/ p = o + 2 \/ p \in (o + 2) + 1 .. (o + 2) + Len(t)
    BY <1>2, <1>4, <1>8
  <2>2. \A p \in (o + 2) + 1 .. (o + 2) + Len(t) : At(p) \notin Keywords
    BY <1>2, <1>4, BareSeen
  <2>3. At(o + 2) \notin Keywords /\ At(o + 1) \in {w, EOF}
    BY <1>6, <1>9
  <2> QED BY <1>9, <2>1, <2>2, <2>3 DEF KeywordsIn
<1>11. ASSUME KeywordAt(o + 1, w)  PROVE At(o + 1) = w /\ o + 2 \in 0 .. n /\ KeywordsIn(o, e)
  <2>1. At(o + 1) = w /\ At(o + 2) = "~" /\ SameBuffer(o + 1, o + 2)
    BY <1>9, <1>11 DEF KeywordAt
  <2> QED BY <1>2, <1>6, <1>9, <1>10, <2>1
<1>12. ASSUME ~ KeywordAt(o + 1, w)
       PROVE  PlainAt(o + 1) = Bad /\ ContainerAt(o + 1) = Bad /\ ~ (e <= n /\ KeywordsIn(o, e))
  <2>1. CASE o + 1 <= n
    <3>1. At(o + 1) = w /\ At(o + 1) \in Keywords
      BY <1>6, <2>1
    <3>2. ~ (At(o + 2) = "~" /\ SameBuffer(o + 1, o + 2))
      BY <1>9, <1>12, <3>1 DEF KeywordAt
    <3>3. e <= n => At(o + 2) = "~"
      BY <1>2, <1>6, <1>8
    <3> QED BY <1>10, <1>12, <3>1, <3>2, <3>3, SomeKeyword
  <2>2. CASE ~ (o + 1 <= n)
    <3>1. At(o + 1) = EOF /\ EOF \notin {"\"", "-", "[", "{"} /\ ~ IsDigit(EOF)
      BY <1>6, <2>2, FollowApart DEF EOF
    <3>2. ~ (e <= n)
      BY <1>2, <1>8, <2>2
    <3> QED BY <1>9, <3>1, <3>2, NoKeyword
  <2> QED BY <2>1, <2>2
<1> QED BY <1>1, <1>4, <1>5, <1>7, <1>8, <1>11, <1>12

\* What parser_parse_value makes of the text of the plain value v between o and
\* e: what is kept of it, if all of it arrived, is in the grammar and has no
\* keyword that is cut in two; else an error, or a number that is cut.
Arrives(v, o, e) == e <= Len(input) /\ Readable[v] /\ KeywordsIn(o, e)
ReadsPlain(r, v, o, e) ==
  \/ Arrives(v, o, e) /\ r = Read(e + 1, Kept[v])
  \/ ~ Arrives(v, o, e) /\ r = Bad
  \/ /\ r = Read(r.end, r.val) /\ v.type \in Numbers /\ r.val.type \in Numbers
     /\ \/ At(r.end) = EOF /\ e > Len(input)
        \/ At(r.end) = "e" /\ At(r.end + 1) \in {"-", "+", EOF} /\ ~ Readable[v]

\* The types of values are apart.
LEMMA TypesApart ==
  /\ \A t \in Numbers : t \notin {"null", "bool", "string", "array"} \cup StringTypes \cup Vectors \cup Containers
  /\ \A t \in StringTypes : t \notin {"null", "bool", "array"} \cup Vectors \cup Containers
  /\ \A t \in Vectors : t \notin {"null", "bool", "array"} \cup Containers
  /\ \A t \in {"null", "bool"} : t \notin Containers
  /\ \A t \in ObjectTypes : t # "array"
BY DEF Numbers, StringTypes, Vectors, VectorSize, Containers, ObjectTypes

\* The three functions on a plain value.
LEMMA PlainUnfolded ==
  ASSUME NEW v \in Values, v.type \in PlainTypes
  PROVE  /\ PlainOK(v)
         /\ v.type = "null" => v = NullValue /\ ValueText[v] = Keyword("null") /\ Kept[v] = v /\ Readable[v] = TRUE
         /\ v.type = "bool" => /\ v = Bool(v.flag) /\ v.flag \in BOOLEAN
                               /\ ValueText[v] = Keyword(IF v.flag THEN "true" ELSE "false")
                               /\ Kept[v] = v /\ Readable[v] = TRUE
         /\ v.type \in Numbers => /\ ValueText[v] = NumberText(v) /\ Kept[v] = Reread(v)
                                  /\ Readable[v] = WholeTextIsNumber(v)
         /\ v.type \in Vectors => /\ ValueText[v] = Keyword(v.type) \o FloatListText(v.xs)
                                  /\ Kept[v] = [type |-> v.type, xs |-> [i \in DOMAIN v.xs |-> Component(v.xs[i])]]
                                  /\ Readable[v] = \A i \in DOMAIN v.xs : WholeTextIsNumber(FloatVal(v.xs[i]))
         /\ v.type \in StringTypes => /\ v.str \in Seq(Characters) \cup {NULL} /\ Readable[v] = TRUE
                                      /\ Kept[v] = [type |-> v.type, str |-> Stored(v.str)]
         /\ v.type = "string" => ValueText[v] = Quoted(v.str)
         /\ v.type = "asset_ref" => ValueText[v] = (Keyword("asset") \o <<"(">> \o Quoted(v.str)) \o <<")">>
         /\ v.type = "resource_ref" => ValueText[v] = (Keyword("external") \o <<"(">> \o Quoted(v.str)) \o <<")">>
<1> DEFINE B == OfMembers(v, ValueText)
           K == OfMembers(v, Kept)
           R == OfMembers(v, Readable)
<1>1. ValueText[v] = Rendered(v, B) /\ Kept[v] = KeptOf(v, K) /\ Readable[v] = ReadableOf(v, R)
  BY Unfolded
<1> HIDE DEF B, K, R
<1>2. PlainOK(v) /\ v.type \notin Containers /\ v.type # "array" /\ v.type \notin ObjectTypes
  BY TextAssumption, TypesApart DEF PlainTypes, Containers
<1>3. v.type = "null" => v = NullValue /\ ValueText[v] = Keyword("null") /\ Kept[v] = v /\ Readable[v] = TRUE
  BY <1>1, <1>2, TypesApart DEF PlainOK, Rendered, KeptOf, ReadableOf
<1>4. v.type = "bool" => /\ v = Bool(v.flag) /\ v.flag \in BOOLEAN
                         /\ ValueText[v] = Keyword(IF v.flag THEN "true" ELSE "false")
                         /\ Kept[v] = v /\ Readable[v] = TRUE
  BY <1>1, <1>2, TypesApart DEF PlainOK, Rendered, KeptOf, ReadableOf
<1>5. v.type \in Numbers => /\ ValueText[v] = NumberText(v) /\ Kept[v] = Reread(v)
                            /\ Readable[v] = WholeTextIsNumber(v)
  <2>1. v.type \in Numbers => v.type \notin {"null", "bool", "string", "array", "asset_ref", "resource_ref"}
                             /\ v.type \notin Vectors /\ v.type \notin ObjectTypes
    BY <1>2, TypesApart DEF StringTypes
  <2>2. v.type \in Numbers => ValueText[v] = NumberText(v)
    BY <1>1, <2>1 DEF Rendered
  <2> QED BY <1>1, <1>2, <2>1, <2>2, TypesApart DEF KeptOf, ReadableOf
<1>6. v.type \in Vectors => /\ ValueText[v] = Keyword(v.type) \o FloatListText(v.xs)
                            /\ Kept[v] = [type |-> v.type, xs |-> [i \in DOMAIN v.xs |-> Component(v.xs[i])]]
                            /\ Readable[v] = \A i \in DOMAIN v.xs : WholeTextIsNumber(FloatVal(v.xs[i]))
  <2> SUFFICES ASSUME v.type \in Vectors
               PROVE  /\ ValueText[v] = Keyword(v.type) \o FloatListText(v.xs)
                      /\ Kept[v] = [type |-> v.type, xs |-> [i \in DOMAIN v.xs |-> Component(v.xs[i])]]
                      /\ Readable[v] = \A i \in DOMAIN v.xs : WholeTextIsNumber(FloatVal(v.xs[i]))
    OBVIOUS
  <2>1. ValueText[v] = Keyword(v.type) \o FloatListText(v.xs)
    <3>1. v.type \notin {"null", "bool", "string", "array", "asset_ref", "resource_ref"} /\ v.type \notin Numbers
      BY <1>2, TypesApart DEF StringTypes
    <3> QED BY <1>1, <1>2, <3>1 DEF Rendered
  <2>2. Readable[v] = \A i \in DOMAIN v.xs : WholeTextIsNumber(FloatVal(v.xs[i]))
    BY <1>1, <1>2, TypesApart DEF ReadableOf
  <2>3. PICK t, x, y : t = v.type /\ x = v.xs /\ y = [i \in DOMAIN v.xs |-> Component(v.xs[i])]
    OBVIOUS
  <2>4. v = [type |-> t, xs |-> x]
    BY <1>2, <2>3 DEF PlainOK
  <2>5. Kept[v] = [v EXCEPT !.xs = y]
    BY <1>1, <1>2, <2>3, TypesApart DEF KeptOf, Component
  <2>6. [v EXCEPT !.xs = y] = [type |-> t, xs |-> y]
    BY <2>4
  <2> QED BY <2>1, <2>2, <2>3, <2>5, <2>6
<1>7. v.type \in StringTypes => /\ v.str \in Seq(Characters) \cup {NULL} /\ Readable[v] = TRUE
                                /\ Kept[v] = [type |-> v.type, str |-> Stored(v.str)]
  <2> SUFFICES ASSUME v.type \in StringTypes
               PROVE  /\ v.str \in Seq(Characters) \cup {NULL} /\ Readable[v] = TRUE
                      /\ Kept[v] = [type |-> v.type, str |-> Stored(v.str)]
    OBVIOUS
  <2>1. Readable[v] = TRUE /\ v.str \in Seq(Characters) \cup {NULL}
    BY <1>1, <1>2, TypesApart DEF ReadableOf, PlainOK
  <2>2. PICK t, s : t = v.type /\ s = v.str
    OBVIOUS
  <2>3. v = [type |-> t, str |-> s]
    BY <1>2, <2>2 DEF PlainOK
  <2>4. Kept[v] = IF s = NULL THEN [v EXCEPT !.str = <<>>] ELSE v
    BY <1>1, <1>2, <2>2, TypesApart DEF KeptOf
  <2>5. [v EXCEPT !.str = <<>>] = [type |-> t, str |-> <<>>]
    BY <2>3
  <2> QED BY <2>1, <2>2, <2>3, <2>4, <2>5 DEF Stored
<1>8. v.type = "string" => ValueText[v] = Quoted(v.str)
  BY <1>1, <1>2, TypesApart DEF Rendered, StringTypes
<1>9. v.type = "asset_ref" => ValueText[v] = (Keyword("asset") \o <<"(">> \o Quoted(v.str)) \o <<")">>
  BY <1>1, <1>2, TypesApart DEF Rendered, StringTypes
<1>10. v.type = "resource_ref" => ValueText[v] = (Keyword("external") \o <<"(">> \o Quoted(v.str)) \o <<")">>
  BY <1>1, <1>2, TypesApart DEF Rendered, StringTypes
<1> QED BY <1>2, <1>3, <1>4, <1>5, <1>6, <1>7, <1>8, <1>9, <1>10

\* Where no number begins, none is read.
LEMMA NoNumber ==
  ASSUME input \in Seq(Signs), NEW o \in 0 .. Len(input), ~ IsDigit(At(o + 1)), At(o + 1) # "-"
  PROVE  ReadNumber(input, o + 1) = Bad
<1>1. Len(input) \in Nat /\ o \in Nat /\ o <= Len(input) /\ DigitsFrom(o) = o + 1
  BY DEF DigitsFrom
<1>2. PICK ds \in Seq(Range(Digits)) : ds = <<>>
  <2>1. \A S : <<>> \in Seq(S)
    OBVIOUS
  <2> QED BY <2>1
<1>3. Len(ds) = 0 /\ Sees(o, ds) /\ o + Len(ds) = o
  BY <1>1, <1>2 DEF Sees
<1>4. DigitsEnd(input, o + 1) = (o + Len(ds)) + 1
  BY <1>1, <1>3, DigitsRun
<1> QED BY <1>1, <1>3, <1>4, NumberArms DEF DigitsTo

\* A value that begins with a keyword.
LEMMA WordsRead ==
  ASSUME input \in Seq(Signs), NEW v \in Values, NEW o \in 0 .. Len(input), Sees(o, ValueText[v]),
         NEW e, e = o + Len(ValueText[v]),
         NEW w \in Keywords, w # "subresource", NEW t \in Seq(Bare), ValueText[v] = Keyword(w) \o t,
         KeywordAt(o + 1, w) =>
           PlainAt(o + 1) = IF e <= Len(input) /\ Readable[v] THEN Read(e + 1, Kept[v]) ELSE Bad
  PROVE  ContainerAt(o + 1) = Bad /\ ReadsPlain(PlainAt(o + 1), v, o, e)
<1>1. /\ KeywordAt(o + 1, w) => At(o + 1) = w /\ KeywordsIn(o, e)
      /\ ~ KeywordAt(o + 1, w) => /\ PlainAt(o + 1) = Bad /\ ContainerAt(o + 1) = Bad
                                  /\ ~ (e <= Len(input) /\ KeywordsIn(o, e))
  BY KeywordSeen
<1>2. CASE KeywordAt(o + 1, w)
  <2>1. ContainerAt(o + 1) = Bad
    BY <1>1, <1>2, SomeKeyword
  <2>2. Arrives(v, o, e) <=> e <= Len(input) /\ Readable[v]
    BY <1>1, <1>2 DEF Arrives
  <2> QED BY <1>2, <2>1, <2>2 DEF ReadsPlain
<1>3. CASE ~ KeywordAt(o + 1, w)
  BY <1>1, <1>3 DEF Arrives, ReadsPlain
<1> QED BY <1>2, <1>3

\* What is read is stored with its type.
LEMMA AsIs ==
  /\ \A type, field : As(Bad, type, field) = Bad
  /\ \A e, x, type : As(Read(e, x), type, "xs") = Read(e, [type |-> type, xs |-> x])
  /\ \A e, x, type : As(Read(e, x), type, "str") = Read(e, [type |-> type, str |-> x])
<1>1. \A x, type : [f \in {"type", "xs"} |-> IF f = "type" THEN type ELSE x] = [type |-> type, xs |-> x]
  OBVIOUS
<1>2. \A x, type : [f \in {"type", "str"} |-> IF f = "type" THEN type ELSE x] = [type |-> type, str |-> x]
  OBVIOUS
<1>3. \A e, x, type : As(Read(e, x), type, "xs") = Read(e, [f \in {"type", "xs"} |-> IF f = "type" THEN type ELSE x])
  BY ReadNotBad DEF As
<1>4. \A e, x, type : As(Read(e, x), type, "str") = Read(e, [f \in {"type", "str"} |-> IF f = "type" THEN type ELSE x])
  BY ReadNotBad DEF As
<1>5. \A type, field : As(Bad, type, field) = Bad
  BY DEF As
<1> QED BY <1>1, <1>2, <1>3, <1>4, <1>5

\* null, true and false.
LEMMA SimpleRead ==
  ASSUME input \in Seq(Signs), NEW v \in Values, v.type \in {"null", "bool"},
         NEW o \in 0 .. Len(input), Sees(o, ValueText[v]), NEW e, e = o + Len(ValueText[v])
  PROVE  ContainerAt(o + 1) = Bad /\ ReadsPlain(PlainAt(o + 1), v, o, e)
<1>1. v.type \in PlainTypes
  BY DEF PlainTypes
<1>2. PICK w \in {"null", "true", "false"} :
        /\ ValueText[v] = Keyword(w) /\ Kept[v] = v /\ Readable[v] = TRUE
        /\ v = IF w = "null" THEN NullValue ELSE Bool(w = "true")
  <2>1. CASE v.type = "null"
    BY <1>1, <2>1, PlainUnfolded
  <2>2. CASE v.type = "bool"
    <3>1. /\ v = Bool(v.flag) /\ v.flag \in BOOLEAN
          /\ ValueText[v] = Keyword(IF v.flag THEN "true" ELSE "false") /\ Kept[v] = v /\ Readable[v] = TRUE
      BY <1>1, <2>2, PlainUnfolded
    <3>2. CASE v.flag = TRUE
      BY <3>1, <3>2
    <3>3. CASE v.flag = FALSE
      BY <3>1, <3>3
    <3> QED BY <3>1, <3>2, <3>3
  <2> QED BY <2>1, <2>2
<1>3. w \in Keywords /\ w # "subresource" /\ Keyword(w) = <<w, "~">>
  BY DEF Keywords, Keyword
<1>4. PICK t \in Seq(Bare) : t = <<>>
  BY BareJoined
<1>5. Keyword(w) \o t = Keyword(w) /\ Len(Keyword(w)) = 2
  BY <1>3, <1>4
<1>6. Len(input) \in Nat /\ o \in Nat /\ o <= Len(input) /\ e = o + 2 /\ e + 1 = (o + 1) + 2
  BY <1>2, <1>5
<1>7. Sees(o, Keyword(w) \o t)
  BY <1>2, <1>5
<1>8. ASSUME KeywordAt(o + 1, w)
      PROVE  PlainAt(o + 1) = IF e <= Len(input) /\ Readable[v] THEN Read(e + 1, Kept[v]) ELSE Bad
  <2>1. At(o + 1) = w /\ o + 2 \in 0 .. Len(input)
    BY <1>3, <1>7, <1>8, KeywordSeen
  <2>2. PlainAt(o + 1) = Read((o + 1) + 2, v)
    BY <1>2, <1>3, <1>8, <2>1, SomeKeyword
  <2> QED BY <1>2, <1>6, <2>1, <2>2
<1> QED BY <1>2, <1>3, <1>5, <1>8, WordsRead

\* Vectors, which have at least two components.
LEMMA VectorsRead ==
  ASSUME input \in Seq(Signs), NEW v \in Values, v.type \in Vectors,
         NEW o \in 0 .. Len(input), Sees(o, ValueText[v]), NEW e, e = o + Len(ValueText[v])
  PROVE  ContainerAt(o + 1) = Bad /\ ReadsPlain(PlainAt(o + 1), v, o, e)
<1>1. v.type \in PlainTypes
  BY DEF PlainTypes
<1>2. PICK w, xs, y : w = v.type /\ xs = v.xs /\ y = [i \in DOMAIN v.xs |-> Component(v.xs[i])]
  OBVIOUS
<1>3. /\ ValueText[v] = Keyword(w) \o FloatListText(xs) /\ Kept[v] = [type |-> w, xs |-> y]
      /\ Readable[v] = \A i \in DOMAIN xs : WholeTextIsNumber(FloatVal(xs[i]))
      /\ xs \in Seq(Decimals) /\ Len(xs) = VectorSize[w] /\ w \in Vectors
  BY <1>1, <1>2, PlainUnfolded DEF PlainOK
<1>4. w \in Keywords /\ w # "subresource" /\ xs # <<>>
  <2>1. \A t \in Vectors : t \in Keywords /\ t # "subresource" /\ VectorSize[t] # 0
    BY DEF Keywords, Vectors, VectorSize
  <2>2. xs = <<>> => Len(xs) = 0
    OBVIOUS
  <2> QED BY <1>3, <2>1, <2>2
<1>5. PICK t \in Seq(Bare) : t = FloatListText(xs)
  BY <1>3, StringsTyped
<1>6. Sees(o, Keyword(w) \o t)
  BY <1>3, <1>5
<1>7. Sees(o + 2, t) /\ e = (o + 2) + Len(t)
  <2>1. Sees(o + 2, t) /\ o + Len(Keyword(w) \o t) = (o + 2) + Len(t)
    BY <1>4, <1>6, KeywordSeen
  <2> QED BY <1>3, <1>5, <2>1
<1>8. ASSUME KeywordAt(o + 1, w)
      PROVE  PlainAt(o + 1) = IF e <= Len(input) /\ Readable[v] THEN Read(e + 1, Kept[v]) ELSE Bad
  <2>1. At(o + 1) = w /\ o + 2 \in 0 .. Len(input) /\ (o + 1) + 2 = (o + 2) + 1
    BY <1>4, <1>6, <1>8, KeywordSeen
  <2>2. PlainAt(o + 1) = As(FloatListAt((o + 1) + 2, VectorSize[w]), w, "xs")
    BY <1>3, <1>4, <1>8, <2>1, SomeKeyword
  <2>3. FloatListAt((o + 2) + 1, Len(xs)) =
          IF e <= Len(input) /\ \A i \in DOMAIN xs : WholeTextIsNumber(FloatVal(xs[i]))
          THEN Read(e + 1, [i \in DOMAIN xs |-> Component(xs[i])]) ELSE Bad
    BY <1>3, <1>4, <1>5, <1>7, <2>1, ListsRead
  <2>4. FloatListAt((o + 2) + 1, Len(xs)) = IF e <= Len(input) /\ Readable[v] THEN Read(e + 1, y) ELSE Bad
    BY <1>2, <1>3, <2>3
  <2>5. PICK all \in BOOLEAN : all <=> (e <= Len(input) /\ Readable[v])
    OBVIOUS
  <2>6. CASE all
    <3>1. PlainAt(o + 1) = As(Read(e + 1, y), w, "xs")
      BY <1>3, <2>1, <2>2, <2>4, <2>5, <2>6
    <3> QED BY <1>3, <2>5, <2>6, <3>1, AsIs
  <2>7. CASE ~ all
    <3>1. PlainAt(o + 1) = As(Bad, w, "xs")
      BY <1>3, <2>1, <2>2, <2>4, <2>5, <2>7
    <3> QED BY <2>5, <2>7, <3>1, AsIs
  <2> QED BY <2>6, <2>7
<1> QED BY <1>3, <1>4, <1>5, <1>8, WordsRead

\* References.
LEMMA RefsRead ==
  ASSUME input \in Seq(Signs), NEW v \in Values, v.type \in {"asset_ref", "resource_ref"},
         NEW o \in 0 .. Len(input), Sees(o, ValueText[v]), NEW e, e = o + Len(ValueText[v])
  PROVE  ContainerAt(o + 1) = Bad /\ ReadsPlain(PlainAt(o + 1), v, o, e)
<1>1. v.type \in PlainTypes /\ v.type \in StringTypes
  BY DEF PlainTypes, StringTypes
<1>2. PICK str, q : str = v.str /\ q = Quoted(v.str)
  OBVIOUS
<1>3. str \in Seq(Characters) \cup {NULL} /\ q \in Seq(Bare) /\ Kept[v] = [type |-> v.type, str |-> Stored(str)]
      /\ Readable[v] = TRUE
  BY <1>1, <1>2, PlainUnfolded, StringsTyped
<1>4. PICK w \in {"asset", "external"} :
        /\ ValueText[v] = (Keyword(w) \o <<"(">> \o q) \o <<")">>
        /\ w = "asset" <=> v.type = "asset_ref"
        /\ w = "external" <=> v.type = "resource_ref"
  BY <1>1, <1>2, PlainUnfolded
<1>5. w \in Keywords /\ w # "subresource" /\ <<"(">> \in Seq(Bare) /\ <<")">> \in Seq(Bare)
      /\ Keyword(w) \in Seq(Signs) /\ <<"(">> \in Seq(Signs) /\ <<")">> \in Seq(Signs) /\ q \in Seq(Signs)
  <2>1. w \in Keywords /\ w # "subresource" /\ Keyword(w) = <<w, "~">>
    BY DEF Keywords, Keyword
  <2>2. <<"(">> \in Seq(Bare) /\ <<")">> \in Seq(Bare)
    BY BareJoined
  <2>3. w \in Signs /\ "~" \in Signs
    BY <2>1 DEF Signs, Marks
  <2> QED BY <1>3, <2>1, <2>2, <2>3, SignsJoined, BareJoined
<1>6. PICK a, b, k : a = <<"(">> /\ b = <<")">> /\ k = Keyword(w)
  OBVIOUS
<1>7. PICK t : t = (a \o q) \o b
  OBVIOUS
<1>8. t \in Seq(Bare) /\ ValueText[v] = Keyword(w) \o t
  <2>1. t \in Seq(Bare)
    BY <1>3, <1>5, <1>6, <1>7, BareJoined
  <2>2. a \in Seq(Signs) /\ b \in Seq(Signs) /\ k \in Seq(Signs) /\ q \in Seq(Signs)
    BY <1>5, <1>6
  <2>3. ((k \o a) \o q) \o b = k \o t
    <3>1. PICK aq : aq = a \o q
      OBVIOUS
    <3>2. aq \in Seq(Signs) /\ t = aq \o b
      BY <1>7, <2>2, <3>1, SignsJoined
    <3>3. (k \o a) \o q = k \o (a \o q)
      <4>1. k \in Seq(Signs) /\ a \in Seq(Signs) /\ q \in Seq(Signs)
        BY <2>2
      <4> QED BY <4>1, ConcatAssociative, SMTT(100)
    <3>4. (k \o aq) \o b = k \o (aq \o b)
      <4>1. k \in Seq(Signs) /\ aq \in Seq(Signs) /\ b \in Seq(Signs)
        BY <2>2, <3>2
      <4> QED BY <4>1, ConcatAssociative, SMTT(100)
    <3> QED BY <3>1, <3>2, <3>3, <3>4
  <2> QED BY <1>4, <1>6, <1>7, <2>1, <2>3
<1>9. Sees(o, Keyword(w) \o t)
  BY <1>8
<1>10. Sees(o + 2, t) /\ e = (o + 2) + Len(t)
  <2>1. Sees(o + 2, t) /\ o + Len(Keyword(w) \o t) = (o + 2) + Len(t)
    BY SMTT(60), <1>5, <1>8, <1>9, KeywordSeen
  <2> QED BY <1>8, <2>1
<1>11. /\ Sees(o + 2, a) /\ Sees((o + 2) + 1, q) /\ Sees(((o + 2) + 1) + Len(q), b)
       /\ e = (((o + 2) + 1) + Len(q)) + 1
  <2>1. a \in Seq(Signs) /\ b \in Seq(Signs) /\ q \in Seq(Signs) /\ Len(a) = 1 /\ Len(b) = 1 /\ o + 2 \in Nat
    BY <1>5, <1>6
  <2>2. PICK n, aq : n = o + 2 /\ aq = a \o q
    OBVIOUS
  <2>3. n \in Nat /\ aq \in Seq(Signs)
    BY <2>1, <2>2, SignsJoined
  <2>4. Sees(n, aq \o b) /\ t = aq \o b
    BY <1>7, <1>10, <2>2
  <2>5. Sees(n, aq) /\ Sees(n + Len(aq), b) /\ Len(aq \o b) = Len(aq) + Len(b)
    BY <2>1, <2>3, <2>4, SeesBoth
  <2>6. Sees(n, a \o q)
    BY <2>2, <2>5
  <2>7. Sees(n, a) /\ Sees(n + Len(a), q) /\ Len(a \o q) = Len(a) + Len(q) /\ Len(q) \in Nat
    BY <2>1, <2>3, <2>6, SeesBoth
  <2>8. n + Len(aq) = (n + 1) + Len(q) /\ n + Len(t) = ((n + 1) + Len(q)) + 1
    BY <2>1, <2>2, <2>3, <2>4, <2>5, <2>7
  <2> QED BY <1>10, <2>1, <2>2, <2>5, <2>7, <2>8
<1>12. ASSUME KeywordAt(o + 1, w)
       PROVE  PlainAt(o + 1) = IF e <= Len(input) /\ Readable[v] THEN Read(e + 1, Kept[v]) ELSE Bad
  <2>1. At(o + 1) = w /\ o + 2 \in 0 .. Len(input) /\ (o + 1) + 2 = (o + 2) + 1
    BY <1>5, <1>8, <1>9, <1>12, KeywordSeen
  <2>2. PlainAt(o + 1) = As(ReferenceAt((o + 1) + 2), v.type, "str")
    BY <1>4, <1>5, <1>12, <2>1, SomeKeyword
  <2>3. ReferenceAt((o + 2) + 1) = IF e <= Len(input) THEN Read(e + 1, Stored(str)) ELSE Bad
    BY <1>2, <1>3, <1>6, <1>11, <2>1, ReferencesRead
  <2>4. CASE e <= Len(input)
    <3>1. PlainAt(o + 1) = As(Read(e + 1, Stored(str)), v.type, "str")
      BY <2>1, <2>2, <2>3, <2>4
    <3> QED BY <1>3, <2>4, <3>1, AsIs
  <2>5. CASE ~ (e <= Len(input))
    <3>1. PlainAt(o + 1) = As(Bad, v.type, "str")
      BY <2>1, <2>2, <2>3, <2>5
    <3> QED BY <2>5, <3>1, AsIs
  <2> QED BY <2>4, <2>5
<1> QED BY <1>5, <1>8, <1>12, WordsRead

\* The first sign of a text.
LEMMA FirstSeen ==
  ASSUME input \in Seq(Signs), NEW t \in Seq(Bare), t # <<>>, NEW o \in 0 .. Len(input), Sees(o, t)
  PROVE  /\ At(o + 1) = (IF o + 1 <= Len(input) THEN t[1] ELSE EOF)
         /\ At(o + 1) \notin Keywords /\ Len(t) \in Nat \ {0} /\ o \in Nat
<1>1. Len(t) \in Nat \ {0} /\ o \in Nat
  BY EmptySeq
<1>2. 1 \in 1 .. Len(t) /\ o + 1 \in o + 1 .. o + Len(t)
  BY <1>1
<1>3. At(o + 1) = (IF o + 1 <= Len(input) THEN t[1] ELSE EOF)
  BY <1>2 DEF Sees
<1>4. At(o + 1) \notin Keywords
  BY <1>1, <1>2, BareSeen
<1> QED BY <1>1, <1>3, <1>4

\* A string begins with its quote.
LEMMA QuotesBegin ==
  ASSUME NEW str \in Seq(Characters) \cup {NULL}
  PROVE  Quoted(str) # <<>> /\ Quoted(str)[1] = "\""
<1>1. PICK a, b : a = <<"\"">> /\ b = IF str = NULL THEN <<>> ELSE FlattenSeq([i \in DOMAIN str |-> Escaped(str[i])])
  OBVIOUS
<1>2. b \in Seq(Signs)
  <2>1. CASE str # NULL
    <3>1. str \in Seq(Characters)
      BY <2>1
    <3>2. Len(str) \in Nat /\ DOMAIN str = 1 .. Len(str) /\ \A i \in 1 .. Len(str) : str[i] \in Characters
      BY <3>1
    <3>3. \A i \in 1 .. Len(str) : Escaped(str[i]) \in Seq(Signs)
      BY <3>2, StringsTyped, BareJoined
    <3>4. PICK f : f = [i \in DOMAIN str |-> Escaped(str[i])]
      OBVIOUS
    <3>5. f \in Seq(Seq(Signs))
      BY <3>2, <3>3, <3>4
    <3>6. FlattenSeq(f) \in Seq(Signs)
      BY <3>5, Flattened
    <3> QED BY <1>1, <2>1, <3>4, <3>6
  <2>2. CASE str = NULL
    BY <1>1, <2>2, SignsJoined
  <2> QED BY <2>1, <2>2
<1>3. a \in Seq(Signs) /\ Len(a) = 1 /\ a[1] = "\""
  <2>1. <<"\"">> \in Seq(Bare)
    BY BareJoined
  <2>2. <<"\"">> \in Seq(Signs)
    BY <2>1, BareJoined
  <2> QED BY <1>1, <2>2
<1>4. PICK ab : ab = a \o b
  OBVIOUS
<1>5. ab \in Seq(Signs) /\ ab[1] = "\"" /\ Len(ab) \in Nat \ {0}
  <2>1. a \o b \in Seq(Signs) /\ \A j \in 1 .. Len(a) : (a \o b)[j] = a[j]
    BY <1>2, <1>3, Concatenated
  <2>2. Len(a \o b) = Len(a) + Len(b) /\ Len(b) \in Nat
    BY <1>2, <1>3, Concatenated
  <2>3. 1 \in 1 .. Len(a)
    <3>1. Len(a) = 1
      BY <1>3
    <3> QED BY <3>1
  <2>4. (a \o b)[1] = "\""
    BY <1>3, <2>1, <2>3, Zenon
  <2>5. Len(a \o b) \in Nat \ {0}
    <3>1. Len(a) = 1
      BY <1>3
    <3> QED BY <2>2, <3>1
  <2> QED BY <1>4, <2>1, <2>4, <2>5, Zenon
<1>6. Len(ab \o a) = Len(ab) + Len(a) /\ \A j \in 1 .. Len(ab) : (ab \o a)[j] = ab[j]
  BY <1>3, <1>5, Concatenated
<1>7. Len(ab \o a) # 0 /\ (ab \o a)[1] = "\""
  <2>1. PICK l : l = Len(ab)
    OBVIOUS
  <2>2. l \in Nat \ {0} /\ Len(a) = 1
    BY <1>3, <1>5, <2>1
  <2>3. 1 \in 1 .. l /\ l + Len(a) # 0
    BY <2>2
  <2> QED BY <1>5, <1>6, <2>1, <2>3, Zenon
<1>8. Quoted(str) = ab \o a
  BY <1>1, <1>4 DEF Quoted
<1>9. Len(<<>>) = 0
  OBVIOUS
<1> QED BY <1>7, <1>8, <1>9

\* Strings.
LEMMA StringsRead ==
  ASSUME input \in Seq(Signs), NEW v \in Values, v.type = "string",
         NEW o \in 0 .. Len(input), Sees(o, ValueText[v]), NEW e, e = o + Len(ValueText[v])
  PROVE  ContainerAt(o + 1) = Bad /\ ReadsPlain(PlainAt(o + 1), v, o, e)
<1>1. v.type \in PlainTypes /\ v.type \in StringTypes
  BY DEF PlainTypes, StringTypes
<1>2. PICK str, q : str = v.str /\ q = Quoted(v.str)
  OBVIOUS
<1>3. /\ str \in Seq(Characters) \cup {NULL} /\ q \in Seq(Bare) /\ q = ValueText[v]
      /\ Kept[v] = [type |-> "string", str |-> Stored(str)] /\ Readable[v] = TRUE
  <2>1. /\ v.str \in Seq(Characters) \cup {NULL} /\ ValueText[v] = Quoted(v.str)
        /\ Kept[v] = [type |-> v.type, str |-> Stored(v.str)] /\ Readable[v] = TRUE
    BY <1>1, PlainUnfolded
  <2>2. Quoted(v.str) \in Seq(Bare)
    BY <2>1, StringsTyped
  <2> QED BY <1>2, <2>1, <2>2
<1>4. q # <<>> /\ q[1] = "\"" /\ Sees(o, q) /\ e = o + Len(q)
  BY <1>2, <1>3, QuotesBegin
<1>5. /\ At(o + 1) = (IF o + 1 <= Len(input) THEN "\"" ELSE EOF)
      /\ At(o + 1) \notin Keywords /\ Len(q) \in Nat /\ o \in Nat
  BY <1>3, <1>4, FirstSeen
<1>6. /\ QuotedAt(o + 1) = IF e <= Len(input) THEN Read(e + 1, Stored(str)) ELSE Bad
  BY <1>2, <1>3, <1>4, StringsReadBack
<1>7. ~ IsDigit(EOF) /\ EOF # "-" /\ {"\"", EOF} \cap {"[", "{"} = {} /\ EOF # "\""
  BY FollowApart DEF EOF
<1>8. ContainerAt(o + 1) = Bad
  BY <1>5, <1>7, NoKeyword
<1>9. PlainAt(o + 1) = As(QuotedAt(o + 1), "string", "str")
  <2>1. CASE At(o + 1) = "\""
    BY <1>5, <2>1, NoKeyword
  <2>2. CASE At(o + 1) = EOF
    <3>1. PlainAt(o + 1) = Bad
      BY <1>5, <1>7, <2>2, NoKeyword
    <3>2. QuotedAt(o + 1) = Bad
      BY <1>7, <2>2 DEF QuotedAt
    <3> QED BY <3>1, <3>2, AsIs
  <2> QED BY <1>5, <2>1, <2>2
<1>10. KeywordsIn(o, e)
  BY <1>3, <1>4, <1>5, BareSeen
<1>11. CASE e <= Len(input)
  <2>1. PlainAt(o + 1) = Read(e + 1, Kept[v])
    BY <1>3, <1>6, <1>9, <1>11, AsIs
  <2>2. Arrives(v, o, e)
    BY <1>3, <1>10, <1>11 DEF Arrives
  <2> QED BY <1>8, <2>1, <2>2 DEF ReadsPlain
<1>12. CASE ~ (e <= Len(input))
  <2>1. PlainAt(o + 1) = Bad
    BY <1>6, <1>9, <1>12, AsIs
  <2>2. ~ Arrives(v, o, e)
    BY <1>12 DEF Arrives
  <2> QED BY <1>8, <2>1, <2>2 DEF ReadsPlain
<1> QED BY <1>11, <1>12

\* Numbers.
LEMMA NumeralsRead ==
  ASSUME input \in Seq(Signs), NEW v \in Values, v.type \in Numbers,
         NEW o \in 0 .. Len(input), Sees(o, ValueText[v]), NEW e, e = o + Len(ValueText[v]), At(e + 1) \in Follow
  PROVE  ContainerAt(o + 1) = Bad /\ ReadsPlain(PlainAt(o + 1), v, o, e)
<1>1. v.type \in PlainTypes
  BY DEF PlainTypes
<1>2. PICK q : q = NumberText(v)
  OBVIOUS
<1>3. /\ q \in Seq(Bare) /\ q = ValueText[v] /\ Kept[v] = Reread(v) /\ Readable[v] = WholeTextIsNumber(v) /\ PlainOK(v)
  BY <1>1, <1>2, PlainUnfolded, NumbersTyped
<1>4. Sees(o, NumberText(v)) /\ At((o + Len(NumberText(v))) + 1) \in Follow
  BY <1>2, <1>3
<1>5. /\ ReadsNumber(ReadNumber(input, o + 1), v, e)
      /\ q # <<>> /\ q[1] \in {"-", "inf"} \cup Range(Digits)
  BY <1>2, <1>3, <1>4, NumbersRead
<1>6. Sees(o, q) /\ e = o + Len(q)
  BY <1>2, <1>3
<1>7. /\ At(o + 1) \in {"-", "inf", EOF} \cup Range(Digits)
      /\ At(o + 1) \notin Keywords /\ Len(q) \in Nat /\ o \in Nat
  BY <1>3, <1>5, <1>6, FirstSeen
<1>8. At(o + 1) \notin {"\"", "[", "{"}
  <2>1. {"-", "inf", EOF} \cap {"\"", "[", "{"} = {}
    BY DEF EOF
  <2>2. \A d \in Range(Digits) : d \notin {"\"", "[", "{"}
    BY DigitsApart
  <2> QED BY <1>7, <2>1, <2>2
<1>9. ContainerAt(o + 1) = Bad
  BY <1>7, <1>8, NoKeyword
<1>10. PlainAt(o + 1) = ReadNumber(input, o + 1)
  <2>1. CASE IsDigit(At(o + 1)) \/ At(o + 1) = "-"
    BY <1>7, <1>8, <2>1, NoKeyword
  <2>2. CASE ~ (IsDigit(At(o + 1)) \/ At(o + 1) = "-")
    <3>1. PlainAt(o + 1) = Bad
      BY <1>7, <1>8, <2>2, NoKeyword
    <3> QED BY <2>2, <3>1, NoNumber
  <2> QED BY <2>1, <2>2
<1>11. KeywordsIn(o, e)
  BY <1>3, <1>6, <1>7, BareSeen
<1>12. Arrives(v, o, e) <=> e <= Len(input) /\ WholeTextIsNumber(v)
  BY <1>3, <1>11 DEF Arrives
<1> QED BY <1>3, <1>5, <1>9, <1>10, <1>12 DEF ReadsNumber, ReadsPlain

\* What parser_parse_value makes of any plain value.
THEOREM PlainValuesReadBack ==
  ASSUME input \in Seq(Signs), NEW v \in Values, v.type \in PlainTypes,
         NEW o \in 0 .. Len(input), Sees(o, ValueText[v]),
         NEW e, e = o + Len(ValueText[v]), At(e + 1) \in Follow
  PROVE  ContainerAt(o + 1) = Bad /\ ReadsPlain(PlainAt(o + 1), v, o, e)
<1>1. CASE v.type \in {"null", "bool"}
  BY <1>1, SimpleRead
<1>2. CASE v.type \in Vectors
  BY <1>2, VectorsRead
<1>3. CASE v.type \in {"asset_ref", "resource_ref"}
  BY <1>3, RefsRead
<1>4. CASE v.type = "string"
  BY <1>4, StringsRead
<1>5. CASE v.type \in Numbers
  BY <1>5, NumeralsRead
<1> QED BY <1>1, <1>2, <1>3, <1>4, <1>5 DEF PlainTypes, StringTypes

-----------------------------------------------------------------------------
(* Containers in the text. *)

\* What is written of a member, of all of them, and where each of them begins.
Piece(v, i) ==
  IF v.type = "array"
  THEN ValueText[Child(v, i)] \o (IF i < Len(Members(v)) THEN <<",">> ELSE <<>>) \o <<NewLine>>
  ELSE <<KeyOf(v, i)>> \o (IF Shorthand(Child(v, i)) THEN <<>> ELSE <<"=">>)
       \o ValueText[Child(v, i)] \o <<NewLine>>
Pieces(v)  == [i \in DOMAIN Members(v) |-> Piece(v, i)]
Content(v) == FlattenSeq(Pieces(v))
Place(v)   == CHOOSE at : Layout(Pieces(v), Content(v), at)

\* The types of containers.
LEMMA ContainerTypes ==
  ASSUME NEW v \in Values, v.type \in Containers
  PROVE  /\ v.type \notin PlainTypes /\ ContainerOK(v) /\ KeysOK(v)
         /\ (v.type = "array" \/ v.type \in ObjectTypes) /\ ~ (v.type = "array" /\ v.type \in ObjectTypes)
<1>1. v.type \notin PlainTypes
  BY TypesApart DEF PlainTypes, Containers, ObjectTypes, StringTypes, Vectors, VectorSize, Numbers
<1>2. (v.type = "array" \/ v.type \in ObjectTypes) /\ ~ (v.type = "array" /\ v.type \in ObjectTypes)
  BY DEF Containers, ObjectTypes
<1> QED BY <1>1, <1>2, TextAssumption

\* The pieces fill the content.
LEMMA PiecesPlaced ==
  ASSUME NEW v \in Values, v.type \in Containers
  PROVE  /\ Len(Members(v)) \in Nat /\ Len(Pieces(v)) = Len(Members(v)) /\ Pieces(v) \in Seq(Seq(Signs))
         /\ \A i \in 1 .. Len(Members(v)) : Pieces(v)[i] = Piece(v, i) /\ Piece(v, i) \in Seq(Signs)
         /\ Content(v) \in Seq(Signs) /\ Layout(Pieces(v), Content(v), Place(v))
<1>1. PICK m : m = Len(Members(v))
  OBVIOUS
<1>2. m \in Nat /\ DOMAIN Members(v) = 1 .. m
  BY <1>1, MembersBelow
<1>3. ASSUME NEW i \in 1 .. m  PROVE Piece(v, i) \in Seq(Signs)
  <2> DEFINE Q == Seq(Signs)
             t == ValueText[Child(v, i)]
             comma == IF i < Len(Members(v)) THEN <<",">> ELSE <<>>
             sign == IF Shorthand(Child(v, i)) THEN <<>> ELSE <<"=">>
             key == <<KeyOf(v, i)>>
             nl == <<NewLine>>
  <2>1. t \in Q /\ (v.type \in ObjectTypes => KeyOf(v, i) \in Contents)
    BY <1>1, <1>3, MembersBelow, ValuesTyped
  <2>2. {",", "=", NewLine} \subseteq Signs /\ Contents \subseteq Signs
    BY DEF Signs, Marks
  <2>3. comma \in Q /\ sign \in Q /\ nl \in Q /\ (v.type \in ObjectTypes => key \in Q)
    BY <2>1, <2>2, SignsJoined
  <2>4. \A r, s \in Q : r \o s \in Q
    BY SignsJoined
  <2>5. Piece(v, i) = IF v.type = "array" THEN (t \o comma) \o nl ELSE ((key \o sign) \o t) \o nl
    BY DEF Piece
  <2> HIDE DEF Q, t, comma, sign, key, nl
  <2>6. Piece(v, i) \in Q
    <3>1. CASE v.type = "array"
      BY <2>1, <2>3, <2>4, <2>5, <3>1
    <3>2. CASE v.type \in ObjectTypes
      <4>1. v.type # "array"
        BY <3>2, ContainerTypes
      <4>2. key \o sign \in Q
        BY <2>3, <2>4, <3>2
      <4>3. (key \o sign) \o t \in Q
        BY <2>1, <2>4, <4>2
      <4> QED BY <2>3, <2>4, <2>5, <4>1, <4>3
    <3> QED BY <3>1, <3>2, ContainerTypes
  <2> QED BY <2>6 DEF Q
<1>4. /\ Len(Pieces(v)) = m /\ Pieces(v) \in Seq(Seq(Signs))
      /\ \A i \in 1 .. m : Pieces(v)[i] = Piece(v, i)
  BY <1>2, <1>3 DEF Pieces
<1>5. Content(v) \in Seq(Signs) /\ \E at : Layout(Pieces(v), Content(v), at)
  BY <1>4, Flattened DEF Content
<1>6. Layout(Pieces(v), Content(v), Place(v))
  BY <1>5 DEF Place
<1> QED BY <1>1, <1>2, <1>3, <1>4, <1>5, <1>6

LEMMA KeysWords ==
  ASSUME NEW v \in Values, v.type \in ObjectTypes
  PROVE  /\ \A i \in DOMAIN Members(v) : Spelled(KeyOf(v, i)) = <<KeyOf(v, i)>>
         /\ v.name # NULL => Spelled(v.name) = <<v.name>>
<1>1. \A i \in DOMAIN Members(v) : KeyOf(v, i) \in Contents
  BY MembersBelow
<1>2. v.name # NULL => v.name \in Contents
  BY ContainerTypes DEF ContainerOK, Containers
<1> QED BY <1>1, <1>2, OneWord

\* Containers are written with the pieces of their members.
Named(v) == IF v.name = NULL THEN <<>> ELSE Keyword("subresource") \o <<v.name>>
LEMMA ContentWritten ==
  ASSUME NEW v \in Values, v.type \in Containers
  PROVE  ValueText[v] =
           IF v.type = "array"
           THEN IF Members(v) = <<>> THEN <<"[", "]">> ELSE <<"[", NewLine>> \o Content(v) \o <<"]">>
           ELSE IF v.members = NULL THEN <<"{", "}">>
                ELSE Named(v) \o <<"{", NewLine>> \o Content(v) \o <<"}">>
<1>1. PICK b : b = OfMembers(v, ValueText)
  OBVIOUS
<1>2. b = [i \in DOMAIN Members(v) |-> ValueText[Child(v, i)]]
  BY <1>1 DEF OfMembers
<1>3. ValueText[v] = Rendered(v, b) /\ Len(b) = Len(Members(v)) /\ DOMAIN b = DOMAIN Members(v)
  BY <1>1, <1>2, Unfolded, ValuesTyped
<1>4. v.type = "array" => ItemsText(b) = Content(v)
  <2>1. v.type = "array" => \A i \in DOMAIN b : b[i] \o (IF i < Len(b) THEN <<",">> ELSE <<>>) \o <<NewLine>> = Piece(v, i)
    BY <1>2, <1>3 DEF Piece
  <2>2. v.type = "array" =>
          [i \in DOMAIN b |-> b[i] \o (IF i < Len(b) THEN <<",">> ELSE <<>>) \o <<NewLine>>] = Pieces(v)
    BY <1>3, <2>1 DEF Pieces
  <2> QED BY <2>2 DEF ItemsText, Content
<1>5. v.type # "array" => BodyText(v, b) = Content(v)
  <2>1. v.type # "array" =>
          \A i \in DOMAIN b : Spelled(KeyOf(v, i)) \o (IF Shorthand(Child(v, i)) THEN <<>> ELSE <<"=">>) \o b[i] \o <<NewLine>>
                              = Piece(v, i)
    <3>1. v.type # "array" =>
            \A i \in DOMAIN b : Spelled(KeyOf(v, i)) = <<KeyOf(v, i)>> /\ b[i] = ValueText[Child(v, i)]
      BY <1>2, <1>3, KeysWords, ContainerTypes
    <3> QED BY <3>1 DEF Piece
  <2>2. v.type # "array" =>
          [i \in DOMAIN b |-> Spelled(KeyOf(v, i)) \o (IF Shorthand(Child(v, i)) THEN <<>> ELSE <<"=">>) \o b[i] \o <<NewLine>>]
          = Pieces(v)
    BY <1>3, <2>1 DEF Pieces
  <2> QED BY <2>2 DEF BodyText, Content
<1>6. (b = <<>>) <=> (Members(v) = <<>>)
  <2>1. PICK s, R : s = Members(v) /\ R = [key : Contents \cup {NULL}, value : Values]
    OBVIOUS
  <2>2. s \in Seq(R)
    <3>1. <<>> \in Seq(R)
      OBVIOUS
    <3>2. s \in Seq(R) \/ s = <<>>
      BY <2>1, ContainerTypes DEF ContainerOK, Members
    <3> QED BY <3>1, <3>2
  <2>3. s = <<>> <=> Len(s) = 0
    BY <2>2
  <2>4. b \in Seq(Seq(Signs))
    BY <1>1, ValuesTyped
  <2>5. b = <<>> <=> Len(b) = 0
    BY <2>4
  <2> QED BY <1>3, <2>1, <2>3, <2>5
<1>7. CASE v.type = "array"
  <2>1. v.type \notin Numbers \cup Vectors \cup ObjectTypes /\ v.type \notin {"null", "bool", "string", "asset_ref", "resource_ref"}
    BY <1>7 DEF Numbers, Vectors, VectorSize, ObjectTypes
  <2>2. Rendered(v, b) = IF b = <<>> THEN <<"[", "]">> ELSE <<"[", NewLine>> \o ItemsText(b) \o <<"]">>
    BY <1>7, <2>1 DEF Rendered
  <2> QED BY <1>3, <1>4, <1>6, <1>7, <2>2
<1>8. CASE v.type \in ObjectTypes
  <2>1. v.type \notin Numbers \cup Vectors /\ v.type # "array"
        /\ v.type \notin {"null", "bool", "string", "asset_ref", "resource_ref"}
    BY <1>8 DEF Numbers, Vectors, VectorSize, ObjectTypes
  <2>2. Rendered(v, b) = IF v.members = NULL THEN <<"{", "}">>
                         ELSE Named(v) \o <<"{", NewLine>> \o BodyText(v, b) \o <<"}">>
    BY <1>8, <2>1, KeysWords DEF Rendered, Named
  <2> QED BY <1>3, <1>5, <2>1, <2>2
<1> QED BY <1>7, <1>8, ContainerTypes

\* How much of the text of a container stands before its content, what opens it
\* and what ends it.
Brim(v) ==
  IF v.type = "array" THEN IF Members(v) = <<>> THEN 1 ELSE 2
  ELSE IF v.members = NULL THEN 1 ELSE IF v.name = NULL THEN 2 ELSE 5
Opens(v)  == IF v.type = "array" THEN "[" ELSE "{"
Closer(v) == IF v.type = "array" THEN "]" ELSE "}"

\* Without members there is no content.
LEMMA NoContent ==
  ASSUME NEW v \in Values, v.type \in Containers, Members(v) = <<>>
  PROVE  Content(v) \in Seq(Signs) /\ Len(Content(v)) = 0
<1>1. /\ Content(v) \in Seq(Signs) /\ Layout(Pieces(v), Content(v), Place(v)) /\ Len(Pieces(v)) = Len(Members(v))
  BY PiecesPlaced
<1>2. Len(Pieces(v)) = 0
  BY <1>1
<1> QED BY <1>1, <1>2 DEF Layout

\* A container with nothing in it.
LEMMA EmptyStands ==
  ASSUME NEW v \in Values, v.type \in Containers, Brim(v) = 1,
         NEW T \in Seq(Signs), NEW o, Stands(T, o, ValueText[v])
  PROVE  /\ T[o + 1] = Opens(v) /\ T[o + 2] = Closer(v) /\ o + 2 <= Len(T) /\ o \in Nat /\ Len(T) \in Nat
         /\ Len(ValueText[v]) = 2 /\ Stands(T, o + 1, Content(v)) /\ Len(Content(v)) = 0
<1>1. IF v.type = "array" THEN Members(v) = <<>> ELSE v.members = NULL
  BY DEF Brim
<1>2. Members(v) = <<>>
  BY <1>1 DEF Members
<1>3. ValueText[v] = <<Opens(v), Closer(v)>>
  <2>1. CASE v.type = "array"
    BY <1>1, <2>1, ContentWritten DEF Opens, Closer
  <2>2. CASE v.type # "array"
    BY <1>1, <2>2, ContentWritten DEF Opens, Closer
  <2> QED BY <2>1, <2>2
<1>4. PICK x, y : x = Opens(v) /\ y = Closer(v)
  OBVIOUS
<1>5. Stands(T, o, <<x, y>>) /\ Len(<<x, y>>) = 2
  BY <1>3, <1>4
<1>6. T[o + 1] = x /\ T[o + 2] = y /\ o + 2 <= Len(T) /\ o \in Nat
  BY <1>5, StandsTwo
<1>7. Len(T) \in Nat
  OBVIOUS
<1>8. Len(Content(v)) = 0
  BY <1>2, NoContent
<1>9. Stands(T, o + 1, Content(v))
  <2>1. o + 1 \in Nat /\ o + 1 + 0 <= Len(T) /\ \A j : j \notin 1 .. 0
    BY <1>6, <1>7
  <2> QED BY <1>8, <2>1 DEF Stands
<1> QED BY <1>3, <1>4, <1>5, <1>6, <1>7, <1>8, <1>9

\* One with lines in it, and no type name.
LEMMA LinesStand ==
  ASSUME NEW v \in Values, v.type \in Containers, Brim(v) = 2,
         NEW T \in Seq(Signs), NEW o, Stands(T, o, ValueText[v]), NEW e, e = o + Len(ValueText[v])
  PROVE  /\ T[o + 1] = Opens(v) /\ T[o + 2] = NewLine /\ Stands(T, o + 2, Content(v))
         /\ e = ((o + 2) + Len(Content(v))) + 1 /\ T[e] = Closer(v) /\ e <= Len(T)
         /\ o \in Nat /\ Len(Content(v)) \in Nat
<1>1. IF v.type = "array" THEN Members(v) # <<>> ELSE v.members # NULL /\ v.name = NULL
  BY DEF Brim
<1>2. PICK a, b, c, x, y : a = <<x, NewLine>> /\ b = Content(v) /\ c = <<y>> /\ x = Opens(v) /\ y = Closer(v)
  OBVIOUS
<1>3. ValueText[v] = (a \o b) \o c
  <2>1. CASE v.type = "array"
    BY <1>1, <1>2, <2>1, ContentWritten DEF Opens, Closer
  <2>2. CASE v.type # "array"
    <3>1. ValueText[v] = ((<<>> \o <<"{", NewLine>>) \o Content(v)) \o <<"}">>
      BY <1>1, <2>2, ContentWritten DEF Named
    <3>2. <<>> \o <<"{", NewLine>> = <<"{", NewLine>>
      OBVIOUS
    <3> QED BY <1>2, <2>2, <3>1, <3>2 DEF Opens, Closer
  <2> QED BY <2>1, <2>2
<1>4. a \in Seq(Signs) /\ b \in Seq(Signs) /\ c \in Seq(Signs) /\ Len(a) = 2 /\ Len(c) = 1
  <2>1. {x, y, NewLine} \subseteq Signs
    BY <1>2 DEF Signs, Marks, Opens, Closer
  <2>2. a \in Seq(Signs) /\ c \in Seq(Signs)
    BY <1>2, <2>1, SignsJoined
  <2>3. b \in Seq(Signs)
    BY <1>2, PiecesPlaced
  <2> QED BY <1>2, <2>2, <2>3
<1>5. PICK t : t = ValueText[v]
  OBVIOUS
<1>6. /\ Stands(T, o, a) /\ Stands(T, o + Len(a), b) /\ Stands(T, (o + Len(a)) + Len(b), c)
      /\ o + Len(t) = ((o + Len(a)) + Len(b)) + Len(c) /\ Len(b) \in Nat /\ o \in Nat
  <2>0. a \in Seq(Signs) /\ b \in Seq(Signs) /\ c \in Seq(Signs)
    BY <1>3, <1>4, <1>5
  <2>1. PICK ab : ab = a \o b
    OBVIOUS
  <2>2. ab \in Seq(Signs)
    BY <2>0, <2>1, SignsJoined
  <2>8. t = ab \o c
    BY <1>3, <1>4, <1>5, <2>1
  <2>3. Stands(T, o, ab \o c)
    BY <1>5, <2>8
  <2>4. /\ Stands(T, o, ab) /\ Stands(T, o + Len(ab), c)
        /\ Len(ab \o c) = Len(ab) + Len(c) /\ o \in Nat
    BY <2>0, <2>2, <2>3, StandsBoth
  <2>5. Stands(T, o, a \o b)
    BY <2>1, <2>4
  <2>6. /\ Stands(T, o, a) /\ Stands(T, o + Len(a), b)
        /\ Len(a \o b) = Len(a) + Len(b) /\ Len(a) \in Nat /\ Len(b) \in Nat
    BY <2>0, <2>5, StandsBoth
  <2>9. Len(c) \in Nat
    BY <2>0
  <2>7. o + Len(ab) = (o + Len(a)) + Len(b) /\ o + Len(t) = ((o + Len(a)) + Len(b)) + Len(c)
    BY <2>1, <2>8, <2>4, <2>6, <2>9
  <2> QED BY <2>4, <2>6, <2>7
<1>7. Stands(T, o, <<x, NewLine>>) /\ Stands(T, (o + 2) + Len(b), <<y>>)
  BY <1>2, <1>4, <1>6
<1>8. T[o + 1] = x /\ T[o + 2] = NewLine
  BY <1>7, StandsTwo
<1>9. T[((o + 2) + Len(b)) + 1] = y /\ ((o + 2) + Len(b)) + 1 <= Len(T)
  BY <1>7, StandsOne
<1> QED BY <1>2, <1>4, <1>5, <1>6, <1>8, <1>9

\* One with a type name, which stands behind a keyword.
NamedAt(T, o, name) ==
  T[o + 1] = "subresource" /\ T[o + 2] = "~" /\ T[o + 3] = name /\ T[o + 4] = "{" /\ T[o + 5] = NewLine
LEMMA NamedStands ==
  ASSUME NEW v \in Values, v.type \in Containers, Brim(v) = 5,
         NEW T \in Seq(Signs), NEW o, Stands(T, o, ValueText[v]), NEW e, e = o + Len(ValueText[v])
  PROVE  /\ NamedAt(T, o, v.name)
         /\ Stands(T, o + 5, Content(v))
         /\ e = ((o + 5) + Len(Content(v))) + 1 /\ T[e] = Closer(v) /\ e <= Len(T)
         /\ o \in Nat /\ Len(Content(v)) \in Nat
<1>1. v.type # "array" /\ v.members # NULL /\ v.name # NULL
  BY DEF Brim
<1>2. PICK k, x, a, b, c, d : /\ x = v.name /\ k = Keyword("subresource") /\ a = <<"{", NewLine>>
                              /\ b = Content(v) /\ c = <<"}">> /\ d = <<x>>
  OBVIOUS
<1>3. ValueText[v] = (((k \o d) \o a) \o b) \o c
  BY <1>1, <1>2, ContentWritten DEF Named
<1>4. PICK n : n = k \o d
  OBVIOUS
<1>5. PICK h : h = n \o a
  OBVIOUS
<1>6. /\ k \in Seq(Signs) /\ d \in Seq(Signs) /\ a \in Seq(Signs) /\ b \in Seq(Signs) /\ c \in Seq(Signs)
      /\ k = <<"subresource", "~">> /\ Len(k) = 2 /\ Len(d) = 1 /\ Len(a) = 2 /\ Len(c) = 1
  <2>1. {"subresource", "~", "{", "}", NewLine} \subseteq Signs
    BY DEF Signs, Marks, Keywords
  <2>2. x \in Signs
    BY <1>1, <1>2, ContainerTypes DEF ContainerOK, Signs
  <2>3. k = <<"subresource", "~">>
    BY <1>2 DEF Keyword
  <2>4. k \in Seq(Signs) /\ d \in Seq(Signs) /\ a \in Seq(Signs) /\ c \in Seq(Signs)
    BY <1>2, <2>1, <2>2, <2>3, SignsJoined
  <2>5. b \in Seq(Signs)
    BY <1>2, PiecesPlaced
  <2>6. Len(k) = 2 /\ Len(d) = 1 /\ Len(a) = 2 /\ Len(c) = 1
    BY <1>2, <2>3
  <2> QED BY <2>3, <2>4, <2>5, <2>6
<1>7. n \in Seq(Signs)
  BY <1>4, <1>6, SignsJoined
<1>8. h \in Seq(Signs)
  BY <1>5, <1>6, <1>7, SignsJoined
<1>9. PICK t : t = ValueText[v]
  OBVIOUS
<1>10. t = (h \o b) \o c /\ h = (k \o d) \o a
  BY <1>3, <1>4, <1>5, <1>9
<1>11. /\ Stands(T, o, h) /\ Stands(T, o + Len(h), b) /\ Stands(T, (o + Len(h)) + Len(b), c)
       /\ o + Len(t) = ((o + Len(h)) + Len(b)) + Len(c) /\ Len(b) \in Nat /\ o \in Nat
  <2>0. h \in Seq(Signs) /\ b \in Seq(Signs) /\ c \in Seq(Signs)
    BY <1>6, <1>8, <1>9, <1>10
  <2>1. PICK hb : hb = h \o b
    OBVIOUS
  <2>2. hb \in Seq(Signs)
    BY <2>0, <2>1, SignsJoined
  <2>8. t = hb \o c
    BY <1>6, <1>8, <1>9, <1>10, <2>1
  <2>3. Stands(T, o, hb \o c)
    BY <1>9, <2>8
  <2>4. /\ Stands(T, o, hb) /\ Stands(T, o + Len(hb), c)
        /\ Len(hb \o c) = Len(hb) + Len(c) /\ o \in Nat
    BY <2>0, <2>2, <2>3, StandsBoth
  <2>5. Stands(T, o, h \o b)
    BY <2>1, <2>4
  <2>6. /\ Stands(T, o, h) /\ Stands(T, o + Len(h), b)
        /\ Len(h \o b) = Len(h) + Len(b) /\ Len(h) \in Nat /\ Len(b) \in Nat
    BY <2>0, <2>5, StandsBoth
  <2>9. Len(c) \in Nat
    BY <2>0
  <2>7. o + Len(hb) = (o + Len(h)) + Len(b) /\ o + Len(t) = ((o + Len(h)) + Len(b)) + Len(c)
    BY <2>1, <2>8, <2>4, <2>6, <2>9
  <2> QED BY <2>4, <2>6, <2>7
<1>12. /\ Stands(T, o, k) /\ Stands(T, o + Len(k), d) /\ Stands(T, (o + Len(k)) + Len(d), a)
       /\ o + Len(h) = ((o + Len(k)) + Len(d)) + Len(a)
  <2>0. k \in Seq(Signs) /\ d \in Seq(Signs) /\ a \in Seq(Signs)
    BY <1>6, <1>10
  <2>1. PICK kd : kd = k \o d
    OBVIOUS
  <2>2. kd \in Seq(Signs)
    BY <2>0, <2>1, SignsJoined
  <2>8. h = kd \o a
    BY <1>6, <1>10, <2>1
  <2>3. Stands(T, o, kd \o a)
    BY <1>11, <2>8
  <2>4. /\ Stands(T, o, kd) /\ Stands(T, o + Len(kd), a)
        /\ Len(kd \o a) = Len(kd) + Len(a) /\ o \in Nat
    BY <2>0, <2>2, <2>3, StandsBoth
  <2>5. Stands(T, o, k \o d)
    BY <2>1, <2>4
  <2>6. /\ Stands(T, o, k) /\ Stands(T, o + Len(k), d)
        /\ Len(k \o d) = Len(k) + Len(d) /\ Len(k) \in Nat /\ Len(d) \in Nat
    BY <2>0, <2>5, StandsBoth
  <2>9. Len(a) \in Nat
    BY <2>0
  <2>7. o + Len(kd) = (o + Len(k)) + Len(d) /\ o + Len(h) = ((o + Len(k)) + Len(d)) + Len(a)
    BY <2>1, <2>8, <2>4, <2>6, <2>9
  <2> QED BY <2>4, <2>6, <2>7
<1>13. (o + Len(k)) + Len(d) = o + 3 /\ o + Len(h) = o + 5 /\ o + Len(k) = o + 2
  BY <1>6, <1>11, <1>12
<1>14. /\ Stands(T, o, <<"subresource", "~">>) /\ Stands(T, o + 2, <<x>>) /\ Stands(T, o + 3, <<"{", NewLine>>)
       /\ Stands(T, (o + 5) + Len(b), <<"}">>)
  BY <1>2, <1>6, <1>11, <1>12, <1>13
<1>15. T[o + 1] = "subresource" /\ T[o + 2] = "~"
  <2>1. PICK y, z : y = "subresource" /\ z = "~"
    OBVIOUS
  <2>2. Stands(T, o, <<y, z>>)
    BY <1>14, <2>1
  <2>3. T[o + 1] = y /\ T[o + 2] = z
    BY <2>2, StandsTwo
  <2> QED BY <2>1, <2>3
<1>16. T[(o + 2) + 1] = x
  <2>1. PICK q : q = o + 2
    OBVIOUS
  <2>2. Stands(T, q, <<x>>)
    BY <1>14, <2>1
  <2> QED BY <2>1, <2>2, StandsOne
<1>17. T[(o + 3) + 1] = "{" /\ T[(o + 3) + 2] = NewLine
  <2>1. PICK q, y, z : q = o + 3 /\ y = "{" /\ z = NewLine
    OBVIOUS
  <2>2. Stands(T, q, <<y, z>>)
    BY <1>14, <2>1
  <2>3. T[q + 1] = y /\ T[q + 2] = z
    BY <2>2, StandsTwo
  <2> QED BY <2>1, <2>3
<1>18. T[((o + 5) + Len(b)) + 1] = "}" /\ ((o + 5) + Len(b)) + 1 <= Len(T)
  BY <1>14, StandsOne
<1>19. (o + 2) + 1 = o + 3 /\ (o + 3) + 1 = o + 4 /\ (o + 3) + 2 = o + 5 /\ e = ((o + 5) + Len(b)) + 1
  BY <1>6, <1>9, <1>11, <1>13
<1>20. Closer(v) = "}"
  BY <1>1 DEF Closer
<1>21. NamedAt(T, o, x)
  BY <1>15, <1>16, <1>17, <1>19 DEF NamedAt
<1> QED BY <1>2, <1>11, <1>13, <1>18, <1>19, <1>20, <1>21

\* What stands where of a container.
LEMMA ShellStands ==
  ASSUME NEW v \in Values, v.type \in Containers,
         NEW T \in Seq(Signs), NEW o, Stands(T, o, ValueText[v]), NEW e, e = o + Len(ValueText[v])
  PROVE  /\ Brim(v) \in {1, 2, 5} /\ o \in Nat /\ Len(Content(v)) \in Nat /\ Len(T) \in Nat
         /\ Stands(T, o + Brim(v), Content(v))
         /\ e = ((o + Brim(v)) + Len(Content(v))) + 1 /\ T[e] = Closer(v) /\ e <= Len(T)
         /\ Brim(v) \in {1, 2} => T[o + 1] = Opens(v)
         /\ Brim(v) = 2 => T[o + 2] = NewLine
         /\ Brim(v) = 5 => NamedAt(T, o, v.name)
<1>1. Brim(v) \in {1, 2, 5} /\ Len(T) \in Nat
  BY DEF Brim
<1>2. CASE Brim(v) = 1
  <2>1. /\ T[o + 1] = Opens(v) /\ T[o + 2] = Closer(v) /\ o + 2 <= Len(T) /\ o \in Nat
        /\ Len(ValueText[v]) = 2 /\ Stands(T, o + 1, Content(v)) /\ Len(Content(v)) = 0
    BY <1>2, EmptyStands
  <2>2. e = o + 2 /\ e = ((o + 1) + 0) + 1
    BY <2>1
  <2> QED BY <1>1, <1>2, <2>1, <2>2
<1>3. CASE Brim(v) = 2
  <2>1. /\ T[o + 1] = Opens(v) /\ T[o + 2] = NewLine /\ Stands(T, o + 2, Content(v))
        /\ e = ((o + 2) + Len(Content(v))) + 1 /\ T[e] = Closer(v) /\ e <= Len(T)
        /\ o \in Nat /\ Len(Content(v)) \in Nat
    BY <1>3, LinesStand
  <2> QED BY <1>1, <1>3, <2>1
<1>4. CASE Brim(v) = 5
  <2>1. /\ NamedAt(T, o, v.name)
        /\ Stands(T, o + 5, Content(v))
        /\ e = ((o + 5) + Len(Content(v))) + 1 /\ T[e] = Closer(v) /\ e <= Len(T)
        /\ o \in Nat /\ Len(Content(v)) \in Nat
    BY <1>4, NamedStands
  <2> QED BY <1>1, <1>4, <2>1
<1> QED BY <1>1, <1>2, <1>3, <1>4

\* A text stands where it is.
LEMMA StandsItself ==
  ASSUME NEW t \in Seq(Signs)
  PROVE  Stands(t, 0, t)
<1>1. Len(t) \in Nat /\ \A j \in 1 .. Len(t) : 0 + j = j
  OBVIOUS
<1> QED BY <1>1 DEF Stands

\* What a number begins with.
LEMMA NumberBegins ==
  ASSUME NEW v, v.type \in Numbers, PlainOK(v)
  PROVE  NumberText(v)[1] \in {"-", "inf"} \cup Range(Digits) /\ NumberText(v) # <<>>
<1> DEFINE R == Range(Digits)
<1>1. Half \in Nat \ {0}
  BY NumberAssumption
<1>2. ASSUME NEW k \in Nat
      PROVE  Printed[k] \in Seq(Signs) /\ Printed[k] # <<>> /\ Printed[k][1] \in R
  <2>1. PICK t : t = Printed[k]
    OBVIOUS
  <2>2. t \in Seq(R) /\ Len(t) \in Nat \ {0}
    BY <2>1, PrintedReadBack
  <2>3. R \subseteq Signs
    BY DigitsApart
  <2> HIDE DEF R
  <2>4. t # <<>> /\ t[1] \in R /\ t \in Seq(Signs)
    BY <2>2, <2>3
  <2> QED BY <2>1, <2>4
<1>3. \A s, t \in Seq(Signs) : s # <<>> => (s \o t)[1] = s[1] /\ s \o t # <<>>
  OBVIOUS
<1>4. <<"-">> \in Seq(Signs) /\ <<"u">> \in Seq(Signs) /\ <<"-">>[1] = "-" /\ <<"-">> # <<>>
  <2>1. "-" \in Signs /\ "u" \in Signs
    BY DEF Signs, Marks
  <2> QED BY <2>1, SignsJoined
<1> HIDE DEF R
<1>5. CASE v.type = "int"
  <2>1. NumberText(v) = IntText(v.n) /\ v.n \in Int
    BY <1>1, <1>5 DEF NumberText, PlainOK, Ints
  <2>2. CASE v.n < 0
    <3>1. -v.n \in Nat /\ NumberText(v) = <<"-">> \o Printed[-v.n]
      BY <2>1, <2>2 DEF IntText
    <3> QED BY <1>2, <1>3, <1>4, <3>1
  <2>3. CASE ~ (v.n < 0)
    <3>1. v.n \in Nat /\ NumberText(v) = Printed[v.n]
      BY <2>1, <2>3 DEF IntText
    <3> QED BY <1>2, <3>1 DEF R
  <2> QED BY <2>2, <2>3
<1>6. CASE v.type = "uint"
  <2>1. NumberText(v) = Printed[v.n] \o <<"u">> /\ v.n \in Nat
    BY SMTT(60), <1>1, <1>6 DEF NumberText, PlainOK, Uints, UintText
  <2> QED BY <1>2, <1>3, <1>4, <2>1 DEF R
<1>7. CASE v.type = "float"
  <2>1. NumberText(v) = FloatText(v.x) /\ v.x \in Decimals
    BY <1>7 DEF NumberText, PlainOK
  <2>2. PICK x : x = v.x
    OBVIOUS
  <2>3. PICK a \in Seq(Signs), b \in Seq(Signs), c \in Seq(Signs), d \in Seq(Signs) :
          a = Sign(x) /\ b = Whole(x) /\ c = Fraction(x) /\ d = Exponent(x)
    BY <2>1, <2>2, FloatParts
  <2>4. PICK s : s = FloatText(x)
    OBVIOUS
  <2>5. s = ((a \o b) \o c) \o d /\ Len(b) # 0 /\ b[1] \in {"inf"} \cup R
    BY <2>1, <2>2, <2>3, <2>4, FloatParts DEF R
  <2>6. (Len(a) # 0 => s[1] = a[1]) /\ (Len(a) = 0 /\ Len(b) # 0 => s[1] = b[1]) /\ s \in Seq(Signs)
    BY <2>5, FourJoined
  <2>7. Len(a) # 0 => a[1] = "-"
    BY <2>3 DEF Sign
  <2>8. s # <<>>
    <3>1. PICK ab, abc : ab = a \o b /\ abc = ab \o c
      OBVIOUS
    <3>2. ab \in Seq(Signs) /\ Len(ab) = Len(a) + Len(b) /\ Len(a) \in Nat /\ Len(b) \in Nat
      BY <3>1
    <3>3. abc \in Seq(Signs) /\ Len(abc) = Len(ab) + Len(c) /\ Len(c) \in Nat
      BY <3>1, <3>2
    <3>4. s = abc \o d
      BY <2>5, <3>1
    <3>5. Len(abc \o d) = Len(abc) + Len(d) /\ Len(d) \in Nat
      <4>1. abc \in Seq(Signs) /\ d \in Seq(Signs)
        BY <3>3
      <4> QED BY <4>1, Concatenated
    <3>6. Len(s) # 0
      BY <2>5, <3>2, <3>3, <3>4, <3>5
    <3> QED BY <3>6
  <2> QED BY <2>1, <2>2, <2>4, <2>5, <2>6, <2>7, <2>8 DEF R
<1> QED BY <1>5, <1>6, <1>7 DEF Numbers

\* What no value begins with: the end of a container, or a line that is skipped.
NoBeginning == {NewLine, "#", "]", "}", ",", EOF}
LEMMA FirstSign ==
  ASSUME NEW v \in Values
  PROVE  ValueText[v] \in Seq(Signs) /\ Len(ValueText[v]) \in Nat \ {0} /\ ValueText[v][1] \notin NoBeginning
<1>1. PICK t : t = ValueText[v]
  OBVIOUS
<1>2. t \in Seq(Signs) /\ \A s \in Seq(Signs) : s # <<>> => Len(s) \in Nat \ {0}
  BY <1>1, ValuesTyped
<1>3. ASSUME NEW w \in Keywords, NEW s \in Seq(Signs), t = Keyword(w) \o s
      PROVE  t # <<>> /\ t[1] \notin NoBeginning
  <2>1. w \in Signs /\ "~" \in Signs
    BY DEF Signs, Marks
  <2>2. Keyword(w) \in Seq(Signs) /\ Keyword(w)[1] = w /\ Len(Keyword(w)) = 2
    BY <2>1, SignsJoined DEF Keyword
  <2>3. t[1] = w /\ t # <<>>
    <3>1. PICK k : k = Keyword(w)
      OBVIOUS
    <3>2. k \in Seq(Signs) /\ k[1] = w /\ Len(k) = 2 /\ t = k \o s
      BY <1>3, <2>2, <3>1
    <3>3. Len(k \o s) = 2 + Len(s) /\ Len(s) \in Nat /\ \A j \in 1 .. 2 : (k \o s)[j] = k[j]
      <4>1. k \in Seq(Signs) /\ s \in Seq(Signs) /\ Len(k) = 2
        BY <3>2
      <4>2. Len(k \o s) = Len(k) + Len(s) /\ Len(s) \in Nat /\ \A j \in 1 .. Len(k) : (k \o s)[j] = k[j]
        BY SMTT(60), <4>1, Concatenated
      <4> QED BY <4>1, <4>2
    <3>4. t[1] = w /\ Len(t) # 0
      BY <3>2, <3>3
    <3>5. t # <<>>
      BY <3>4
    <3> QED BY <3>4, <3>5
  <2> QED BY <2>3 DEF Keywords, Vectors, VectorSize, NoBeginning, EOF, NewLine
<1>4. ASSUME NEW w \in Keywords, t = Keyword(w)
      PROVE  t # <<>> /\ t[1] \notin NoBeginning
  <2>1. t # <<>> /\ t[1] = w
    BY <1>4 DEF Keyword
  <2> QED BY <2>1 DEF Keywords, Vectors, VectorSize, NoBeginning, EOF, NewLine
<1>5. CASE v.type \in Containers
  <2>1. Stands(t, 0, ValueText[v]) /\ 0 + Len(t) = Len(t) /\ Len(t) \in Nat
    BY <1>1, <1>2, StandsItself
  <2>2. PICK o, e : o = 0 /\ e = o + Len(ValueText[v])
    OBVIOUS
  <2>3. Stands(t, o, ValueText[v])
    BY <2>1, <2>2
  <2>4. /\ Brim(v) \in {1, 2, 5} /\ Len(Content(v)) \in Nat
        /\ e = ((o + Brim(v)) + Len(Content(v))) + 1 /\ e <= Len(t)
        /\ Brim(v) \in {1, 2} => t[o + 1] = Opens(v)
        /\ Brim(v) = 5 => NamedAt(t, o, v.name)
    BY <1>2, <1>5, <2>2, <2>3, ShellStands
  <2>5. t[1] \in {"[", "{", "subresource"}
    <3>1. t[o + 1] \in {"[", "{", "subresource"}
      BY <2>4 DEF Opens, NamedAt
    <3>2. o + 1 = 1
      BY <2>2
    <3> QED BY <3>1, <3>2
  <2>7. Len(t) # 0
    <3>1. PICK r, l : r = Brim(v) /\ l = Len(Content(v))
      OBVIOUS
    <3>2. r \in {1, 2, 5} /\ l \in Nat /\ e = ((0 + r) + l) + 1 /\ e <= Len(t)
      BY <2>2, <2>4, <3>1
    <3> QED BY <3>2
  <2>6. t # <<>>
    BY <2>7
  <2> QED BY <1>1, <1>2, <2>5, <2>6 DEF NoBeginning, EOF, NewLine
<1>6. CASE v.type \in PlainTypes
  <2>1. CASE v.type = "null"
    BY <1>1, <1>2, <1>4, <1>6, <2>1, PlainUnfolded DEF Keywords
  <2>2. CASE v.type = "bool"
    BY ZenonT(60), <1>1, <1>2, <1>4, <1>6, <2>2, PlainUnfolded DEF Keywords
  <2>3. CASE v.type \in Numbers
    <3>1. t = NumberText(v) /\ PlainOK(v)
      BY <1>1, <1>6, <2>3, PlainUnfolded
    <3>2. t[1] \in {"-", "inf"} \cup Range(Digits) /\ t # <<>>
      BY <2>3, <3>1, NumberBegins
    <3>3. t[1] \notin NoBeginning
      BY <3>2, DigitsApart DEF NoBeginning, EOF, NewLine
    <3> QED BY <1>1, <1>2, <3>2, <3>3
  <2>4. CASE v.type = "string"
    <3>1. t = Quoted(v.str) /\ v.str \in Seq(Characters) \cup {NULL}
      BY <1>1, <1>6, <2>4, PlainUnfolded DEF StringTypes
    <3>2. t[1] = "\"" /\ t # <<>>
      BY <3>1, QuotesBegin
    <3> QED BY <1>1, <1>2, <3>2 DEF NoBeginning, EOF, NewLine
  <2>5. CASE v.type \in Vectors
    <3>1. t = Keyword(v.type) \o FloatListText(v.xs) /\ v.xs \in Seq(Decimals) /\ v.type \in Keywords /\ Len(v.xs) = VectorSize[v.type]
      BY <1>1, <1>6, <2>5, PlainUnfolded DEF PlainOK, Keywords
    <3>2. v.xs # <<>>
      <4>1. VectorSize[v.type] # 0
        BY <2>5 DEF Vectors, VectorSize
      <4>2. v.xs = <<>> => Len(v.xs) = 0
        OBVIOUS
      <4> QED BY <3>1, <4>1, <4>2
    <3>3. FloatListText(v.xs) \in Seq(Signs)
      BY <3>1, <3>2, StringsTyped, BareJoined
    <3> QED BY <1>1, <1>2, <1>3, <3>1, <3>3
  <2>6. CASE v.type \in {"asset_ref", "resource_ref"}
    <3>1. PICK w \in {"asset", "external"} : t = (Keyword(w) \o <<"(">> \o Quoted(v.str)) \o <<")">>
      BY <1>1, <1>6, <2>6, PlainUnfolded
    <3>2. v.str \in Seq(Characters) \cup {NULL}
      BY <1>6, <2>6, PlainUnfolded DEF StringTypes
    <3>3. PICK q : q = Quoted(v.str)
      OBVIOUS
    <3>4. q \in Seq(Signs)
      BY <3>2, <3>3, StringsTyped, BareJoined
    <3>5. PICK a, b, k : a = <<"(">> /\ b = <<")">> /\ k = Keyword(w)
      OBVIOUS
    <3>6. a \in Seq(Signs) /\ b \in Seq(Signs) /\ k \in Seq(Signs) /\ k # <<>> /\ k[1] = w
      <4>1. {"(", ")", w, "~"} \subseteq Signs
        BY DEF Signs, Marks, Keywords
      <4> QED BY <3>5, <4>1, SignsJoined DEF Keyword
    <3>7. \A r, s \in Seq(Signs) : r \o s \in Seq(Signs) /\ (r # <<>> => (r \o s)[1] = r[1] /\ r \o s # <<>>)
      OBVIOUS
    <3>8. PICK ka : ka = k \o a
      OBVIOUS
    <3>9. ka \in Seq(Signs) /\ ka # <<>> /\ ka[1] = w
      BY <3>6, <3>7, <3>8
    <3>10. PICK kq : kq = ka \o q
      OBVIOUS
    <3>11. kq \in Seq(Signs) /\ kq # <<>> /\ kq[1] = w
      BY <3>4, <3>7, <3>9, <3>10
    <3>12. t = kq \o b
      BY <3>1, <3>3, <3>5, <3>8, <3>10
    <3>13. t # <<>> /\ t[1] = w
      BY <3>6, <3>7, <3>11, <3>12
    <3>14. w \notin NoBeginning
      BY DEF NoBeginning, EOF, NewLine
    <3> QED BY <1>1, <1>2, <3>13, <3>14
  <2> QED BY <1>6, <2>1, <2>2, <2>3, <2>4, <2>5, <2>6 DEF PlainTypes, StringTypes
<1>7. v.type \in PlainTypes \/ v.type \in Containers
  BY TextAssumption
<1> QED BY <1>5, <1>6, <1>7

\* The signs behind a value in an array and before one in an object.
Comma == ","
EqualSign == "="

\* How much of what is written of member i stands before its value.
Lead(w, i) == IF w.type = "array" THEN 0 ELSE IF Shorthand(Child(w, i)) THEN 1 ELSE 2

\* Where the text of a member stands.
LEMMA PieceAt ==
  ASSUME NEW w \in Values, w.type \in Containers, NEW T \in Seq(Signs), NEW c, Stands(T, c, Content(w)),
         NEW i \in 1 .. Len(Members(w))
  PROVE  /\ c \in Nat /\ Place(w)[i] \in Nat /\ Place(w)[i + 1] \in Nat
         /\ Piece(w, i) \in Seq(Signs) /\ Stands(T, c + Place(w)[i], Piece(w, i))
         /\ Place(w)[i + 1] = Place(w)[i] + Len(Piece(w, i)) /\ Place(w)[i + 1] <= Len(Content(w))
<1>1. PICK n, ps, all, at, s : n = Len(Members(w)) /\ ps = Pieces(w) /\ all = Content(w) /\ at = Place(w) /\ s = Piece(w, i)
  OBVIOUS
<1>2. /\ n \in Nat /\ i \in 1 .. n /\ Len(ps) = n /\ ps \in Seq(Seq(Signs)) /\ ps[i] = s /\ s \in Seq(Signs)
      /\ all \in Seq(Signs) /\ Layout(ps, all, at)
  BY <1>1, PiecesPlaced
<1>3. /\ at \in [1 .. n + 1 -> Nat] /\ at[i + 1] = at[i] + Len(s) /\ \A j \in 1 .. Len(s) : all[at[i] + j] = s[j]
  BY <1>2 DEF Layout
<1>4. i \in 1 .. n + 1 /\ i + 1 \in 1 .. n + 1
  BY <1>2
<1>5. at[i] \in Nat /\ at[i + 1] \in Nat
  BY <1>3, <1>4
<1>6. at[i] + Len(s) <= Len(all)
  BY <1>2, LayoutFits
<1>7. Stands(all, at[i], s)
  BY <1>3, <1>5, <1>6 DEF Stands
<1>8. Stands(T, c, all)
  BY <1>1
<1>9. Stands(T, c + at[i], s) /\ c \in Nat
  <2>1. PICK q : q = at[i]
    OBVIOUS
  <2>2. all \in Seq(Signs) /\ s \in Seq(Signs) /\ Stands(T, c, all) /\ Stands(all, q, s)
    BY <1>2, <1>7, <1>8, <2>1
  <2>3. Stands(T, c + q, s)
    BY <2>2, StandsWithin
  <2>4. c \in Nat
    BY <1>8 DEF Stands
  <2> QED BY <2>1, <2>3, <2>4
<1> QED BY <1>1, <1>2, <1>3, <1>5, <1>6, <1>9

\* In an array: the value, a comma if another one follows, and the end of the line.
LEMMA ItemStands ==
  ASSUME NEW w \in Values, w.type = "array", NEW T \in Seq(Signs), NEW i \in 1 .. Len(Members(w)),
         NEW p, Stands(T, p, Piece(w, i)), NEW t, t = ValueText[Child(w, i)]
  PROVE  /\ Stands(T, p, t) /\ Len(t) \in Nat /\ p \in Nat /\ p + Len(Piece(w, i)) <= Len(T) /\ Len(T) \in Nat
         /\ T[p + Len(Piece(w, i))] = NewLine
         /\ IF i < Len(Members(w))
            THEN p + Len(Piece(w, i)) = (p + Len(t)) + 2 /\ T[(p + Len(t)) + 1] = Comma
            ELSE p + Len(Piece(w, i)) = (p + Len(t)) + 1
<1>1. t \in Seq(Signs) /\ Len(T) \in Nat
  BY MembersBelow, ValuesTyped
<1>2. PICK x, y : x = Comma /\ y = NewLine
  OBVIOUS
<1>3. x \in Signs /\ y \in Signs
  BY <1>2 DEF Signs, Marks, Comma
<1>4. PICK nl, s : nl = <<y>> /\ s = Piece(w, i)
  OBVIOUS
<1>5. nl \in Seq(Signs) /\ Len(nl) = 1
  BY <1>3, <1>4, SignsJoined
<1>6. Stands(T, p, s)
  BY <1>4
<1>7. CASE i < Len(Members(w))
  <2>1. PICK a : a = <<x>>
    OBVIOUS
  <2>2. a \in Seq(Signs) /\ Len(a) = 1
    BY <1>3, <2>1, SignsJoined
  <2>3. PICK ta : ta = t \o a
    OBVIOUS
  <2>4. ta \in Seq(Signs)
    BY <1>1, <2>2, <2>3, SignsJoined
  <2>5. s = ta \o nl
    BY <1>2, <1>4, <1>7, <2>1, <2>3 DEF Piece, Comma
  <2>6. Stands(T, p, ta \o nl)
    BY <1>6, <2>5
  <2>7. Stands(T, p, ta) /\ Stands(T, p + Len(ta), nl) /\ Len(ta \o nl) = Len(ta) + Len(nl) /\ p \in Nat
    <3>1. ta \in Seq(Signs) /\ nl \in Seq(Signs) /\ Stands(T, p, ta \o nl)
      BY <1>5, <2>4, <2>6
    <3> QED BY <3>1, StandsBoth
  <2>8. Stands(T, p, t \o a)
    BY <2>3, <2>7
  <2>9. Stands(T, p, t) /\ Stands(T, p + Len(t), a) /\ Len(t \o a) = Len(t) + Len(a) /\ Len(t) \in Nat
    <3>1. t \in Seq(Signs) /\ a \in Seq(Signs) /\ Stands(T, p, t \o a)
      BY <1>1, <2>2, <2>8
    <3> QED BY <3>1, StandsBoth
  <2>10. Len(ta) = Len(t) + 1 /\ Len(s) = Len(t) + 2
    BY <1>5, <2>2, <2>3, <2>5, <2>7, <2>9
  <2>11. Stands(T, p + Len(t), <<x>>) /\ Stands(T, p + Len(ta), <<y>>)
    BY <1>4, <2>1, <2>7, <2>9
  <2>12. T[(p + Len(t)) + 1] = x
    BY <2>11, StandsOne
  <2>13. T[(p + Len(ta)) + 1] = y /\ (p + Len(ta)) + 1 <= Len(T)
    BY <2>11, StandsOne
  <2>14. (p + Len(ta)) + 1 = p + Len(s) /\ p + Len(s) = (p + Len(t)) + 2
    BY <2>7, <2>9, <2>10
  <2> QED BY <1>1, <1>2, <1>4, <1>7, <2>7, <2>9, <2>12, <2>13, <2>14
<1>8. CASE ~ (i < Len(Members(w)))
  <2>1. s = t \o nl
    <3>1. PICK a \in Seq(Signs) : a = <<>>
      BY SignsJoined
    <3>2. s = (t \o a) \o nl
      BY <1>2, <1>4, <1>8, <3>1 DEF Piece
    <3>3. t \o a = t
      <4>1. \A u \in Seq(Signs) : u \o <<>> = u
        OBVIOUS
      <4> QED BY <1>1, <3>1, <4>1
    <3> QED BY <3>2, <3>3
  <2>2. Stands(T, p, t \o nl)
    BY <1>6, <2>1
  <2>3. Stands(T, p, t) /\ Stands(T, p + Len(t), nl) /\ Len(t \o nl) = Len(t) + Len(nl) /\ Len(t) \in Nat /\ p \in Nat
    <3>1. t \in Seq(Signs) /\ nl \in Seq(Signs) /\ Stands(T, p, t \o nl)
      BY <1>1, <1>5, <2>2
    <3> QED BY <3>1, StandsBoth
  <2>4. Stands(T, p + Len(t), <<y>>)
    BY <1>4, <2>3
  <2>5. T[(p + Len(t)) + 1] = y /\ (p + Len(t)) + 1 <= Len(T)
    BY <2>4, StandsOne
  <2>6. p + Len(s) = (p + Len(t)) + 1
    BY <1>5, <2>1, <2>3
  <2> QED BY <1>1, <1>2, <1>4, <1>8, <2>3, <2>5, <2>6
<1> QED BY <1>7, <1>8

\* In an object: the key, "=" unless the value is an object in shorthand, the
\* value, and the end of the line.
LEMMA PropertyStands ==
  ASSUME NEW w \in Values, w.type \in ObjectTypes, NEW T \in Seq(Signs), NEW i \in 1 .. Len(Members(w)),
         NEW p, Stands(T, p, Piece(w, i)), NEW t, t = ValueText[Child(w, i)]
  PROVE  /\ T[p + 1] = KeyOf(w, i) /\ Len(t) \in Nat /\ p \in Nat /\ p + Len(Piece(w, i)) <= Len(T) /\ Len(T) \in Nat
         /\ ~ Shorthand(Child(w, i)) => T[p + 2] = EqualSign
         /\ Stands(T, p + Lead(w, i), t) /\ p + Len(Piece(w, i)) = ((p + Lead(w, i)) + Len(t)) + 1
         /\ T[p + Len(Piece(w, i))] = NewLine
<1>1. t \in Seq(Signs) /\ Len(T) \in Nat /\ w.type # "array"
  BY MembersBelow, ValuesTyped, TypesApart
<1>2. PICK x, y, z : x = KeyOf(w, i) /\ y = NewLine /\ z = EqualSign
  OBVIOUS
<1>3. x \in Signs /\ y \in Signs /\ z \in Signs
  <2>1. x \in Contents
    BY <1>2, MembersBelow
  <2> QED BY <1>2, <2>1 DEF Signs, Marks, EqualSign
<1>4. PICK nl, s, key, sign : /\ nl = <<y>> /\ s = Piece(w, i) /\ key = <<x>>
                              /\ sign = IF Shorthand(Child(w, i)) THEN <<>> ELSE <<z>>
  OBVIOUS
<1>5. nl \in Seq(Signs) /\ Len(nl) = 1 /\ key \in Seq(Signs) /\ Len(key) = 1
  BY <1>3, <1>4, SignsJoined
<1>6. sign \in Seq(Signs) /\ Len(sign) = IF Shorthand(Child(w, i)) THEN 0 ELSE 1
  BY <1>3, <1>4, SignsJoined
<1>7. PICK h : h = key \o sign
  OBVIOUS
<1>8. h \in Seq(Signs)
  BY <1>5, <1>6, <1>7, SignsJoined
<1>9. PICK ht : ht = h \o t
  OBVIOUS
<1>10. ht \in Seq(Signs)
  BY <1>1, <1>8, <1>9, SignsJoined
<1>11. s = ht \o nl
  BY <1>1, <1>2, <1>4, <1>7, <1>9 DEF Piece, EqualSign
<1>12. Stands(T, p, ht \o nl)
  BY <1>4, <1>11
<1>13. Stands(T, p, ht) /\ Stands(T, p + Len(ht), nl) /\ Len(ht \o nl) = Len(ht) + Len(nl) /\ p \in Nat
  <2>1. ht \in Seq(Signs) /\ nl \in Seq(Signs) /\ Stands(T, p, ht \o nl)
    BY <1>5, <1>10, <1>12
  <2> QED BY <2>1, StandsBoth
<1>14. Stands(T, p, h \o t)
  BY <1>9, <1>13
<1>15. Stands(T, p, h) /\ Stands(T, p + Len(h), t) /\ Len(h \o t) = Len(h) + Len(t) /\ Len(t) \in Nat
  <2>1. h \in Seq(Signs) /\ t \in Seq(Signs) /\ Stands(T, p, h \o t)
    BY <1>1, <1>8, <1>14
  <2> QED BY <2>1, StandsBoth
<1>16. Stands(T, p, key \o sign)
  BY <1>7, <1>15
<1>17. Stands(T, p, key) /\ Stands(T, p + Len(key), sign) /\ Len(key \o sign) = Len(key) + Len(sign)
  <2>1. key \in Seq(Signs) /\ sign \in Seq(Signs) /\ Stands(T, p, key \o sign)
    BY <1>5, <1>6, <1>16
  <2> QED BY <2>1, StandsBoth
<1>18. Len(h) = Lead(w, i) /\ Lead(w, i) \in Nat
  BY <1>1, <1>5, <1>6, <1>7, <1>17 DEF Lead
<1>19. Len(ht) = Lead(w, i) + Len(t) /\ Len(s) = (Lead(w, i) + Len(t)) + 1
  BY <1>5, <1>9, <1>11, <1>13, <1>15, <1>18
<1>20. p + Len(s) = ((p + Lead(w, i)) + Len(t)) + 1 /\ (p + Len(ht)) + 1 = p + Len(s)
  <2>1. PICK ld, lt, ls, lh : ld = Lead(w, i) /\ lt = Len(t) /\ ls = Len(s) /\ lh = Len(ht)
    OBVIOUS
  <2>2. p \in Nat /\ ld \in Nat /\ lt \in Nat /\ lh = ld + lt /\ ls = (ld + lt) + 1
    BY <1>13, <1>15, <1>18, <1>19, <2>1
  <2>3. p + ls = ((p + ld) + lt) + 1 /\ (p + lh) + 1 = p + ls
    BY <2>2
  <2> QED BY <2>1, <2>3
<1>21. T[p + 1] = x
  <2>1. Stands(T, p, <<x>>)
    BY <1>4, <1>17
  <2> QED BY <2>1, StandsOne
<1>22. T[(p + Len(ht)) + 1] = y /\ (p + Len(ht)) + 1 <= Len(T)
  <2>1. Stands(T, p + Len(ht), <<y>>)
    BY <1>4, <1>13
  <2> QED BY <2>1, StandsOne
<1>23. ~ Shorthand(Child(w, i)) => T[p + 2] = z
  <2>1. ~ Shorthand(Child(w, i)) => Stands(T, p + 1, <<z>>)
    BY <1>4, <1>5, <1>17
  <2>2. ~ Shorthand(Child(w, i)) => T[(p + 1) + 1] = z
    BY <2>1, StandsOne
  <2>3. (p + 1) + 1 = p + 2
    BY <1>13
  <2> QED BY <2>2, <2>3
<1> QED BY <1>1, <1>2, <1>4, <1>13, <1>15, <1>18, <1>20, <1>21, <1>22, <1>23

-----------------------------------------------------------------------------
(* The beginning of a text that has arrived. *)
Arriving(T) == input \in Seq(Signs) /\ T \in Seq(Signs) /\ Begins(input, T)

\* A position in the text, or the end of what has arrived of it.
Cap(m) == IF m <= Len(input) THEN m ELSE Len(input)

\* A sign of the text is seen, or the end.
LEMMA SignSeen ==
  ASSUME NEW T, Arriving(T), NEW k \in Nat \ {0}
  PROVE  /\ Len(input) \in Nat /\ Len(T) \in Nat /\ Len(input) <= Len(T)
         /\ k <= Len(input) => At(k) = T[k] /\ At(k) # EOF
         /\ ~ (k <= Len(input)) => At(k) = EOF
<1>1. /\ Len(input) \in Nat /\ Len(T) \in Nat /\ Len(input) <= Len(T) /\ DOMAIN input = 1 .. Len(input)
      /\ input \in Seq(Signs) /\ \A j \in 1 .. Len(input) : input[j] = T[j]
  BY DEF Arriving, Begins
<1>2. k <= Len(input) => At(k) = T[k] /\ At(k) # EOF
  <2>1. k <= Len(input) => k \in 1 .. Len(input)
    BY <1>1
  <2>2. k <= Len(input) => At(k) = input[k] /\ input[k] \in Signs
    BY <1>1, <2>1 DEF At, CharAt
  <2> QED BY <1>1, <2>1, <2>2, NoEnd
<1>3. ~ (k <= Len(input)) => At(k) = EOF
  <2>1. ~ (k <= Len(input)) => k > Len(input)
    BY <1>1
  <2> QED BY <1>1, <2>1, SeesEnd
<1> QED BY <1>1, <1>2, <1>3

\* Blank lines end where something else is seen, and no comment begins.
Breaks == {NewLine, "#"}
LEMMA BlanksAre ==
  ASSUME input \in Seq(Signs), NEW p \in Nat, NEW q \in p .. Len(input) + 1, At(q) \notin Breaks,
         \A k \in p .. q - 1 : At(k) = NewLine
  PROVE  BlanksEnd(p) = q
<1>1. PICK n : n = Len(input) + 1
  OBVIOUS
<1>2. n \in Nat /\ p \in Nat /\ q \in p .. n
  BY <1>1
<1>3. ~Skipped(p, q) /\ \A k \in p .. q - 1 : Skipped(p, k)
  <2>1. At(q) # NewLine /\ \A h \in p .. q : At(h) # "#"
    <3>1. NewLine # "#" /\ At(q) # "#" /\ At(q) # NewLine
      BY DEF Breaks, NewLine
    <3>2. \A h \in p .. q : h = q \/ h \in p .. q - 1
      BY <1>2
    <3> QED BY <3>1, <3>2
  <2> QED BY <2>1 DEF Skipped
<1>4. ASSUME NEW r \in p .. n, ~Skipped(p, r), \A k \in p .. r - 1 : Skipped(p, k)  PROVE r = q
  <2>1. ~ (r < q)
    <3>1. r < q => r \in p .. q - 1
      BY <1>2
    <3> QED BY <1>3, <1>4, <3>1
  <2>2. ~ (q < r)
    <3>1. q < r => q \in p .. r - 1
      BY <1>2
    <3> QED BY <1>3, <1>4, <3>1
  <2> QED BY <1>2, <2>1, <2>2
<1> QED BY <1>1, <1>2, <1>3, <1>4 DEF BlanksEnd

\* Keywords in two parts of the text.
LEMMA KeywordsJoin ==
  ASSUME NEW a \in Nat, NEW b \in Nat, NEW c \in Nat, KeywordsIn(a, b), KeywordsIn(b, c)
  PROVE  KeywordsIn(a, c)
<1>1. \A p \in a + 1 .. c : p \in a + 1 .. b \/ p \in b + 1 .. c
  OBVIOUS
<1> QED BY <1>1 DEF KeywordsIn
LEMMA KeywordsPart ==
  ASSUME NEW a \in Nat, NEW b \in Nat, NEW c \in Nat, NEW d \in Nat, KeywordsIn(a, d), a <= b, c <= d
  PROVE  KeywordsIn(b, c)
<1>1. \A p \in b + 1 .. c : p \in a + 1 .. d
  OBVIOUS
<1> QED BY <1>1 DEF KeywordsIn
LEMMA NoKeywordsIn ==
  ASSUME NEW a, NEW b, \A p \in a + 1 .. b : At(p) \notin Keywords \/ At(p + 1) # "~"
  PROVE  KeywordsIn(a, b)
BY DEF KeywordsIn

\* None of the signs around keys and values is a keyword.
LEMMA SignsApart ==
  /\ \A c \in {"=", ",", "[", "]", "{", "}", NewLine, EOF, "~", "1"} : c \notin Keywords
  /\ \A c \in {"=", ",", "[", "]", "{", "}", NewLine, EOF} : c # "~"
BY DEF Keywords, Vectors, VectorSize, EOF, NewLine

\* How much of the text of a container is read when it is opened, and when it is.
Gate(v) == IF Brim(v) = 5 THEN 4 ELSE 1
Enters(v, o) ==
  o + Gate(v) <= Len(input) /\ v.name \in Identifiers \cup {NULL} /\ KeywordsIn(o, o + Gate(v))

\* What is made of it then, with the members ms.
Look(v) == IF v.type = "array" THEN "array" ELSE IF v.name = NULL THEN "object" ELSE "subresource"
Shell(type, name, ms) == [type |-> type, name |-> name, version |-> 0, members |-> ms]

\* A container without a type name begins with its bracket.
LEMMA BracketRead ==
  ASSUME NEW T, Arriving(T), NEW v \in Values, v.type \in Containers, Brim(v) # 5,
         NEW o \in 0 .. Len(input), Stands(T, o, ValueText[v])
  PROVE  /\ PlainAt(o + 1) = Bad
         /\ ContainerAt(o + 1) =
              IF Enters(v, o) THEN Read((o + Gate(v)) + 1, Shell(Look(v), v.name, <<>>)) ELSE Bad
<1>1. PICK n : n = Len(input)
  OBVIOUS
<1>2. n \in Nat /\ o \in Nat /\ o <= n /\ T \in Seq(Signs) /\ o + 1 \in Nat \ {0} /\ (o + 1) + 1 \in Nat \ {0}
  BY <1>1 DEF Arriving
<1>3. Brim(v) \in {1, 2} /\ T[o + 1] = Opens(v)
  <2>1. PICK e : e = o + Len(ValueText[v])
    OBVIOUS
  <2>2. Brim(v) \in {1, 2, 5} /\ (Brim(v) \in {1, 2} => T[o + 1] = Opens(v))
    BY <1>2, <2>1, ShellStands
  <2> QED BY <2>2
<1>4. v.name = NULL
  <2>1. ContainerOK(v)
    BY ContainerTypes
  <2>2. v.type = "array" \/ v.members = NULL => v.name = NULL
    BY <2>1 DEF ContainerOK
  <2> QED BY <2>2 DEF Brim
<1>5. At(o + 1) = IF o + 1 <= n THEN Opens(v) ELSE EOF
  BY <1>1, <1>2, <1>3, SignSeen
<1>6. At(o + 1) \notin Keywords /\ At(o + 1) \notin {"\"", "-"} /\ ~ IsDigit(At(o + 1))
  <2>1. At(o + 1) \in {"[", "{", EOF}
    BY <1>5 DEF Opens
  <2>2. \A c \in {"[", "{", EOF} : c \notin Range(Digits)
    BY DigitsApart
  <2> QED BY <2>1, <2>2, SignsApart DEF IsDigit, EOF
<1>7. PlainAt(o + 1) = Bad
  BY <1>6, NoKeyword
<1>8. Enters(v, o) <=> o + 1 <= n
  <2>1. \A p \in o + 1 .. o + 1 : p = o + 1
    BY <1>2
  <2>2. KeywordsIn(o, o + 1)
    BY <1>6, <2>1, NoKeywordsIn
  <2> QED BY <1>1, <1>3, <1>4, <2>2 DEF Enters, Gate
<1>9. Blank("array") = Shell("array", NULL, <<>>) /\ Blank("object") = Shell("object", NULL, <<>>)
  BY DEF Blank, Shell
<1>10. CASE o + 1 <= n
  <2>1. At(o + 1) = Opens(v)
    BY <1>5, <1>10
  <2>2. CASE v.type = "array"
    <3>1. At(o + 1) = "["
      BY <2>1, <2>2 DEF Opens
    <3>2. ContainerAt(o + 1) = Read((o + 1) + 1, Blank("array"))
      BY <1>6, <3>1, NoKeyword
    <3> QED BY <1>3, <1>4, <1>7, <1>8, <1>9, <1>10, <2>2, <3>2 DEF Gate, Look
  <2>3. CASE v.type # "array"
    <3>1. At(o + 1) = "{"
      BY <2>1, <2>3 DEF Opens
    <3>2. ContainerAt(o + 1) = Read((o + 1) + 1, Blank("object"))
      BY <1>6, <3>1, NoKeyword
    <3> QED BY <1>3, <1>4, <1>7, <1>8, <1>9, <1>10, <2>3, <3>2 DEF Gate, Look
  <2> QED BY <2>2, <2>3
<1>11. CASE ~ (o + 1 <= n)
  <2>1. At(o + 1) \notin {"[", "{"}
    BY <1>5, <1>11 DEF EOF
  <2>2. ContainerAt(o + 1) = Bad
    BY <1>6, <2>1, NoKeyword
  <2> QED BY <1>7, <1>8, <1>11, <2>2
<1> QED BY <1>10, <1>11

\* One with a type name begins with a keyword.
LEMMA SubresourceRead ==
  ASSUME NEW T, Arriving(T), NEW v \in Values, v.type \in Containers, Brim(v) = 5,
         NEW o \in 0 .. Len(input), Stands(T, o, ValueText[v])
  PROVE  /\ PlainAt(o + 1) = Bad
         /\ ContainerAt(o + 1) =
              IF Enters(v, o) THEN Read((o + Gate(v)) + 1, Shell(Look(v), v.name, <<>>)) ELSE Bad
<1>1. PICK n, x : n = Len(input) /\ x = v.name
  OBVIOUS
<1>2. n \in Nat /\ o \in Nat /\ o <= n /\ T \in Seq(Signs)
  BY <1>1 DEF Arriving
<1>3. /\ T[o + 1] = "subresource" /\ T[o + 2] = "~" /\ T[o + 3] = x /\ T[o + 4] = "{"
  <2>1. PICK e : e = o + Len(ValueText[v])
    OBVIOUS
  <2>2. NamedAt(T, o, v.name)
    BY <1>2, <2>1, ShellStands
  <2> QED BY <1>1, <2>2 DEF NamedAt
<1>4. x # NULL /\ v.type # "array" /\ Gate(v) = 4 /\ Look(v) = "subresource"
  <2>1. x # NULL /\ v.type # "array"
    BY <1>1 DEF Brim
  <2> QED BY <1>1, <2>1 DEF Gate, Look
<1>5. o + 1 \in Nat \ {0} /\ o + 2 \in Nat \ {0} /\ o + 3 \in Nat \ {0} /\ o + 4 \in Nat \ {0}
  BY <1>2
<1>6. /\ At(o + 1) = IF o + 1 <= n THEN "subresource" ELSE EOF
      /\ At(o + 2) = IF o + 2 <= n THEN "~" ELSE EOF
      /\ At(o + 3) = IF o + 3 <= n THEN x ELSE EOF
      /\ At(o + 4) = IF o + 4 <= n THEN "{" ELSE EOF
  BY <1>1, <1>3, <1>5, SignSeen
<1>7. /\ (o + 1) + 1 = o + 2 /\ (o + 1) + 2 = o + 3 /\ (o + 1) + 3 = o + 4 /\ (o + 1) + 4 = (o + 4) + 1
      /\ (o + 2) + 1 = o + 3 /\ (o + 3) + 1 = o + 4
  BY <1>2
<1>8. Enters(v, o) <=> o + 4 <= n /\ x \in Identifiers /\ KeywordsIn(o, o + 4)
  BY <1>1, <1>4 DEF Enters
<1>9. "subresource" \in Keywords /\ "~" \notin Keywords /\ "{" \notin Keywords /\ EOF \notin Keywords /\ "~" # EOF /\ "{" # "~" /\ EOF # "{"
  BY SignsApart DEF Keywords, EOF
<1>10. CASE ~ (o + 1 <= n)
  <2>1. At(o + 1) = EOF /\ ~ (o + 4 <= n)
    <3>1. ~ (o + 4 <= n)
      BY <1>2, <1>10
    <3>2. At(o + 1) = EOF
      BY <1>6, <1>10
    <3> QED BY <3>1, <3>2
  <2>2. EOF \notin {"\"", "-", "[", "{"} /\ ~ IsDigit(EOF)
    BY FollowApart DEF EOF
  <2>3. PlainAt(o + 1) = Bad /\ ContainerAt(o + 1) = Bad
    BY <1>9, <2>1, <2>2, NoKeyword
  <2> QED BY <1>8, <2>1, <2>3
<1>11. CASE o + 1 <= n /\ ~ KeywordAt(o + 1, "subresource")
  <2>1. At(o + 1) = "subresource"
    BY <1>6, <1>11
  <2>2. PlainAt(o + 1) = Bad /\ ContainerAt(o + 1) = Bad
    BY <1>9, <1>11, <2>1, SomeKeyword
  <2>3. ~ (o + 4 <= n /\ KeywordsIn(o, o + 4))
    <3> SUFFICES ASSUME o + 4 <= n, KeywordsIn(o, o + 4)  PROVE FALSE
      OBVIOUS
    <3>1. o + 2 <= n /\ o + 1 \in o + 1 .. o + 4
      BY <1>2
    <3>2. At(o + 2) = "~" /\ At((o + 1) + 1) = "~"
      BY <1>6, <1>7, <3>1
    <3>3. SameBuffer(o + 1, (o + 1) + 1)
      BY <1>9, <2>1, <3>1, <3>2 DEF KeywordsIn
    <3> QED BY <1>11, <2>1, <3>2, <3>3 DEF KeywordAt
  <2> QED BY <1>8, <2>2, <2>3
<1>12. CASE o + 1 <= n /\ KeywordAt(o + 1, "subresource")
  <2>1. At(o + 1) = "subresource" /\ At(o + 2) = "~" /\ SameBuffer(o + 1, (o + 1) + 1)
    BY <1>7, <1>12 DEF KeywordAt
  <2>2. /\ PlainAt(o + 1) = Bad
        /\ ContainerAt(o + 1) = IF At((o + 1) + 2) \in Identifiers /\ At((o + 1) + 3) = "{"
                                THEN Read((o + 1) + 4, [Blank("subresource") EXCEPT !.name = At((o + 1) + 2)]) ELSE Bad
    BY <1>9, <1>12, <2>1, SomeKeyword
  <2>3. At(o + 4) = "{" <=> o + 4 <= n
    BY <1>6, <1>9
  <2>4. o + 4 <= n => At(o + 3) = x
    <3>1. o + 4 <= n => o + 3 <= n
      BY <1>2
    <3> QED BY <1>6, <3>1
  <2>5. o + 4 <= n => KeywordsIn(o, o + 4)
    <3>1. \A p \in o + 1 .. o + 4 : p = o + 1 \/ p = o + 2 \/ p = o + 3 \/ p = o + 4
      BY <1>2
    <3>2. o + 4 <= n => At(o + 2) \notin Keywords /\ At((o + 3) + 1) # "~" /\ At(o + 4) \notin Keywords
      BY <1>6, <1>7, <1>9, <2>1, <2>3
    <3> QED BY <2>1, <3>1, <3>2 DEF KeywordsIn
  <2>6. [Blank("subresource") EXCEPT !.name = x] = Shell("subresource", x, <<>>)
    <3>1. PICK s : s = "subresource"
      OBVIOUS
    <3>2. Blank(s) = [type |-> s, name |-> NULL, version |-> 0, members |-> <<>>]
      BY DEF Blank
    <3>3. [Blank(s) EXCEPT !.name = x] = [type |-> s, name |-> x, version |-> 0, members |-> <<>>]
      BY <3>2
    <3> QED BY <3>1, <3>3 DEF Shell
  <2>7. CASE o + 4 <= n /\ x \in Identifiers
    <3>1. ContainerAt(o + 1) = Read((o + 4) + 1, [Blank("subresource") EXCEPT !.name = x])
      BY <1>7, <2>2, <2>3, <2>4, <2>7
    <3> QED BY <1>1, <1>4, <1>8, <2>2, <2>5, <2>6, <2>7, <3>1
  <2>8. CASE ~ (o + 4 <= n /\ x \in Identifiers)
    <3>1. ContainerAt(o + 1) = Bad
      BY <1>7, <2>2, <2>3, <2>4, <2>8
    <3> QED BY <1>8, <2>2, <2>8, <3>1
  <2> QED BY <2>7, <2>8
<1> QED BY <1>10, <1>11, <1>12

\* What parser_parse_value makes of the beginning of a container.
LEMMA ContainerRead ==
  ASSUME NEW T, Arriving(T), NEW v \in Values, v.type \in Containers,
         NEW o \in 0 .. Len(input), Stands(T, o, ValueText[v])
  PROVE  /\ PlainAt(o + 1) = Bad
         /\ ContainerAt(o + 1) =
              IF Enters(v, o) THEN Read((o + Gate(v)) + 1, Shell(Look(v), v.name, <<>>)) ELSE Bad
<1>1. CASE Brim(v) = 5
  BY <1>1, SubresourceRead
<1>2. CASE Brim(v) # 5
  BY <1>2, BracketRead
<1> QED BY <1>1, <1>2

\* The first member stands where the content begins, and behind the last it ends.
LEMMA PlaceEnds ==
  ASSUME NEW w \in Values, w.type \in Containers
  PROVE  /\ Place(w)[1] = 0 /\ Place(w)[Len(Members(w)) + 1] = Len(Content(w)) /\ Len(Content(w)) \in Nat
         /\ Place(w) \in [1 .. Len(Members(w)) + 1 -> Nat] /\ Len(Members(w)) \in Nat
<1>1. /\ Len(Pieces(w)) = Len(Members(w)) /\ Layout(Pieces(w), Content(w), Place(w))
      /\ Content(w) \in Seq(Signs) /\ Len(Members(w)) \in Nat
  BY PiecesPlaced
<1>2. Len(Content(w)) \in Nat
  BY <1>1
<1> QED BY <1>1, <1>2 DEF Layout

\* The text begins with a line for the version, and if there is anything in the
\* document with an empty line; the rest is the content of the root object.
LEMMA TextStands ==
  ASSUME NEW root \in Documents
  PROVE  LET T == Text(root)
             b == IF Members(root) = <<>> THEN 4 ELSE 5 IN
         /\ root \in Values /\ root.type = "object" /\ root.type \in Containers /\ T \in Seq(Signs) /\ Len(T) \in Nat
         /\ T[1] = "kdf" /\ T[2] = "~" /\ T[3] = "1" /\ T[4] = NewLine /\ (b = 5 => T[5] = NewLine)
         /\ Stands(T, b, Content(root)) /\ b + Len(Content(root)) = Len(T) /\ Len(T) >= 4
<1>1. PICK T : T = Text(root)
  OBVIOUS
<1>2. /\ T \in Seq(Signs) /\ Len(T) \in Nat
      /\ root \in Values /\ root.type = "object" /\ root.type \in Containers /\ root.members # NULL
  BY <1>1, TextTyped, TextAssumption DEF Containers, ObjectTypes
<1>3. PICK k, v, y, w, c : k = "kdf" /\ v = "1" /\ y = NewLine /\ w = "~" /\ c = Content(root)
  OBVIOUS
<1>4. k \in Signs /\ v \in Signs /\ y \in Signs /\ w \in Signs
  BY <1>3 DEF Signs, Marks, Keywords
<1>5. c \in Seq(Signs) /\ Len(c) \in Nat
  <2>1. c \in Seq(Signs)
    BY <1>2, <1>3, PiecesPlaced
  <2> QED BY <2>1
<1>6. Members(root) # <<>> => BodyText(root, [i \in DOMAIN Members(root) |-> ValueText[Child(root, i)]]) = c
  <2>1. ASSUME Members(root) # <<>>
        PROVE  BodyText(root, OfMembers(root, ValueText)) = c
    <3>1. root.type # "array"
      BY <1>2
    <3>2. DOMAIN OfMembers(root, ValueText) = DOMAIN Members(root)
          /\ \A i \in DOMAIN Members(root) : OfMembers(root, ValueText)[i] = ValueText[Child(root, i)]
      BY DEF OfMembers
    <3>3. BodyText(root, OfMembers(root, ValueText)) = FlattenSeq([i \in DOMAIN Members(root) |-> Piece(root, i)])
      BY <1>2, <3>1, <3>2, KeysWords DEF BodyText, Piece, ObjectTypes
    <3> QED BY <1>3, <3>3 DEF Content, Pieces
  <2> QED BY <2>1 DEF OfMembers
<1>7. PICK a, l, body : /\ a = <<k, w>> /\ l = <<v, y>>
                        /\ body = IF Members(root) = <<>> THEN <<>> ELSE <<y>> \o c
  OBVIOUS
<1>8. PICK al : al = a \o l
  OBVIOUS
<1>9. a \in Seq(Signs) /\ l \in Seq(Signs) /\ al \in Seq(Signs) /\ body \in Seq(Signs) /\ <<y>> \in Seq(Signs)
  <2>1. a \in Seq(Signs) /\ l \in Seq(Signs) /\ <<y>> \in Seq(Signs) /\ <<>> \in Seq(Signs)
    BY <1>4, <1>7, SignsJoined
  <2>2. al \in Seq(Signs) /\ <<y>> \o c \in Seq(Signs)
    BY <1>5, <1>8, <2>1, SignsJoined
  <2> QED BY <1>7, <2>1, <2>2
<1>10. T = al \o body
  BY <1>1, <1>3, <1>6, <1>7, <1>8 DEF Text, Keyword
<1>11. Stands(T, 0, al) /\ Stands(T, 0 + Len(al), body) /\ Len(al \o body) = Len(al) + Len(body)
  <2>1. Stands(T, 0, al \o body)
    BY <1>2, <1>10, StandsItself
  <2>2. al \in Seq(Signs) /\ body \in Seq(Signs) /\ Stands(T, 0, al \o body)
    BY <1>9, <2>1
  <2> QED BY <1>2, <2>2, StandsBoth
<1>12. Stands(T, 0, a) /\ Stands(T, 0 + Len(a), l) /\ Len(a \o l) = Len(a) + Len(l)
  <2>1. a \in Seq(Signs) /\ l \in Seq(Signs) /\ Stands(T, 0, a \o l)
    BY <1>8, <1>9, <1>11
  <2> QED BY <1>2, <2>1, StandsBoth
<1>13. Len(a) = 2 /\ Len(l) = 2
  BY <1>7
<1>14. Len(al) = 4 /\ 0 + Len(al) = 4 /\ 0 + Len(a) = 2
  BY <1>8, <1>12, <1>13
<1>15. Stands(T, 0, <<k, w>>) /\ Stands(T, 2, <<v, y>>)
  BY <1>7, <1>12, <1>14
<1>16. T[0 + 1] = k /\ T[0 + 2] = w
  BY <1>2, <1>15, StandsTwo
<1>17. T[2 + 1] = v /\ T[2 + 2] = y /\ 2 + 2 <= Len(T)
  BY <1>2, <1>15, StandsTwo
<1>18. Stands(T, 4, body) /\ Len(T) = 4 + Len(body)
  BY <1>10, <1>11, <1>14
<1>19. CASE Members(root) = <<>>
  <2>1. Len(body) = 0
    BY <1>7, <1>19
  <2>2. Len(c) = 0
    BY <1>2, <1>3, <1>19, NoContent
  <2>3. Stands(T, 4, c) /\ 4 + Len(c) = Len(T)
    <3>1. \A j : j \notin 1 .. 0
      OBVIOUS
    <3>2. Len(T) = 4
      BY <1>18, <2>1
    <3> QED BY <2>2, <3>1, <3>2 DEF Stands
  <2> QED BY <1>1, <1>2, <1>3, <1>16, <1>17, <1>19, <2>3
<1>20. CASE Members(root) # <<>>
  <2>1. body = <<y>> \o c
    BY <1>7, <1>20
  <2>2. Stands(T, 4, <<y>>) /\ Stands(T, 4 + Len(<<y>>), c) /\ Len(<<y>> \o c) = Len(<<y>>) + Len(c)
    <3>1. PICK nl : nl = <<y>>
      OBVIOUS
    <3>2. T \in Seq(Signs) /\ nl \in Seq(Signs) /\ c \in Seq(Signs) /\ Stands(T, 4, nl \o c)
      BY <1>2, <1>5, <1>9, <1>18, <2>1, <3>1
    <3>3. Stands(T, 4, nl) /\ Stands(T, 4 + Len(nl), c) /\ Len(nl \o c) = Len(nl) + Len(c)
      BY <3>2, StandsBoth
    <3> QED BY <3>1, <3>3
  <2>3. Len(<<y>>) = 1
    OBVIOUS
  <2>4. T[4 + 1] = y
    BY <1>2, <2>2, StandsOne
  <2>5. Stands(T, 5, c)
    BY <2>2, <2>3
  <2>6. 5 + Len(c) = Len(T)
    BY <1>5, <1>18, <2>1, <2>2, <2>3
  <2> QED BY <1>1, <1>2, <1>3, <1>16, <1>17, <1>20, <2>4, <2>5, <2>6
<1> QED BY <1>19, <1>20

-----------------------------------------------------------------------------
\* Can a member of a container be read back, and all of them?  What is then
\* made of it, and of the first d of them?
FitMember(v, i) == (v.type = "array" \/ KeyOf(v, i) \in Identifiers) /\ Readable[Child(v, i)]
Fit(v) == \A i \in 1 .. Len(Members(v)) : FitMember(v, i)
KeptMember(v, i) == [key |-> KeyOf(v, i), value |-> Kept[Child(v, i)]]
So(v, d) == [i \in 1 .. d |-> KeptMember(v, i)]

\* The three functions on a container.
LEMMA ContainersKept ==
  ASSUME NEW v \in Values, v.type \in Containers
  PROVE  /\ Kept[v] = Shell(Look(v), v.name, So(v, Len(Members(v))))
         /\ Readable[v] <=> Fit(v) /\ v.name \in Identifiers \cup {NULL}
<1>1. PICK n : n = Len(Members(v))
  OBVIOUS
<1>2. n \in Nat /\ DOMAIN Members(v) = 1 .. n
  BY <1>1, MembersBelow
<1>3. /\ v.type \notin Numbers \cup StringTypes \cup Vectors
      /\ v.type = "array" \/ v.type \in ObjectTypes
      /\ ~ (v.type = "array" /\ v.type \in ObjectTypes)
      /\ v.type = "array" => v.name = NULL
  BY ContainerTypes DEF PlainTypes, ContainerOK
<1>4. DOMAIN OfMembers(v, Kept) = 1 .. n /\ \A i \in 1 .. n : OfMembers(v, Kept)[i] = Kept[Child(v, i)]
  BY <1>2 DEF OfMembers
<1>5. DOMAIN OfMembers(v, Readable) = 1 .. n /\ \A i \in 1 .. n : OfMembers(v, Readable)[i] = Readable[Child(v, i)]
  BY <1>2 DEF OfMembers
<1>6. Kept[v] = KeptOf(v, OfMembers(v, Kept)) /\ Readable[v] = ReadableOf(v, OfMembers(v, Readable))
  BY Unfolded
<1>7. PICK below, good : below = OfMembers(v, Kept) /\ good = OfMembers(v, Readable)
  OBVIOUS
<1>8. Kept[v] = Shell(Look(v), v.name, So(v, n))
  <2>1. [i \in DOMAIN below |-> [key |-> KeyOf(v, i), value |-> below[i]]] = So(v, n)
    BY <1>4, <1>7 DEF So, KeptMember
  <2>2. KeptOf(v, below) = [type |-> IF v.type = "array" THEN "array" ELSE IF v.name = NULL THEN "object" ELSE "subresource",
          name |-> v.name, version |-> 0,
          members |-> [i \in DOMAIN below |-> [key |-> KeyOf(v, i), value |-> below[i]]]]
    BY <1>3 DEF KeptOf
  <2> QED BY <1>6, <1>7, <2>1, <2>2 DEF Shell, Look
<1>9. Readable[v] <=> Fit(v) /\ v.name \in Identifiers \cup {NULL}
  <2>1. CASE v.type = "array"
    <3>1. ReadableOf(v, good) = (\A i \in DOMAIN good : good[i])
      BY <1>3, <2>1 DEF ReadableOf
    <3>2. (\A i \in DOMAIN good : good[i]) <=> \A i \in 1 .. n : Readable[Child(v, i)]
      BY <1>5, <1>7
    <3>3. Fit(v) <=> \A i \in 1 .. n : Readable[Child(v, i)]
      BY <1>1, <2>1 DEF Fit, FitMember
    <3> QED BY <1>3, <1>6, <1>7, <2>1, <3>1, <3>2, <3>3
  <2>2. CASE v.type # "array"
    <3>1. ReadableOf(v, good) = (/\ v.name \in Identifiers \cup {NULL}
                                 /\ \A i \in DOMAIN good : KeyOf(v, i) \in Identifiers /\ good[i])
      BY <1>3, <2>2 DEF ReadableOf
    <3>2. (\A i \in DOMAIN good : KeyOf(v, i) \in Identifiers /\ good[i])
            <=> \A i \in 1 .. n : KeyOf(v, i) \in Identifiers /\ Readable[Child(v, i)]
      BY <1>5, <1>7
    <3>3. Fit(v) <=> \A i \in 1 .. n : KeyOf(v, i) \in Identifiers /\ Readable[Child(v, i)]
      BY <1>1, <2>2 DEF Fit, FitMember
    <3> QED BY <1>6, <1>7, <3>1, <3>2, <3>3
  <2> QED BY <2>1, <2>2
<1> QED BY <1>1, <1>8, <1>9

\* A member with a key and a value.
Entry(key, x) == [key |-> key, value |-> x]

\* The value of the next member is stored behind those that were read.
LEMMA StoredNext ==
  ASSUME NEW w \in Values, w.type \in Containers, NEW d \in Nat, d + 1 \in 1 .. Len(Members(w)),
         NEW type, type = "array" <=> w.type = "array", NEW name, NEW x
  PROVE  /\ With(Shell(type, name, So(w, d)), KeyOf(w, d + 1), x)
              = Shell(type, name, Append(So(w, d), Entry(KeyOf(w, d + 1), x)))
         /\ Len(Append(So(w, d), Entry(KeyOf(w, d + 1), x))) = d + 1
         /\ Append(So(w, d), Entry(KeyOf(w, d + 1), x))[d + 1] = Entry(KeyOf(w, d + 1), x)
         /\ \A j \in 1 .. d : Append(So(w, d), Entry(KeyOf(w, d + 1), x))[j] = KeptMember(w, j)
         /\ x = Kept[Child(w, d + 1)] => Append(So(w, d), Entry(KeyOf(w, d + 1), x)) = So(w, d + 1)
<1>0. PICK i : i = d + 1
  OBVIOUS
<1>1. PICK ms, key, member : ms = So(w, d) /\ key = KeyOf(w, i) /\ member = [key |-> KeyOf(w, i), value |-> x]
  OBVIOUS
<1>2. /\ d \in Nat /\ Len(Members(w)) \in Nat /\ DOMAIN Members(w) = 1 .. Len(Members(w)) /\ i \in Nat
      /\ i \in 1 .. Len(Members(w)) /\ \A j \in 1 .. d : j \in 1 .. i - 1 /\ j # i
  BY <1>0, MembersBelow
<1>3. /\ ms \in Seq(Range(ms)) /\ Len(ms) = d /\ DOMAIN ms = 1 .. d /\ \A j \in 1 .. d : ms[j] = KeptMember(w, j)
  <2>1. ms = [j \in 1 .. d |-> KeptMember(w, j)]
    BY <1>1 DEF So
  <2> QED BY <1>2, <2>1 DEF Range
<1>4. PICK S : S = Range(ms) \cup {member}
  OBVIOUS
<1>5. ms \in Seq(S) /\ member \in S
  <2>1. \A j \in 1 .. d : ms[j] \in S
    BY <1>3, <1>4 DEF Range
  <2> QED BY <1>2, <1>3, <1>4, <2>1
<1>6. PICK more : more = Append(ms, member)
  OBVIOUS
<1>7. /\ Len(more) = d + 1 /\ more[d + 1] = member /\ \A j \in 1 .. d : more[j] = ms[j]
      /\ DOMAIN more = 1 .. d + 1 /\ more = [j \in 1 .. d + 1 |-> more[j]]
  <2>1. more \in Seq(S) /\ Len(more) = Len(ms) + 1 /\ (\A j \in 1 .. Len(ms) : more[j] = ms[j]) /\ more[Len(ms) + 1] = member
    <3>1. /\ Append(ms, member) \in Seq(S) /\ Len(Append(ms, member)) = Len(ms) + 1
          /\ (\A j \in 1 .. Len(ms) : Append(ms, member)[j] = ms[j]) /\ Append(ms, member)[Len(ms) + 1] = member
      BY <1>5, Appended
    <3> QED BY <1>6, <3>1
  <2>2. DOMAIN more = 1 .. Len(more) /\ more = [j \in 1 .. Len(more) |-> more[j]]
    BY <2>1
  <2> QED BY <1>3, <2>1, <2>2
<1>8. \/ w.type = "array" /\ KeyOf(w, i) = NULL
      \/ w.type # "array" /\ \A j \in 1 .. d : KeyOf(w, j) # KeyOf(w, i)
  <2>1. ContainerOK(w) /\ KeysOK(w) /\ (w.type = "array" \/ w.type \in ObjectTypes)
    BY ContainerTypes
  <2>2. w.type = "array" => KeyOf(w, i) = NULL
    BY <1>2, <2>1 DEF ContainerOK, KeyOf
  <2>3. w.type \in ObjectTypes => \A j \in 1 .. d : KeyOf(w, j) # KeyOf(w, i)
    BY <1>2, <2>1 DEF KeysOK
  <2> QED BY <2>1, <2>2, <2>3
<1>9. With(Shell(type, name, ms), key, x) = Shell(type, name, more)
  <2>1. \A f : [Shell(type, name, ms) EXCEPT !.members = f] = Shell(type, name, f)
    BY DEF Shell
  <2>2. Shell(type, name, ms).type = type /\ Shell(type, name, ms).members = ms
    BY DEF Shell
  <2>3. CASE w.type = "array"
    <3>1. key = NULL
      BY <1>1, <1>8, <2>3
    <3>2. With(Shell(type, name, ms), key, x) = [Shell(type, name, ms) EXCEPT !.members = Append(ms, [key |-> NULL, value |-> x])]
      BY <2>2, <2>3 DEF With
    <3>3. [key |-> NULL, value |-> x] = member
      BY <1>1, <3>1
    <3> QED BY <1>6, <2>1, <3>2, <3>3
  <2>4. CASE w.type # "array"
    <3>1. With(Shell(type, name, ms), key, x) = [Shell(type, name, ms) EXCEPT !.members = Put(ms, key, x)]
      BY <2>2, <2>4 DEF With
    <3>2. \A j \in 1 .. d : ms[j].key # key
      BY <1>1, <1>3, <1>8, <2>4 DEF KeptMember
    <3>3. Put(ms, key, x) = more
      BY <1>1, <1>3, <1>6, <3>2 DEF Put
    <3> QED BY <2>1, <3>1, <3>3
  <2> QED BY <2>3, <2>4
<1>10. ASSUME x = Kept[Child(w, i)]  PROVE more = So(w, i)
  <2>1. member = KeptMember(w, i)
    BY <1>1, <1>10 DEF KeptMember
  <2>2. \A j \in 1 .. i : j \in 1 .. d \/ j = i
    BY <1>0, <1>2
  <2>3. \A j \in 1 .. i : more[j] = KeptMember(w, j)
    BY SMTT(60), <1>3, <1>7, <2>1, <2>2
  <2>4. more = [j \in 1 .. i |-> more[j]]
    BY <1>0, <1>7
  <2> QED BY <2>3, <2>4 DEF So
<1>11. more = Append(So(w, d), Entry(KeyOf(w, d + 1), x)) /\ member = Entry(KeyOf(w, d + 1), x)
  BY <1>0, <1>1, <1>6 DEF Entry
<1> QED BY <1>0, <1>1, <1>3, <1>7, <1>9, <1>10, <1>11

-----------------------------------------------------------------------------
(* What the parser has made of the text: for each open container, the value *)
(* that it is of, and the place of that in the text.                         *)

\* A container of which some members were read: v, whose content stands at b in
\* the text, is what the node of frame f is made of.
Count(f) == Len(f.node.members)
Mark(f, v, b) == b + Place(v)[Count(f) + 1]
Level(f, v, b) ==
  /\ f = Frame(f.node, f.key) /\ v \in Values /\ v.type \in Containers /\ b \in Nat
  /\ Count(f) \in 0 .. Len(Members(v)) /\ f.node = Shell(f.node.type, f.node.name, So(v, Count(f)))
  /\ f.node.type = "array" <=> v.type = "array"
  /\ \A i \in 1 .. Count(f) : FitMember(v, i)
  /\ Fit(doc) => Fit(v)
  /\ Stands(Text(doc), b, Content(v))

\* It is the root object, or another one and ends with a bracket.
Outermost(f, v, b) ==
  f.node.type = "object" /\ f.node.name = NULL /\ v = doc /\ b + Len(Content(v)) = Len(Text(doc))
Inner(f, v, b) ==
  /\ f.node.type = Look(v) /\ f.node.name = v.name /\ v.name \in Identifiers \cup {NULL}
  /\ Text(doc)[(b + Len(Content(v))) + 1] = Closer(v) /\ (b + Len(Content(v))) + 1 <= Len(Text(doc))

\* What stands in the text where the next member has to be read.
LEMMA Ahead ==
  ASSUME NEW T \in Seq(Signs), T = Text(doc), NEW f, NEW v, NEW b, Level(f, v, b), Outermost(f, v, b) \/ Inner(f, v, b),
         NEW m, m = Mark(f, v, b), NEW i, i = Count(f) + 1
  PROVE  /\ m \in Nat /\ m <= Len(T) /\ Len(T) \in Nat /\ i \in Nat
         /\ m < Len(T) => T[m + 1] \notin Breaks
         /\ i \in 1 .. Len(Members(v)) \/ i = Len(Members(v)) + 1
         /\ ~ (i \in 1 .. Len(Members(v)) /\ i = Len(Members(v)) + 1)
         /\ i = Len(Members(v)) + 1 =>
              /\ m = b + Len(Content(v))
              /\ Outermost(f, v, b) => m = Len(T)
              /\ Inner(f, v, b) => T[m + 1] = Closer(v) /\ m + 1 <= Len(T)
         /\ i \in 1 .. Len(Members(v)) =>
              /\ Child(v, i) \in Values /\ m < Len(T) /\ Stands(T, m, Piece(v, i))
              /\ m + Len(Piece(v, i)) = b + Place(v)[i + 1]
              /\ v.type = "array" => T[m + 1] \notin NoBeginning
              /\ v.type # "array" => T[m + 1] = KeyOf(v, i) /\ T[m + 1] \in Contents
<1>1. PICK n, at, c, d : n = Len(Members(v)) /\ at = Place(v) /\ c = Len(Content(v)) /\ d = Count(f)
  OBVIOUS
<1>2. /\ v \in Values /\ v.type \in Containers /\ b \in Nat /\ d \in 0 .. n /\ Stands(T, b, Content(v)) /\ n \in Nat
  BY <1>1, MembersBelow DEF Level
<1>3. at[1] = 0 /\ at[n + 1] = c /\ c \in Nat /\ at \in [1 .. n + 1 -> Nat]
  BY <1>1, <1>2, PlaceEnds
<1>4. Len(T) \in Nat /\ b + c <= Len(T)
  <2>1. Len(T) \in Nat
    OBVIOUS
  <2> QED BY <1>1, <1>2, <2>1 DEF Stands
<1>5. /\ i = d + 1 /\ i \in Nat /\ i \in 1 .. n + 1 /\ (i \in 1 .. n \/ i = n + 1) /\ ~ (i \in 1 .. n /\ i = n + 1)
      /\ m = b + at[i]
  BY <1>1, <1>2 DEF Mark
<1>6. at[i] \in Nat /\ m \in Nat
  <2>1. at[i] \in Nat
    BY <1>3, <1>5
  <2> QED BY <1>2, <1>5, <2>1
<1>7. ASSUME i = n + 1
      PROVE  /\ m = b + c /\ (Outermost(f, v, b) => m = Len(T)) /\ m <= Len(T)
             /\ Inner(f, v, b) => T[m + 1] = Closer(v) /\ m + 1 <= Len(T)
  <2>1. m = b + c
    BY <1>3, <1>5, <1>7
  <2> QED BY <1>1, <1>4, <2>1 DEF Outermost, Inner
<1>8. ASSUME i \in 1 .. n
      PROVE  /\ Child(v, i) \in Values /\ m < Len(T) /\ Stands(T, m, Piece(v, i)) /\ m <= Len(T)
             /\ m + Len(Piece(v, i)) = b + at[i + 1]
             /\ v.type = "array" => T[m + 1] \notin NoBeginning
             /\ v.type # "array" => T[m + 1] = KeyOf(v, i) /\ T[m + 1] \in Contents
  <2>1. i \in 1 .. Len(Members(v)) /\ Stands(T, b, Content(v))
    BY <1>1, <1>2, <1>8
  <2>2. /\ Stands(T, b + Place(v)[i], Piece(v, i)) /\ Place(v)[i + 1] = Place(v)[i] + Len(Piece(v, i))
        /\ Piece(v, i) \in Seq(Signs) /\ Place(v)[i + 1] \in Nat
    BY <1>2, <2>1, PieceAt
  <2>3. Stands(T, m, Piece(v, i)) /\ Len(Piece(v, i)) \in Nat /\ m + Len(Piece(v, i)) = b + at[i + 1]
    <3>1. Stands(T, m, Piece(v, i))
      BY <1>1, <1>5, <2>2
    <3>2. PICK l : l = Len(Piece(v, i))
      OBVIOUS
    <3>3. l \in Nat
      BY <2>2, <3>2
    <3>4. at[i + 1] = at[i] + l
      BY <1>1, <2>2, <3>2
    <3>5. m + l = b + at[i + 1]
      BY SMTT(60), <1>2, <1>5, <1>6, <3>3, <3>4
    <3> QED BY <3>1, <3>2, <3>3, <3>5
  <2>4. Child(v, i) \in Values
    BY <1>2, <2>1, MembersBelow
  <2>5. m < Len(T) /\ (v.type = "array" => T[m + 1] \notin NoBeginning)
        /\ (v.type # "array" => T[m + 1] = KeyOf(v, i) /\ T[m + 1] \in Contents)
    <3>1. PICK t : t = ValueText[Child(v, i)]
      OBVIOUS
    <3>2. t \in Seq(Signs) /\ Len(t) \in Nat \ {0} /\ t[1] \notin NoBeginning
      BY <2>4, <3>1, FirstSign
    <3>3. CASE v.type = "array"
      <4>1. Stands(T, m, t)
        BY <1>2, <2>1, <2>3, <3>1, <3>3, ItemStands
      <4>2. m + Len(t) <= Len(T) /\ T[m + 1] = t[1]
        BY <3>2, <4>1 DEF Stands
      <4>3. m < Len(T)
        BY <1>4, <1>6, <3>2, <4>2
      <4> QED BY <3>2, <3>3, <4>2, <4>3
    <3>4. CASE v.type \in ObjectTypes
      <4>1. /\ T[m + 1] = KeyOf(v, i) /\ Len(t) \in Nat /\ m + Len(Piece(v, i)) <= Len(T)
            /\ m + Len(Piece(v, i)) = ((m + Lead(v, i)) + Len(t)) + 1
        BY <1>2, <2>1, <2>3, <3>1, <3>4, PropertyStands
      <4>2. Lead(v, i) \in Nat
        BY DEF Lead
      <4>3. PICK ld, lt, lp : ld = Lead(v, i) /\ lt = Len(t) /\ lp = Len(Piece(v, i))
        OBVIOUS
      <4>4. ld \in Nat /\ lt \in Nat /\ m + lp <= Len(T) /\ m + lp = ((m + ld) + lt) + 1 /\ lp \in Nat
        BY <2>3, <4>1, <4>2, <4>3
      <4>5. m < Len(T)
        BY <1>4, <1>6, <4>4
      <4>6. KeyOf(v, i) \in Contents /\ v.type # "array"
        BY <1>2, <2>1, <3>4, MembersBelow, TypesApart
      <4> QED BY <4>1, <4>5, <4>6
    <3> QED BY <1>2, <3>3, <3>4, ContainerTypes
  <2> QED BY <1>4, <1>6, <2>3, <2>4, <2>5
<1>9. m < Len(T) => T[m + 1] \notin Breaks
  <2>1. CASE i \in 1 .. n
    <3>1. \A x \in Contents : x \notin Breaks
      BY KeyAssumption DEF Breaks
    <3> QED BY <1>8, <2>1, <3>1 DEF NoBeginning, Breaks
  <2>2. CASE i = n + 1
    <3>1. Closer(v) \notin Breaks
      BY DEF Closer, Breaks, NewLine
    <3> QED BY <1>4, <1>6, <1>7, <2>2, <3>1
  <2> QED BY <1>5, <2>1, <2>2
<1>10. m <= Len(T)
  BY <1>5, <1>7, <1>8
<1> QED BY <1>1, <1>4, <1>5, <1>6, <1>7, <1>8, <1>9, <1>10

\* What storing a member changes in a frame.
LEMMA FilledIs ==
  ASSUME NEW f, f = Frame(f.node, f.key), NEW key, NEW x
  PROVE  Filled(f, key, x).node = With(f.node, key, x) /\ Filled(f, key, x).key = f.key
         /\ Filled(f, key, x) = Frame(With(f.node, key, x), f.key)
<1>1. PICK a, k, w : a = f.node /\ k = f.key /\ w = With(f.node, key, x)
  OBVIOUS
<1>2. f = [node |-> a, key |-> k]
  BY <1>1 DEF Frame
<1>3. [f EXCEPT !.node = w] = [node |-> w, key |-> k]
  BY <1>2
<1>4. Filled(f, key, x) = [f EXCEPT !.node = w]
  BY <1>1 DEF Filled
<1> QED BY <1>1, <1>3, <1>4 DEF Frame

\* When the next member was read, the container is as it should be one member
\* later.
LEMMA Grown ==
  ASSUME NEW f, NEW v, NEW b, Level(f, v, b), NEW i, i = Count(f) + 1, i \in 1 .. Len(Members(v)), FitMember(v, i),
         NEW g, g = Filled(f, KeyOf(v, i), Kept[Child(v, i)])
  PROVE  /\ Level(g, v, b) /\ Count(g) = i /\ g.key = f.key
         /\ g.node.type = f.node.type /\ g.node.name = f.node.name
<1>1. PICK d, t, name : d = Count(f) /\ t = f.node.type /\ name = f.node.name
  OBVIOUS
<1>2. /\ v \in Values /\ v.type \in Containers /\ b \in Nat /\ d \in 0 .. Len(Members(v)) /\ d \in Nat /\ d + 1 = i
      /\ f.node = Shell(t, name, So(v, d)) /\ (t = "array" <=> v.type = "array") /\ f = Frame(f.node, f.key)
      /\ \A j \in 1 .. d : FitMember(v, j)
  BY <1>1 DEF Level
<1>3. PICK x, more : x = Kept[Child(v, i)] /\ more = Append(So(v, d), Entry(KeyOf(v, i), x))
  OBVIOUS
<1>4. With(Shell(t, name, So(v, d)), KeyOf(v, i), x) = Shell(t, name, more) /\ Len(more) = i /\ more = So(v, i)
  <2>1. v \in Values /\ v.type \in Containers /\ d \in Nat /\ d + 1 \in 1 .. Len(Members(v)) /\ (t = "array" <=> v.type = "array")
    BY <1>2
  <2>2. /\ With(Shell(t, name, So(v, d)), KeyOf(v, d + 1), x) = Shell(t, name, Append(So(v, d), Entry(KeyOf(v, d + 1), x)))
        /\ Len(Append(So(v, d), Entry(KeyOf(v, d + 1), x))) = d + 1
        /\ x = Kept[Child(v, d + 1)] => Append(So(v, d), Entry(KeyOf(v, d + 1), x)) = So(v, d + 1)
    BY <2>1, StoredNext
  <2> QED BY <1>2, <1>3, <2>2
<1>5. g.node = With(f.node, KeyOf(v, i), x) /\ g.key = f.key /\ g = Frame(With(f.node, KeyOf(v, i), x), f.key)
  BY <1>2, <1>3, FilledIs
<1>6. g.node = Shell(t, name, more) /\ g = Frame(g.node, g.key)
  BY <1>2, <1>4, <1>5
<1>7. g.node.type = t /\ g.node.name = name /\ g.node.members = more /\ Count(g) = i
  BY <1>4, <1>6 DEF Shell, Count
<1>8. \A j \in 1 .. i : FitMember(v, j)
  <2>1. \A j \in 1 .. i : j \in 1 .. d \/ j = i
    BY <1>2
  <2> QED BY <1>2, <2>1
<1>9. i \in 0 .. Len(Members(v))
  OBVIOUS
<1>10. g.node = Shell(g.node.type, g.node.name, So(v, Count(g))) /\ Count(g) \in 0 .. Len(Members(v))
       /\ \A j \in 1 .. Count(g) : FitMember(v, j)
  BY <1>4, <1>6, <1>7, <1>8, <1>9
<1>11. (Fit(doc) => Fit(v)) /\ Stands(Text(doc), b, Content(v))
  BY DEF Level
<1> QED BY <1>1, <1>2, <1>5, <1>6, <1>7, <1>10, <1>11 DEF Level

\* A container that was just opened.
LEMMA Fresh ==
  ASSUME NEW v \in Values, v.type \in Containers, NEW b \in Nat, Stands(Text(doc), b, Content(v)), Fit(doc) => Fit(v),
         NEW type, type = "array" <=> v.type = "array", NEW name, NEW key,
         NEW f, f = Frame(Shell(type, name, <<>>), key)
  PROVE  Level(f, v, b) /\ Count(f) = 0 /\ f.key = key /\ f.node.type = type /\ f.node.name = name
         /\ Mark(f, v, b) = b
<1>1. So(v, 0) = <<>>
  <2>1. So(v, 0) = [i \in {} |-> KeptMember(v, i)]
    BY DEF So
  <2> QED BY <2>1
<1>2. f.node = Shell(type, name, <<>>) /\ f.key = key
  BY DEF Frame
<1>3. f.node.type = type /\ f.node.name = name /\ f.node.members = <<>>
  BY <1>2 DEF Shell
<1>4. Count(f) = 0
  BY <1>3 DEF Count
<1>5. f.node = Shell(f.node.type, f.node.name, So(v, Count(f))) /\ f = Frame(f.node, f.key)
  BY <1>1, <1>2, <1>3, <1>4
<1>6. Count(f) \in 0 .. Len(Members(v)) /\ \A i \in 1 .. Count(f) : FitMember(v, i)
  BY <1>4, MembersBelow
<1>7. Mark(f, v, b) = b
  <2>1. Place(v)[1] = 0
    BY PlaceEnds
  <2> QED BY <1>4, <2>1 DEF Mark
<1> QED BY <1>2, <1>3, <1>4, <1>5, <1>6, <1>7 DEF Level

\* A container of which all members were read is what is kept of it.
LEMMA Complete ==
  ASSUME NEW f, NEW v, NEW b, Level(f, v, b), Count(f) = Len(Members(v))
  PROVE  /\ Fit(v)
         /\ Inner(f, v, b) => f.node = Kept[v] /\ Readable[v]
         /\ Outermost(f, v, b) => f.node = KeptDocument(doc)
<1>1. /\ v \in Values /\ v.type \in Containers /\ f.node = Shell(f.node.type, f.node.name, So(v, Count(f)))
      /\ \A i \in 1 .. Count(f) : FitMember(v, i)
  BY DEF Level
<1>2. Fit(v)
  BY <1>1 DEF Fit
<1>3. PICK ms : ms = So(v, Len(Members(v)))
  OBVIOUS
<1>4. Kept[v] = Shell(Look(v), v.name, ms) /\ (Readable[v] <=> Fit(v) /\ v.name \in Identifiers \cup {NULL})
  BY <1>1, <1>3, ContainersKept
<1>5. f.node = Shell(f.node.type, f.node.name, ms)
  BY <1>1, <1>3
<1>6. Inner(f, v, b) => f.node = Kept[v] /\ Readable[v]
  BY <1>2, <1>4, <1>5 DEF Inner
<1>7. ASSUME Outermost(f, v, b)  PROVE f.node = KeptDocument(doc)
  <2>1. PICK l, name : l = Look(v) /\ name = v.name
    OBVIOUS
  <2>2. KeptDocument(doc) = [Shell(l, name, ms) EXCEPT !.type = "object", !.name = NULL]
    BY <1>4, <1>7, <2>1 DEF KeptDocument, Outermost
  <2>3. [Shell(l, name, ms) EXCEPT !.type = "object", !.name = NULL] = Shell("object", NULL, ms)
    <3>1. PICK o, z : o = "object" /\ z = NULL
      OBVIOUS
    <3>2. PICK r, r2 : r = Shell(l, name, ms) /\ r2 = [r EXCEPT !.type = o]
      OBVIOUS
    <3>3. r2 = Shell(o, name, ms)
      BY <3>2 DEF Shell
    <3>4. [r2 EXCEPT !.name = z] = Shell(o, z, ms)
      BY <3>3 DEF Shell
    <3>5. [r EXCEPT !.type = o, !.name = z] = [[r EXCEPT !.type = o] EXCEPT !.name = z]
      OBVIOUS
    <3> QED BY <3>1, <3>2, <3>4, <3>5
  <2> QED BY <1>5, <1>7, <2>2, <2>3 DEF Outermost
<1> QED BY <1>2, <1>6, <1>7

\* The container v, whose content stands at b, with that key is the next member
\* of the one that is read in frame g.
Link(key, v, b, g, w, c) ==
  LET i == Count(g) + 1 IN
  /\ i \in 1 .. Len(Members(w)) /\ v = Child(w, i) /\ key = KeyOf(w, i)
  /\ w.type = "array" \/ KeyOf(w, i) \in Identifiers
  /\ (b + Len(Content(v))) + 1 = ((c + Place(w)[i]) + Lead(w, i)) + Len(ValueText[v])

\* The containers that are being read are those of the document, one within the
\* other.
Nest(stk, src, base) ==
  /\ stk \in Seq(Range(stk)) /\ stk # <<>>
  /\ src \in [1 .. Len(stk) -> Values] /\ base \in [1 .. Len(stk) -> Nat]
  /\ \A k \in 1 .. Len(stk) : Level(stk[k], src[k], base[k])
  /\ Outermost(stk[Len(stk)], src[Len(stk)], base[Len(stk)])
  /\ \A k \in 1 .. Len(stk) - 1 :
       /\ Inner(stk[k], src[k], base[k])
       /\ Link(stk[k].key, src[k], base[k], stk[k + 1], src[k + 1], base[k + 1])

\* A frame in which a member was stored is of the same kind.
LEMMA SameKind ==
  ASSUME NEW f, NEW g, g.node.type = f.node.type, g.node.name = f.node.name, NEW v, NEW b
  PROVE  (Outermost(g, v, b) <=> Outermost(f, v, b)) /\ (Inner(g, v, b) <=> Inner(f, v, b))
BY DEF Outermost, Inner

\* The innermost container is the root object or another one.
LEMMA TopKind ==
  ASSUME NEW stk, NEW src, NEW base, Nest(stk, src, base)
  PROVE  /\ Len(stk) \in Nat \ {0} /\ Level(stk[1], src[1], base[1]) /\ stk \in Seq(Range(stk)) /\ stk # <<>>
         /\ Len(stk) = 1 => Outermost(stk[1], src[1], base[1])
         /\ Len(stk) > 1 =>
              /\ Inner(stk[1], src[1], base[1]) /\ Level(stk[2], src[2], base[2])
              /\ Link(stk[1].key, src[1], base[1], stk[2], src[2], base[2])
              /\ Outermost(stk[2], src[2], base[2]) \/ Inner(stk[2], src[2], base[2])
<1>1. PICK n : n = Len(stk)
  OBVIOUS
<1>2. n \in Nat \ {0} /\ Head(stk) = stk[1]
  BY <1>1, StackOps DEF Nest
<1>3. /\ \A k \in 1 .. n : Level(stk[k], src[k], base[k])
      /\ Outermost(stk[n], src[n], base[n])
      /\ \A k \in 1 .. n - 1 :
           /\ Inner(stk[k], src[k], base[k])
           /\ Link(stk[k].key, src[k], base[k], stk[k + 1], src[k + 1], base[k + 1])
  BY <1>1 DEF Nest
<1>4. 1 \in 1 .. n
  BY <1>2
<1>5. n > 1 => 1 \in 1 .. n - 1 /\ 1 + 1 = 2 /\ 2 \in 1 .. n /\ (2 \in 1 .. n - 1 \/ n = 2)
  BY <1>2
<1>6. Level(stk[1], src[1], base[1]) /\ (n = 1 => Outermost(stk[1], src[1], base[1]))
  BY <1>3, <1>4
<1>7. ASSUME n > 1
      PROVE  /\ Inner(stk[1], src[1], base[1]) /\ Level(stk[2], src[2], base[2])
             /\ Link(stk[1].key, src[1], base[1], stk[2], src[2], base[2])
             /\ Outermost(stk[2], src[2], base[2]) \/ Inner(stk[2], src[2], base[2])
  <2>1. Inner(stk[1], src[1], base[1]) /\ Level(stk[2], src[2], base[2])
    BY <1>3, <1>5, <1>7
  <2>2. Link(stk[1].key, src[1], base[1], stk[2], src[2], base[2])
    BY <1>3, <1>5, <1>7
  <2>3. Outermost(stk[2], src[2], base[2]) \/ Inner(stk[2], src[2], base[2])
    BY <1>3, <1>5, <1>7
  <2> QED BY <2>1, <2>2, <2>3
<1>8. stk \in Seq(Range(stk)) /\ stk # <<>>
  BY DEF Nest
<1> QED BY <1>1, <1>2, <1>6, <1>7, <1>8

\* The innermost container has changed.
LEMMA NestChanged ==
  ASSUME NEW stk, NEW src, NEW base, Nest(stk, src, base),
         NEW f, Level(f, src[1], base[1]), f.key = stk[1].key,
         f.node.type = stk[1].node.type, f.node.name = stk[1].node.name,
         NEW t, t = Replaced(stk, f)
  PROVE  Nest(t, src, base) /\ t[1] = f /\ Len(t) = Len(stk)
<1>1. PICK n : n = Len(stk)
  OBVIOUS
<1>2. /\ n \in Nat \ {0} /\ t \in Seq(Range(t)) /\ Len(t) = n /\ t[1] = f /\ t # <<>>
      /\ \A k \in 2 .. n : t[k] = stk[k]
  BY <1>1, StackOps DEF Nest, OnTop
<1>3. /\ src \in [1 .. n -> Values] /\ base \in [1 .. n -> Nat]
      /\ \A k \in 1 .. n : Level(stk[k], src[k], base[k])
      /\ Outermost(stk[n], src[n], base[n])
      /\ \A k \in 1 .. n - 1 :
           /\ Inner(stk[k], src[k], base[k])
           /\ Link(stk[k].key, src[k], base[k], stk[k + 1], src[k + 1], base[k + 1])
  BY <1>1 DEF Nest
<1>4. \A k \in 1 .. n : /\ Level(t[k], src[k], base[k]) /\ t[k].key = stk[k].key
                        /\ t[k].node.type = stk[k].node.type /\ t[k].node.name = stk[k].node.name
  <2>1. \A k \in 1 .. n : k = 1 \/ k \in 2 .. n
    BY <1>2
  <2> QED BY SMTT(60), <1>2, <1>3, <2>1
<1>5. Outermost(t[n], src[n], base[n])
  <2>1. n \in 1 .. n
    BY <1>2
  <2> QED BY <1>3, <1>4, <2>1, SameKind
<1>6. ASSUME NEW k \in 1 .. n - 1
      PROVE  /\ Inner(t[k], src[k], base[k])
             /\ Link(t[k].key, src[k], base[k], t[k + 1], src[k + 1], base[k + 1])
  <2>1. k \in 1 .. n /\ k + 1 \in 2 .. n
    BY <1>2
  <2>2. t[k + 1] = stk[k + 1] /\ t[k].key = stk[k].key
    BY <1>2, <1>4, <2>1
  <2>3. Inner(t[k], src[k], base[k])
    <3>1. t[k].node.type = stk[k].node.type /\ t[k].node.name = stk[k].node.name /\ Inner(stk[k], src[k], base[k])
      BY <1>3, <1>4, <2>1
    <3> QED BY <3>1, SameKind
  <2> QED BY <1>3, <2>2, <2>3
<1> QED BY <1>1, <1>2, <1>3, <1>4, <1>5, <1>6 DEF Nest

\* The next member is a container and is opened.
LEMMA NestOpened ==
  ASSUME NEW stk, NEW src, NEW base, Nest(stk, src, base),
         NEW f, NEW v \in Values, NEW b \in Nat, Level(f, v, b), Inner(f, v, b),
         Link(f.key, v, b, stk[1], src[1], base[1]),
         NEW t, t = Pushed(stk, f)
  PROVE  \E src2, base2 : Nest(t, src2, base2) /\ src2[1] = v /\ base2[1] = b /\ t[1] = f
<1>1. PICK n : n = Len(stk)
  OBVIOUS
<1>2. /\ n \in Nat \ {0} /\ t \in Seq(Range(t)) /\ Len(t) = n + 1 /\ t[1] = f /\ t # <<>>
      /\ \A k \in 2 .. n + 1 : t[k] = stk[k - 1]
  BY <1>1, StackOps DEF Nest, OnTop
<1>3. /\ src \in [1 .. n -> Values] /\ base \in [1 .. n -> Nat]
      /\ \A k \in 1 .. n : Level(stk[k], src[k], base[k])
      /\ Outermost(stk[n], src[n], base[n])
      /\ \A k \in 1 .. n - 1 :
           /\ Inner(stk[k], src[k], base[k])
           /\ Link(stk[k].key, src[k], base[k], stk[k + 1], src[k + 1], base[k + 1])
  BY <1>1 DEF Nest
<1>4. PICK src2, base2 : /\ src2 = [k \in 1 .. n + 1 |-> IF k = 1 THEN v ELSE src[k - 1]]
                         /\ base2 = [k \in 1 .. n + 1 |-> IF k = 1 THEN b ELSE base[k - 1]]
  OBVIOUS
<1>5. \A k \in 1 .. n + 1 : k = 1 \/ (k \in 2 .. n + 1 /\ k - 1 \in 1 .. n /\ k # 1)
  BY <1>2
<1>6. /\ src2 \in [1 .. n + 1 -> Values] /\ base2 \in [1 .. n + 1 -> Nat]
      /\ src2[1] = v /\ base2[1] = b
      /\ \A k \in 1 .. n : src2[k + 1] = src[k] /\ base2[k + 1] = base[k] /\ t[k + 1] = stk[k]
  <2>1. \A k \in 1 .. n + 1 : k # 1 => src[k - 1] \in Values /\ base[k - 1] \in Nat
    BY <1>3, <1>5
  <2>2. \A k \in 1 .. n : k + 1 \in 1 .. n + 1 /\ k + 1 # 1 /\ (k + 1) - 1 = k /\ k + 1 \in 2 .. n + 1
    BY <1>2
  <2>3. 1 \in 1 .. n + 1
    BY <1>2
  <2>4. src2 \in [1 .. n + 1 -> Values]
    BY <1>4, <2>1
  <2>5. base2 \in [1 .. n + 1 -> Nat]
    BY <1>4, <2>1
  <2>6. \A k \in 1 .. n : t[k + 1] = stk[k]
    BY <1>2, <2>2
  <2> QED BY <1>4, <2>2, <2>3, <2>4, <2>5, <2>6
<1>7. ASSUME NEW k \in 1 .. n + 1  PROVE Level(t[k], src2[k], base2[k])
  <2>1. CASE k = 1
    BY <1>2, <1>6, <2>1
  <2>2. CASE k # 1
    <3>1. PICK j \in 1 .. n : k = j + 1
      BY <1>5, <2>2
    <3> QED BY <1>3, <1>6, <3>1
  <2> QED BY <2>1, <2>2
<1>8. ASSUME NEW k \in 1 .. (n + 1) - 1
      PROVE  /\ Inner(t[k], src2[k], base2[k])
             /\ Link(t[k].key, src2[k], base2[k], t[k + 1], src2[k + 1], base2[k + 1])
  <2>1. k \in 1 .. n
    BY <1>2
  <2>2. t[k + 1] = stk[k] /\ src2[k + 1] = src[k] /\ base2[k + 1] = base[k]
    BY <1>6, <2>1
  <2>3. CASE k = 1
    <3>1. t[k] = f /\ src2[k] = v /\ base2[k] = b
      BY <1>2, <1>6, <2>3
    <3>2. t[k + 1] = stk[1] /\ src2[k + 1] = src[1] /\ base2[k + 1] = base[1]
      BY <2>2, <2>3
    <3> QED BY <3>1, <3>2
  <2>4. CASE k # 1
    <3>1. k - 1 \in 1 .. n - 1 /\ k = (k - 1) + 1
      BY <1>2, <2>1, <2>4
    <3>2. PICK j \in 1 .. n - 1 : k = j + 1
      BY <3>1
    <3>3. j \in 1 .. n
      BY <1>2
    <3>4. t[k] = stk[j] /\ src2[k] = src[j] /\ base2[k] = base[j]
      BY <1>6, <3>2, <3>3
    <3>5. t[k + 1] = stk[j + 1] /\ src2[k + 1] = src[j + 1] /\ base2[k + 1] = base[j + 1]
      BY <2>2, <3>2
    <3>6. Inner(stk[j], src[j], base[j]) /\ Link(stk[j].key, src[j], base[j], stk[j + 1], src[j + 1], base[j + 1])
      BY <1>3, <3>2
    <3> QED BY <3>4, <3>5, <3>6
  <2> QED BY <2>3, <2>4
<1>9. Outermost(t[n + 1], src2[n + 1], base2[n + 1])
  <2>1. n \in 1 .. n
    BY <1>2
  <2> QED BY <1>3, <1>6, <2>1
<1>10. Nest(t, src2, base2)
  BY <1>2, <1>6, <1>7, <1>8, <1>9 DEF Nest
<1> QED BY <1>2, <1>6, <1>10

\* The innermost container is complete and has become a member of the next.
LEMMA NestClosed ==
  ASSUME NEW stk, NEW src, NEW base, Nest(stk, src, base), Len(stk) > 1,
         NEW f, Level(f, src[2], base[2]), f.key = stk[2].key,
         f.node.type = stk[2].node.type, f.node.name = stk[2].node.name,
         NEW t, t = Merged(stk, f)
  PROVE  \E src2, base2 : Nest(t, src2, base2) /\ src2[1] = src[2] /\ base2[1] = base[2] /\ t[1] = f
<1>1. PICK n : n = Len(stk)
  OBVIOUS
<1>2. /\ n \in Nat \ {0, 1} /\ t \in Seq(Range(t)) /\ Len(t) = n - 1 /\ t[1] = f /\ t # <<>>
      /\ \A k \in 2 .. n - 1 : t[k] = stk[k + 1]
  <2>1. stk \in Seq(Range(stk)) /\ stk # <<>> /\ n > 1 /\ Len(stk) > 1
    BY <1>1 DEF Nest
  <2>2. /\ Len(stk) \in Nat \ {0} /\ OnTop(Merged(stk, f), f, Len(stk) - 1)
        /\ \A k \in 2 .. Len(stk) - 1 : Merged(stk, f)[k] = stk[k + 1]
    BY <2>1, StackOps
  <2> QED BY <1>1, <2>1, <2>2 DEF OnTop
<1>3. /\ src \in [1 .. n -> Values] /\ base \in [1 .. n -> Nat]
      /\ \A k \in 1 .. n : Level(stk[k], src[k], base[k])
      /\ Outermost(stk[n], src[n], base[n])
      /\ \A k \in 1 .. n - 1 :
           /\ Inner(stk[k], src[k], base[k])
           /\ Link(stk[k].key, src[k], base[k], stk[k + 1], src[k + 1], base[k + 1])
  BY <1>1 DEF Nest
<1>4. PICK src2, base2 : src2 = [k \in 1 .. n - 1 |-> src[k + 1]] /\ base2 = [k \in 1 .. n - 1 |-> base[k + 1]]
  OBVIOUS
<1>5. \A k \in 1 .. n - 1 : k + 1 \in 1 .. n /\ (k = 1 \/ k \in 2 .. n - 1)
  BY <1>2
<1>6. /\ src2 \in [1 .. n - 1 -> Values] /\ base2 \in [1 .. n - 1 -> Nat]
      /\ \A k \in 1 .. n - 1 : src2[k] = src[k + 1] /\ base2[k] = base[k + 1]
  BY <1>3, <1>4, <1>5
<1>7. n - 1 \in 1 .. n - 1 /\ 1 \in 1 .. n - 1 /\ 1 + 1 = 2 /\ (n - 1) + 1 = n
  BY <1>2
<1>8. \A k \in 1 .. n - 1 : /\ t[k].key = stk[k + 1].key /\ t[k].node.type = stk[k + 1].node.type
                            /\ t[k].node.name = stk[k + 1].node.name /\ Level(t[k], src2[k], base2[k])
  <2> SUFFICES ASSUME NEW k \in 1 .. n - 1
               PROVE  /\ t[k].key = stk[k + 1].key /\ t[k].node.type = stk[k + 1].node.type
                      /\ t[k].node.name = stk[k + 1].node.name /\ Level(t[k], src2[k], base2[k])
    OBVIOUS
  <2>1. CASE k = 1
    <3>1. t[k] = f /\ src2[k] = src[2] /\ base2[k] = base[2] /\ stk[k + 1] = stk[2]
      BY <1>2, <1>6, <1>7, <2>1
    <3> QED BY <3>1
  <2>2. CASE k # 1
    <3>1. t[k] = stk[k + 1] /\ src2[k] = src[k + 1] /\ base2[k] = base[k + 1] /\ k + 1 \in 1 .. n
      BY <1>2, <1>5, <1>6, <2>2
    <3> QED BY <1>3, <3>1
  <2> QED BY <2>1, <2>2
<1>9. ASSUME NEW k \in 1 .. (n - 1) - 1
      PROVE  /\ Inner(t[k], src2[k], base2[k])
             /\ Link(t[k].key, src2[k], base2[k], t[k + 1], src2[k + 1], base2[k + 1])
  <2>1. k \in 1 .. n - 1 /\ k + 1 \in 1 .. n - 1 /\ k + 1 \in 2 .. n - 1
    BY <1>2
  <2>2. /\ t[k + 1] = stk[(k + 1) + 1] /\ t[k].key = stk[k + 1].key
        /\ src2[k] = src[k + 1] /\ base2[k] = base[k + 1]
        /\ src2[k + 1] = src[(k + 1) + 1] /\ base2[k + 1] = base[(k + 1) + 1]
    BY <1>2, <1>6, <1>8, <2>1
  <2>3. /\ Inner(stk[k + 1], src[k + 1], base[k + 1])
        /\ Link(stk[k + 1].key, src[k + 1], base[k + 1], stk[(k + 1) + 1], src[(k + 1) + 1], base[(k + 1) + 1])
    BY <1>3, <2>1
  <2>4. Inner(t[k], src[k + 1], base[k + 1])
    <3>1. t[k].node.type = stk[k + 1].node.type /\ t[k].node.name = stk[k + 1].node.name
          /\ Inner(stk[k + 1], src[k + 1], base[k + 1])
      BY <1>8, <2>1, <2>3
    <3> QED BY <3>1, SameKind
  <2> QED BY <2>2, <2>3, <2>4
<1>10. Outermost(t[n - 1], src2[n - 1], base2[n - 1])
  <2>1. /\ src2[n - 1] = src[n] /\ base2[n - 1] = base[n] /\ t[n - 1].node.type = stk[n].node.type
        /\ t[n - 1].node.name = stk[n].node.name
    BY <1>6, <1>7, <1>8
  <2>2. Outermost(stk[n], src[n], base[n])
    BY <1>3
  <2> QED BY <2>1, <2>2, SameKind
<1>11. Nest(t, src2, base2)
  BY <1>2, <1>6, <1>8, <1>9, <1>10 DEF Nest
<1> QED BY <1>2, <1>6, <1>7, <1>11

\* From p, where lines may be empty, the parser gets to q.
Leads(p, q) == q \in p .. Len(input) + 1 /\ At(q) \notin Breaks /\ \A k \in p .. q - 1 : At(k) = NewLine

LEMMA LeadsThere ==
  ASSUME input \in Seq(Signs), NEW p \in Nat, NEW q, Leads(p, q)
  PROVE  BlanksEnd(p) = q
BY BlanksAre DEF Leads

\* From the end of a line it gets to the next sign of the text, or to the end.
LEMMA LeadsOn ==
  ASSUME NEW T, Arriving(T), NEW m \in 0 .. Len(T), NEW p \in 1 .. Len(input) + 1, p <= m + 1,
         p = Len(input) + 1 \/ \A k \in p .. m : T[k] = NewLine, m < Len(T) => T[m + 1] \notin Breaks
  PROVE  Leads(p, Cap(m) + 1)
<1>1. PICK n : n = Len(input)
  OBVIOUS
<1>2. n \in Nat /\ Len(T) \in Nat /\ n <= Len(T) /\ m \in Nat /\ p \in Nat \ {0} /\ p <= n + 1 /\ m + 1 \in Nat \ {0}
  BY <1>1 DEF Arriving, Begins
<1>3. EOF \notin Breaks
  BY DEF EOF, Breaks, NewLine
<1>4. CASE m <= n
  <2>1. Cap(m) + 1 = m + 1 /\ m + 1 \in p .. n + 1
    BY <1>1, <1>2, <1>4 DEF Cap
  <2>2. At(m + 1) \notin Breaks
    <3>1. CASE m + 1 <= n
      <4>1. m < Len(T)
        BY <1>2, <3>1
      <4>2. At(m + 1) = T[m + 1]
        BY <1>1, <1>2, <3>1, SignSeen
      <4> QED BY <4>1, <4>2
    <3>2. CASE ~ (m + 1 <= n)
      <4>1. At(m + 1) = EOF
        BY <1>1, <1>2, <3>2, SignSeen
      <4> QED BY <1>3, <4>1
    <3> QED BY <3>1, <3>2
  <2>3. ASSUME NEW k \in p .. (m + 1) - 1  PROVE At(k) = NewLine
    <3>1. k \in p .. m /\ k \in Nat \ {0} /\ k <= n /\ p # n + 1
      BY <1>2, <1>4
    <3>2. T[k] = NewLine
      BY <1>1, <3>1
    <3> QED BY <1>1, <3>1, <3>2, SignSeen
  <2> QED BY <1>1, <2>1, <2>2, <2>3 DEF Leads
<1>5. CASE ~ (m <= n)
  <2>1. Cap(m) + 1 = n + 1 /\ n + 1 \in p .. n + 1 /\ n + 1 \in Nat \ {0} /\ ~ (n + 1 <= n)
    BY <1>1, <1>2, <1>5 DEF Cap
  <2>2. At(n + 1) \notin Breaks
    <3>1. At(n + 1) = EOF
      BY <1>1, <2>1, SignSeen
    <3> QED BY <1>3, <3>1
  <2>3. ASSUME NEW k \in p .. (n + 1) - 1  PROVE At(k) = NewLine
    <3>1. k \in p .. m /\ k \in Nat \ {0} /\ k <= n /\ p # n + 1
      BY <1>2, <1>5
    <3>2. T[k] = NewLine
      BY <1>1, <3>1
    <3> QED BY <1>1, <3>1, <3>2, SignSeen
  <2> QED BY <1>1, <2>1, <2>2, <2>3 DEF Leads
<1> QED BY <1>4, <1>5

\* Where the parts of member i of w, which stands at m, stand: the value at o,
\* and behind it e, the end of the line or a comma and the end of the line.
Line(T, w, i, m, o, e, q) ==
  /\ o = m + Lead(w, i) /\ e = o + Len(ValueText[Child(w, i)]) /\ q = m + Len(Piece(w, i))
  /\ ValueText[Child(w, i)] \in Seq(Signs) /\ Stands(T, o, ValueText[Child(w, i)])
  /\ o < e /\ e < q /\ q <= Len(T) /\ T[q] = NewLine
  /\ q = e + 1 \/ (w.type = "array" /\ q = e + 2 /\ T[e + 1] = Comma)
  /\ w.type = "array" => o = m
  /\ w.type # "array" =>
       /\ q = e + 1 /\ T[m + 1] = KeyOf(w, i) /\ KeyOf(w, i) \in Contents
       /\ Shorthand(Child(w, i)) => o = m + 1
       /\ ~ Shorthand(Child(w, i)) => o = m + 2 /\ T[m + 2] = EqualSign

LEMMA LineStands ==
  ASSUME NEW w \in Values, w.type \in Containers, NEW T \in Seq(Signs), NEW i \in 1 .. Len(Members(w)),
         NEW m \in Nat, Stands(T, m, Piece(w, i))
  PROVE  \E o, e, q \in Nat : Line(T, w, i, m, o, e, q)
<1>0. PICK t : t = ValueText[Child(w, i)]
  OBVIOUS
<1>1. Child(w, i) \in Values
  BY MembersBelow
<1>2. t \in Seq(Signs) /\ Len(t) \in Nat \ {0} /\ Len(T) \in Nat
  BY <1>0, <1>1, FirstSign
<1>3. Lead(w, i) \in Nat
  BY DEF Lead
<1>4. CASE w.type = "array"
  <2>1. /\ Stands(T, m, t) /\ m + Len(Piece(w, i)) <= Len(T) /\ T[m + Len(Piece(w, i))] = NewLine
        /\ IF i < Len(Members(w))
           THEN m + Len(Piece(w, i)) = (m + Len(t)) + 2 /\ T[(m + Len(t)) + 1] = Comma
           ELSE m + Len(Piece(w, i)) = (m + Len(t)) + 1
    BY <1>0, <1>4, ItemStands
  <2>2. Lead(w, i) = 0
    BY <1>4 DEF Lead
  <2>3. PICK o, e, q : o = m + Lead(w, i) /\ e = o + Len(t) /\ q = m + Len(Piece(w, i))
    OBVIOUS
  <2>4. o = m
    BY <2>2, <2>3
  <2>5. e = m + Len(t) /\ e \in Nat /\ o < e /\ o \in Nat
    BY <1>2, <2>3, <2>4
  <2>6. q = e + 1 \/ (q = e + 2 /\ T[e + 1] = Comma)
    BY <2>1, <2>3, <2>5
  <2>7. e < q /\ q \in Nat
    BY <2>5, <2>6
  <2>8. q <= Len(T) /\ T[q] = NewLine /\ Stands(T, o, t)
    BY <2>1, <2>3, <2>4
  <2>9. e = o + Len(t)
    BY <2>3
  <2> QED BY <1>0, <1>2, <1>4, <2>3, <2>4, <2>5, <2>6, <2>7, <2>8, <2>9 DEF Line
<1>5. CASE w.type \in ObjectTypes
  <2>1. /\ T[m + 1] = KeyOf(w, i) /\ m + Len(Piece(w, i)) <= Len(T)
        /\ ~ Shorthand(Child(w, i)) => T[m + 2] = EqualSign
        /\ Stands(T, m + Lead(w, i), t) /\ m + Len(Piece(w, i)) = ((m + Lead(w, i)) + Len(t)) + 1
        /\ T[m + Len(Piece(w, i))] = NewLine
    BY SMTT(60), <1>0, <1>5, PropertyStands
  <2>2. w.type # "array" /\ KeyOf(w, i) \in Contents
    BY <1>5, MembersBelow, TypesApart
  <2>3. PICK o, e, q : o = m + Lead(w, i) /\ e = o + Len(t) /\ q = m + Len(Piece(w, i))
    OBVIOUS
  <2>4. (Shorthand(Child(w, i)) => o = m + 1) /\ (~ Shorthand(Child(w, i)) => o = m + 2)
    BY <2>2, <2>3 DEF Lead
  <2>5. o \in Nat /\ e \in Nat /\ o < e
    BY <1>2, <1>3, <2>3
  <2>6. q = e + 1
    BY <2>1, <2>3
  <2>7. e < q /\ q \in Nat
    BY <2>5, <2>6
  <2>8. q <= Len(T) /\ T[q] = NewLine /\ Stands(T, o, t)
    BY <2>1, <2>3
  <2>9. Line(T, w, i, m, o, e, q)
    BY <1>0, <1>2, <2>1, <2>2, <2>3, <2>4, <2>5, <2>6, <2>7, <2>8 DEF Line
  <2> QED BY <2>5, <2>7, <2>9
<1> QED BY <1>4, <1>5, ContainerTypes

\* What may follow the value.
LEMMA ValueEnds ==
  ASSUME NEW T, Arriving(T), NEW e \in Nat, NEW q \in Nat, q = e + 1 \/ (q = e + 2 /\ T[e + 1] = Comma), T[q] = NewLine
  PROVE  /\ At(e + 1) \in Follow
         /\ e + 1 <= Len(input) /\ q = e + 2 => At(e + 1) = Comma
         /\ q = e + 1 => At(e + 1) # Comma
         /\ KeywordsIn(e, q)
<1>1. PICK n : n = Len(input)
  OBVIOUS
<1>2. n \in Nat /\ e + 1 \in Nat \ {0} /\ e + 2 \in Nat \ {0} /\ q \in Nat \ {0}
  BY <1>1 DEF Arriving
<1>3. /\ At(e + 1) = IF e + 1 <= n THEN T[e + 1] ELSE EOF
      /\ At(e + 2) = IF e + 2 <= n THEN T[e + 2] ELSE EOF
  BY <1>1, <1>2, SignSeen
<1>4. EOF # Comma /\ NewLine # Comma
  BY DEF EOF, NewLine, Comma
<1>5. At(e + 1) \in {EOF, NewLine, Comma} /\ (q = e + 1 => At(e + 1) # Comma) /\ (e + 1 <= n /\ q = e + 2 => At(e + 1) = Comma)
      /\ (q = e + 2 => At(e + 2) \in {EOF, NewLine})
  <2>1. CASE q = e + 1
    <3>1. T[e + 1] = NewLine /\ q # e + 2
      BY <1>2, <2>1
    <3> QED BY <1>3, <1>4, <2>1, <3>1
  <2>2. CASE q = e + 2 /\ T[e + 1] = Comma
    <3>1. T[e + 2] = NewLine /\ q # e + 1
      BY <1>2, <2>2
    <3> QED BY <1>3, <1>4, <2>2, <3>1
  <2> QED BY <2>1, <2>2
<1>6. \A p \in e + 1 .. q : At(p) \notin Keywords
  <2>1. \A p \in e + 1 .. q : p = e + 1 \/ (q = e + 2 /\ p = e + 2)
    BY <1>2
  <2> QED BY <1>5, <2>1, SignsApart DEF Comma
<1>7. KeywordsIn(e, q)
  BY <1>6, NoKeywordsIn
<1> QED BY <1>1, <1>5, <1>7 DEF Follow, Comma

\* Behind a member that was stored, the parser gets to the next one.
LEMMA MemberDone ==
  ASSUME NEW T \in Seq(Signs), T = Text(doc), Arriving(T), NEW f, NEW v, NEW b, Level(f, v, b), Outermost(f, v, b) \/ Inner(f, v, b),
         NEW i, i = Count(f) + 1, i \in 1 .. Len(Members(v)), FitMember(v, i), NEW m, m = Mark(f, v, b),
         NEW e \in Nat, e = (m + Lead(v, i)) + Len(ValueText[Child(v, i)]), e <= Len(input), KeywordsIn(0, e),
         NEW g, g = Filled(f, KeyOf(v, i), Kept[Child(v, i)]), NEW r, r = Mark(g, v, b)
  PROVE  Leads(After(f, e + 1), Cap(r) + 1) /\ KeywordsIn(0, r)
<1>1. PICK n : n = Len(input)
  OBVIOUS
<1>2. n \in Nat /\ Len(T) \in Nat /\ e <= n /\ e \in Nat
  BY <1>1 DEF Arriving
<1>3. m \in Nat /\ Stands(T, m, Piece(v, i)) /\ m + Len(Piece(v, i)) = b + Place(v)[i + 1]
  BY Ahead
<1>4. v \in Values /\ v.type \in Containers /\ (f.node.type = "array" <=> v.type = "array")
  BY DEF Level
<1>5. PICK q \in Nat :
        /\ q = b + Place(v)[i + 1] /\ e < q /\ q <= Len(T) /\ T[q] = NewLine
        /\ q = e + 1 \/ (f.node.type = "array" /\ q = e + 2 /\ T[e + 1] = Comma)
  <2>1. \E o, u, q \in Nat : Line(T, v, i, m, o, u, q)
    BY <1>3, <1>4, LineStands
  <2>2. PICK o \in Nat, u \in Nat, q \in Nat : Line(T, v, i, m, o, u, q)
    BY <2>1
  <2>3. u = e
    BY <2>2 DEF Line
  <2> QED BY <1>3, <1>4, <2>2, <2>3 DEF Line
<1>6. Level(g, v, b) /\ Count(g) = i /\ g.node.type = f.node.type /\ g.node.name = f.node.name
  BY Grown
<1>7. r = q
  BY <1>5, <1>6 DEF Mark
<1>8. r <= Len(T) /\ (r < Len(T) => T[r + 1] \notin Breaks) /\ r \in Nat
  <2>1. Outermost(g, v, b) \/ Inner(g, v, b)
    BY <1>6, SameKind
  <2> QED BY <1>6, <2>1, Ahead
<1>9. /\ (e + 1 <= n /\ q = e + 2 => At(e + 1) = Comma) /\ (q = e + 1 => At(e + 1) # Comma) /\ KeywordsIn(e, q)
      /\ (~ (e + 1 <= n) => At(e + 1) # Comma)
  <2>1. (e + 1 <= n /\ q = e + 2 => At(e + 1) = Comma) /\ (q = e + 1 => At(e + 1) # Comma) /\ KeywordsIn(e, q)
    BY <1>1, <1>2, <1>5, ValueEnds
  <2>2. ~ (e + 1 <= n) => At(e + 1) = EOF
    BY <1>1, <1>2, SignSeen
  <2> QED BY <2>1, <2>2 DEF EOF, Comma
<1>10. KeywordsIn(0, q)
  BY <1>2, <1>9, KeywordsJoin
<1>11. PICK p : p = After(f, e + 1)
  OBVIOUS
<1>12. /\ (f.node.type = "array" /\ At(e + 1) = Comma) => p = e + 2
       /\ ~ (f.node.type = "array" /\ At(e + 1) = Comma) => p = e + 1
  <2>1. (e + 1) + 1 = e + 2
    BY <1>2
  <2>2. After(f, e + 1) = IF f.node.type = "array" /\ At(e + 1) = Comma THEN (e + 1) + 1 ELSE e + 1
    BY Zenon DEF After, Comma
  <2> QED BY <1>11, <2>1, <2>2
<1>13. p \in 1 .. n + 1 /\ p <= q + 1 /\ (p = n + 1 \/ \A k \in p .. q : T[k] = NewLine)
  <2>1. CASE q = e + 1
    <3>1. p = e + 1
      BY <1>9, <1>12, <2>1
    <3>2. \A k \in p .. q : k = q
      BY <1>2, <2>1, <3>1
    <3> QED BY SMTT(60), <1>2, <1>5, <2>1, <3>1, <3>2
  <2>2. CASE q = e + 2 /\ e + 1 <= n
    <3>1. p = e + 2
      <4>1. q # e + 1
        BY <1>2, <2>2
      <4> QED BY <1>5, <1>9, <1>12, <2>2, <4>1
    <3>2. \A k \in p .. q : k = q
      BY <1>2, <2>2, <3>1
    <3> QED BY SMTT(60), <1>2, <1>5, <2>2, <3>1, <3>2
  <2>3. CASE q = e + 2 /\ ~ (e + 1 <= n)
    <3>1. p = e + 1
      BY <1>9, <1>12, <2>3
    <3>2. p = n + 1
      BY <1>2, <2>3, <3>1
    <3> QED BY <1>2, <2>3, <3>1, <3>2
  <2> QED BY <1>5, <2>1, <2>2, <2>3
<1>14. Leads(p, Cap(q) + 1)
  <2>1. q \in 0 .. Len(T)
    BY <1>2, <1>5
  <2>2. q < Len(T) => T[q + 1] \notin Breaks
    BY <1>7, <1>8
  <2> QED BY <1>1, <1>13, <2>1, <2>2, LeadsOn
<1> QED BY <1>7, <1>10, <1>11, <1>14

-----------------------------------------------------------------------------
(* The steps of the parser on what has arrived of the text. *)

\* No value begins at the end of the stream, nor with an "e" alone.
LEMMA NoValueThere ==
  ASSUME input \in Seq(Signs), NEW p, At(p) = EOF \/ At(p) = "e"
  PROVE  PlainAt(p) = Bad /\ ContainerAt(p) = Bad
<1>1. EOF \notin Keywords /\ "e" \notin Keywords
  BY SignsApart DEF Keywords, Vectors, VectorSize
<1>2. ~ IsDigit(EOF) /\ ~ IsDigit("e")
  BY FollowApart
<1>3. EOF \notin {"\"", "-", "[", "{"} /\ "e" \notin {"\"", "-", "[", "{"}
  BY DEF EOF
<1>4. PICK c : c = At(p)
  OBVIOUS
<1>5. c \notin Keywords /\ ~ IsDigit(c) /\ c # "\"" /\ c # "-" /\ c # "[" /\ c # "{"
  BY <1>1, <1>2, <1>3, <1>4
<1> QED BY <1>4, <1>5, NoKeyword

\* Where that is what the parser sees, reading is over.
Halts == At(Here) = EOF \/ (At(Here) = "e" /\ At(Here + 1) \in {"-", "+", EOF})
LEMMA Halted ==
  ASSUME input \in Seq(Signs), status = "body", Halts, Next
  PROVE  /\ ReturnDocument => At(Here) = EOF
         /\ ReturnDocument \/ ReturnNull
<1>1. PICK c, d : c = At(Here) /\ d = At(Here + 1)
  OBVIOUS
<1>2. c = EOF \/ (c = "e" /\ d \in {"-", "+", EOF})
  BY <1>1 DEF Halts
<1>3. c \notin Identifiers \/ (c = "e" /\ d \notin {"=", "{"})
  BY <1>2, TextAssumption DEF EOF
<1>4. c \notin {"]", "}"}
  BY <1>2 DEF EOF
<1>5. \A p \in ValueStart : p = Here
  BY <1>1, <1>3 DEF ValueStart
<1>6. \A p \in ValueStart : PlainAt(p) = Bad /\ ContainerAt(p) = Bad
  <2>1. PlainAt(Here) = Bad /\ ContainerAt(Here) = Bad
    BY <1>1, <1>2, NoValueThere
  <2> QED BY <1>5, <2>1
<1>7. ~ ReadPlain /\ ~ OpenContainer
  BY <1>6 DEF ReadPlain, OpenContainer
<1>8. ~ OpenShorthand
  BY <1>1, <1>3 DEF OpenShorthand, IsShorthand
<1>9. ~ CloseContainer
  BY <1>1, <1>4 DEF CloseContainer, Closes
<1>10. ReturnDocument => At(Here) = EOF
  BY <1>1, <1>4 DEF ReturnDocument, RootEnds
<1>11. ~ WriteChar /\ ~ Open /\ ~ ReadHeader
  BY DEF WriteChar, Open, ReadHeader
<1> QED BY <1>7, <1>8, <1>9, <1>10, <1>11 DEF Next, Write, Parse

\* Signs that are compared with a sign of the text.
Brace == "{"

\* An object without a type name begins with its bracket.
LEMMA ShorthandBegins ==
  ASSUME NEW v \in Values, Shorthand(v), NEW T \in Seq(Signs), NEW o, Stands(T, o, ValueText[v])
  PROVE  T[o + 1] = Brace /\ v.type \in Containers /\ v.type = "object" /\ v.name = NULL /\ Brim(v) = 2
<1>1. v.type = "object" /\ v.members # NULL /\ v.name = NULL
  BY DEF Shorthand
<1>2. v.type \in Containers /\ v.type # "array"
  BY <1>1 DEF Containers, ObjectTypes
<1>3. Brim(v) = 2 /\ Opens(v) = "{"
  BY <1>1, <1>2 DEF Brim, Opens
<1>4. PICK e : e = o + Len(ValueText[v])
  OBVIOUS
<1>5. Brim(v) \in {1, 2} => T[o + 1] = Opens(v)
  BY <1>2, <1>4, ShellStands
<1> QED BY <1>1, <1>2, <1>3, <1>5 DEF Brace

\* What the parser sees of an element that is to be read.
LEMMA ElementAhead ==
  ASSUME NEW T \in Seq(Signs), Arriving(T), NEW v, v.type = "array", InArray, Len(stack) # 1,
         NEW m \in Nat, m < Len(input), Here = m + 1, T[m + 1] \notin NoBeginning
  PROVE  ~ RootEnds /\ ~ Closes(Top) /\ Key = NULL /\ ValueStart = {m + 1} /\ ~ IsShorthand
<1>1. m + 1 \in Nat \ {0} /\ m + 1 <= Len(input)
  BY DEF Arriving
<1>2. At(m + 1) = T[m + 1]
  BY <1>1, SignSeen
<1>3. At(Here) # "]"
  BY <1>2 DEF NoBeginning
<1>4. Top.node.type = "array"
  BY DEF InArray
<1> QED BY <1>3, <1>4 DEF RootEnds, Closes, Key, ValueStart, IsShorthand, InArray

\* And of a property.
LEMMA PropertyAhead ==
  ASSUME NEW T \in Seq(Signs), Arriving(T), ~ InArray,
         NEW m \in Nat, m < Len(input), Here = m + 1, NEW key \in Contents, T[m + 1] = key,
         NEW o \in Nat, NEW short \in BOOLEAN, m + 2 <= Len(T),
         short => o = m + 1 /\ T[m + 2] = Brace, ~ short => o = m + 2 /\ T[m + 2] = EqualSign
  PROVE  /\ ~ RootEnds /\ ~ Closes(Top) /\ Key = key
         /\ \A p \in ValueStart : p = o + 1 /\ o <= Len(input) /\ key \in Identifiers
         /\ IsShorthand => short /\ m + 2 <= Len(input) /\ key \in Identifiers
         /\ key \in Identifiers /\ m + 2 <= Len(input) => ValueStart = {o + 1} \/ IsShorthand
<1>1. m + 1 \in Nat \ {0} /\ m + 1 <= Len(input) /\ m + 2 \in Nat \ {0} /\ (m + 1) + 1 = m + 2 /\ (m + 1) + 2 = m + 3
  BY DEF Arriving
<1>2. At(m + 1) = key /\ key # EOF
  BY <1>1, SignSeen
<1>3. PICK d : d = At(m + 2)
  OBVIOUS
<1>4. /\ m + 2 <= Len(input) => d = T[m + 2]
      /\ ~ (m + 2 <= Len(input)) => d = EOF
  BY <1>1, <1>3, SignSeen
<1>5. key \notin {"}", "]", EOF}
  BY <1>2, KeyAssumption
<1>6. (d = "{" <=> short /\ m + 2 <= Len(input)) /\ (d = "=" <=> ~ short /\ m + 2 <= Len(input))
  <2>1. EOF # "{" /\ EOF # "="
    BY DEF EOF
  <2>2. EqualSign = "=" /\ Brace = "{"
    BY DEF EqualSign, Brace
  <2>3. EOF # EqualSign /\ EOF # Brace /\ EqualSign # Brace
    BY <2>1, <2>2
  <2> QED BY <1>4, <2>2, <2>3
<1>7. PICK h : h = Here
  OBVIOUS
<1>8. h = m + 1 /\ h + 1 = m + 2 /\ h + 2 = m + 3 /\ At(h) = key /\ At(h + 1) = d
  BY <1>1, <1>2, <1>3, <1>7
<1>9. ~ RootEnds /\ ~ Closes(Top) /\ Key = key
  BY <1>5, <1>7, <1>8 DEF RootEnds, Closes, Key, InArray
<1>10. ValueStart = (IF key \in Identifiers /\ d = "=" THEN {h + 2} ELSE {})
  BY <1>7, <1>8 DEF ValueStart
<1>11. IsShorthand <=> key \in Identifiers /\ d = "{"
  BY <1>7, <1>8 DEF IsShorthand
<1>12. ~ short => h + 2 = o + 1 /\ (m + 2 <= Len(input) => o <= Len(input))
  BY <1>1, <1>8
<1> QED BY <1>6, <1>9, <1>10, <1>11, <1>12

\* What the parser sees of the next member of the innermost container.
LEMMA MemberAhead ==
  ASSUME NEW T \in Seq(Signs), T = Text(doc), Arriving(T), NEW v, NEW b,
         Level(Top, v, b), Outermost(Top, v, b) \/ Inner(Top, v, b), Len(stack) = 1 => Outermost(Top, v, b),
         NEW i \in 1 .. Len(Members(v)), NEW m \in Nat, m < Len(input), Here = m + 1,
         v.type = "array" => T[m + 1] \notin NoBeginning,
         NEW o \in Nat, NEW e \in Nat, NEW q \in Nat, Line(T, v, i, m, o, e, q)
  PROVE  /\ ~ RootEnds /\ ~ Closes(Top) /\ Key = KeyOf(v, i)
         /\ \A p \in ValueStart : p = o + 1 /\ o <= Len(input) /\ (v.type = "array" \/ KeyOf(v, i) \in Identifiers)
         /\ IsShorthand => /\ Shorthand(Child(v, i)) /\ KeyOf(v, i) \in Identifiers
                           /\ o = m + 1 /\ m + 2 <= Len(input)
         /\ (v.type = "array" \/ KeyOf(v, i) \in Identifiers) /\ o + 1 <= Len(input)
              => ValueStart = {o + 1} \/ IsShorthand
<1>1. v \in Values /\ v.type \in Containers /\ (InArray <=> v.type = "array")
  BY DEF Level, InArray
<1>2. Len(input) \in Nat /\ Len(T) \in Nat
  BY DEF Arriving
<1>3. CASE v.type = "array"
  <2>1. o = m
    BY <1>3 DEF Line
  <2>2. Len(stack) # 1
    <3>1. Top.node.type = "array"
      BY <1>1, <1>3 DEF InArray
    <3>2. ~ Outermost(Top, v, b)
      BY <3>1 DEF Outermost
    <3> QED BY <3>2
  <2>3. ~ RootEnds /\ ~ Closes(Top) /\ Key = NULL /\ ValueStart = {m + 1} /\ ~ IsShorthand
    BY <1>1, <1>3, <2>2, ElementAhead
  <2>4. KeyOf(v, i) = NULL
    <3>1. ContainerOK(v) /\ DOMAIN Members(v) = 1 .. Len(Members(v))
      BY <1>1, ContainerTypes, MembersBelow
    <3> QED BY <1>3, <3>1 DEF ContainerOK, KeyOf
  <2>5. m <= Len(input)
    BY <1>2
  <2> QED BY <1>3, <2>1, <2>3, <2>4, <2>5
<1>4. CASE v.type # "array"
  <2>1. PICK short \in BOOLEAN : short <=> Shorthand(Child(v, i))
    OBVIOUS
  <2>2. /\ o < e /\ e < q /\ q <= Len(T) /\ T[m + 1] = KeyOf(v, i) /\ KeyOf(v, i) \in Contents
        /\ short => o = m + 1
        /\ ~ short => o = m + 2 /\ T[m + 2] = EqualSign
        /\ Stands(T, o, ValueText[Child(v, i)])
    BY <1>4, <2>1 DEF Line
  <2>3. m + 2 <= Len(T)
    BY <1>2, <2>2
  <2>4. short => T[m + 2] = Brace
    <3>1. Child(v, i) \in Values
      BY <1>1, MembersBelow
    <3>2. short => T[o + 1] = Brace
      BY <2>1, <2>2, <3>1, ShorthandBegins
    <3>3. short => o + 1 = m + 2
      BY <2>2
    <3> QED BY <3>2, <3>3
  <2>5. PICK key : key = KeyOf(v, i)
    OBVIOUS
  <2>6. key \in Contents /\ T[m + 1] = key /\ ~ InArray /\ (short => o = m + 1 /\ T[m + 2] = Brace)
        /\ (~ short => o = m + 2 /\ T[m + 2] = EqualSign)
    BY <1>1, <1>4, <2>2, <2>4, <2>5
  <2>7. /\ ~ RootEnds /\ ~ Closes(Top) /\ Key = key
        /\ \A p \in ValueStart : p = o + 1 /\ o <= Len(input) /\ key \in Identifiers
        /\ IsShorthand => short /\ m + 2 <= Len(input) /\ key \in Identifiers
        /\ key \in Identifiers /\ m + 2 <= Len(input) => ValueStart = {o + 1} \/ IsShorthand
    BY SMTT(60), <2>3, <2>6, PropertyAhead
  <2>8. o + 1 <= Len(input) => m + 2 <= Len(input)
    BY <1>2, <2>2
  <2> QED BY <1>4, <2>1, <2>2, <2>5, <2>7, <2>8
<1> QED BY <1>3, <1>4

-----------------------------------------------------------------------------
(* The invariant while the parser reads properties and elements. *)

\* The parser is between two members of the document; or behind a number that
\* was cut by the end of the stream; or in one that is not all a number.
Ready(stk, p) ==
  \E src, base :
    /\ Nest(stk, src, base)
    /\ Leads(p, Cap(Mark(stk[1], src[1], base[1])) + 1)
    /\ KeywordsIn(0, Mark(stk[1], src[1], base[1]))
Clipped(ms) ==
  \E d \in Nat : \E x :
    /\ d + 1 \in 1 .. Len(Members(doc)) /\ ms = Append(So(doc, d), Entry(KeyOf(doc, d + 1), x))
    /\ {x.type, Child(doc, d + 1).type} \subseteq Numbers
Cut(stk, p)   == At(p) = EOF /\ ~ Arrived /\ (Len(stk) = 1 => Clipped(stk[1].node.members))
Stuck(stk, p) == At(p) = "e" /\ At(p + 1) \in {"-", "+", EOF} /\ ~ Fit(doc)

\* In the first case, the innermost container is v, its content stands at b, and
\* member i, which stands at m, is the next.
Standing(src, base, v, b, m, i) ==
  /\ Nest(stack, src, base) /\ v = src[1] /\ b = base[1]
  /\ m = Mark(stack[1], v, b) /\ i = Count(stack[1]) + 1
  /\ Here = Cap(m) + 1 /\ KeywordsIn(0, m)
LEMMA IsStanding ==
  ASSUME ReaderInv, Ready(stack, pos)
  PROVE  \E src, base, v, b, m, i : Standing(src, base, v, b, m, i)
<1>1. input \in Seq(Signs) /\ Len(input) \in Nat /\ pos \in Nat
  <2>1. input \in Seq(Signs) /\ pos \in 1 .. Len(input) + 1
    BY DEF ReaderInv
  <2>2. Len(input) \in Nat
    BY <2>1
  <2> QED BY <2>1, <2>2
<1>2. PICK src, base : /\ Nest(stack, src, base)
                       /\ Leads(pos, Cap(Mark(stack[1], src[1], base[1])) + 1)
                       /\ KeywordsIn(0, Mark(stack[1], src[1], base[1]))
  BY DEF Ready
<1>3. PICK v, b, m, i : v = src[1] /\ b = base[1] /\ m = Mark(stack[1], v, b) /\ i = Count(stack[1]) + 1
  OBVIOUS
<1>4. Leads(pos, Cap(m) + 1) /\ KeywordsIn(0, m)
  BY <1>2, <1>3
<1>5. Here = Cap(m) + 1
  BY <1>1, <1>4, LeadsThere DEF Here
<1> QED BY <1>2, <1>3, <1>4, <1>5 DEF Standing

\* All that is known then.
LEMMA StandingIs ==
  ASSUME NEW T \in Seq(Signs), T = Text(doc), Arriving(T), ReaderInv, status = "body",
         NEW src, NEW base, NEW v, NEW b, NEW m, NEW i, Standing(src, base, v, b, m, i)
  PROVE  /\ Top = stack[1] /\ Len(stack) \in Nat \ {0} /\ v \in Values /\ v.type \in Containers
         /\ Level(Top, v, b) /\ (Outermost(Top, v, b) \/ Inner(Top, v, b)) /\ (Len(stack) = 1 => Outermost(Top, v, b))
         /\ Len(stack) > 1 => Inner(Top, v, b)
         /\ m = Mark(Top, v, b) /\ i = Count(Top) + 1 /\ m \in Nat /\ i \in Nat /\ m <= Len(T)
         /\ Here = Cap(m) + 1 /\ KeywordsIn(0, m)
         /\ i \in 1 .. Len(Members(v)) \/ i = Len(Members(v)) + 1
         /\ i = Len(Members(v)) + 1 =>
              /\ m = b + Len(Content(v))
              /\ Outermost(Top, v, b) => m = Len(T)
              /\ Inner(Top, v, b) => T[m + 1] = Closer(v) /\ m + 1 <= Len(T)
         /\ i \in 1 .. Len(Members(v)) =>
              /\ Child(v, i) \in Values /\ m < Len(T)
              /\ v.type = "array" => T[m + 1] \notin NoBeginning
              /\ \E o, e, q \in Nat : Line(T, v, i, m, o, e, q)
<1>1. Top = stack[1]
  BY Seen
<1>2. /\ Nest(stack, src, base) /\ v = src[1] /\ b = base[1] /\ m = Mark(Top, v, b) /\ i = Count(Top) + 1
      /\ Here = Cap(m) + 1 /\ KeywordsIn(0, m)
  BY <1>1 DEF Standing
<1>3. /\ Len(stack) \in Nat \ {0} /\ Level(Top, v, b)
      /\ Len(stack) = 1 => Outermost(Top, v, b)
      /\ Len(stack) > 1 => Inner(Top, v, b)
  BY <1>1, <1>2, TopKind
<1>4. Outermost(Top, v, b) \/ Inner(Top, v, b)
  <2>1. \A n \in Nat \ {0} : n = 1 \/ n > 1
    OBVIOUS
  <2> QED BY <1>3, <2>1
<1>5. v \in Values /\ v.type \in Containers
  BY <1>3 DEF Level
<1>6. /\ m \in Nat /\ m <= Len(T) /\ Len(T) \in Nat /\ i \in Nat
      /\ i \in 1 .. Len(Members(v)) \/ i = Len(Members(v)) + 1
      /\ i = Len(Members(v)) + 1 =>
           /\ m = b + Len(Content(v))
           /\ Outermost(Top, v, b) => m = Len(T)
           /\ Inner(Top, v, b) => T[m + 1] = Closer(v) /\ m + 1 <= Len(T)
      /\ i \in 1 .. Len(Members(v)) =>
           /\ Child(v, i) \in Values /\ m < Len(T) /\ Stands(T, m, Piece(v, i))
           /\ v.type = "array" => T[m + 1] \notin NoBeginning
  BY <1>2, <1>3, <1>4, Ahead
<1>7. ASSUME i \in 1 .. Len(Members(v))  PROVE \E o, e, q \in Nat : Line(T, v, i, m, o, e, q)
  <2>1. m \in Nat /\ Stands(T, m, Piece(v, i))
    BY <1>6, <1>7
  <2> QED BY <1>5, <1>7, <2>1, LineStands
<1> QED BY <1>1, <1>2, <1>3, <1>4, <1>5, <1>6, <1>7

\* The parser sees a text as far as it has arrived.
LEMMA SeesText ==
  ASSUME NEW T, Arriving(T), NEW o \in Nat, NEW s \in Seq(Signs), Stands(T, o, s)
  PROVE  Sees(o, s)
<1> SUFFICES ASSUME NEW j \in 1 .. Len(s)
             PROVE  At(o + j) = IF o + j <= Len(input) THEN s[j] ELSE EOF
  BY DEF Sees
<1>1. o + j \in Nat \ {0} /\ T[o + j] = s[j]
  <2>1. Len(s) \in Nat
    OBVIOUS
  <2> QED BY <2>1 DEF Stands
<1> QED BY <1>1, SignSeen

\* There is no keyword before the value of a member.
LEMMA LeadKeywords ==
  ASSUME NEW T \in Seq(Signs), Arriving(T), NEW v \in Values, v.type \in Containers, NEW i \in 1 .. Len(Members(v)),
         NEW m \in Nat, NEW o \in Nat, NEW e \in Nat, NEW q \in Nat, Line(T, v, i, m, o, e, q)
  PROVE  KeywordsIn(m, o)
<1>1. CASE v.type = "array"
  <2>1. o = m
    BY <1>1 DEF Line
  <2>2. \A p : p \notin m + 1 .. o
    BY <2>1
  <2> QED BY <2>2 DEF KeywordsIn
<1>2. CASE v.type # "array"
  <2>1. PICK short \in BOOLEAN : short <=> Shorthand(Child(v, i))
    OBVIOUS
  <2>2. /\ short => o = m + 1
        /\ ~ short => o = m + 2 /\ T[m + 2] = EqualSign
        /\ Stands(T, o, ValueText[Child(v, i)])
    BY <1>2, <2>1 DEF Line
  <2>3. short => T[m + 2] = Brace
    <3>1. Child(v, i) \in Values
      BY MembersBelow
    <3>2. short => T[o + 1] = Brace
      BY <2>1, <2>2, <3>1, ShorthandBegins
    <3>3. short => o + 1 = m + 2
      BY <2>2
    <3> QED BY <3>2, <3>3
  <2>4. m + 2 \in Nat \ {0} /\ (m + 1) + 1 = m + 2
    OBVIOUS
  <2>5. At(m + 2) \in {EqualSign, Brace, EOF}
    BY <2>2, <2>3, <2>4, SignSeen
  <2>6. At(m + 2) # "~" /\ At(m + 2) \notin Keywords
    BY <2>5, SignsApart DEF EqualSign, Brace
  <2>7. \A p \in m + 1 .. o : p = m + 1 \/ p = m + 2
    BY <2>2
  <2> QED BY <2>4, <2>6, <2>7, NoKeywordsIn
<1> QED BY <1>1, <1>2

\* A document with a value in it that cannot be read back cannot be.
LEMMA NotFit ==
  ASSUME NEW f, NEW v, NEW b, Level(f, v, b), NEW i \in 1 .. Len(Members(v)), ~ FitMember(v, i)
  PROVE  ~ Fit(doc)
<1>1. ~ Fit(v)
  BY DEF Fit
<1> QED BY <1>1 DEF Level

\* As long as the parser goes on, it is not at the end of the stream.
LEMMA GoesOn ==
  ASSUME NEW T \in Seq(Signs), T = Text(doc), Arriving(T), ReaderInv, status = "body", Next, status' = "body",
         NEW src, NEW base, NEW v, NEW b, NEW m, NEW i, Standing(src, base, v, b, m, i)
  PROVE  m \in Nat /\ m < Len(input) /\ Here = m + 1
<1>1. m \in Nat /\ Here = Cap(m) + 1
  BY StandingIs
<1>2. PICK n : n = Len(input)
  OBVIOUS
<1>3. n \in Nat /\ input \in Seq(Signs)
  BY <1>2 DEF Arriving
<1>4. m < n
  <2> SUFFICES ASSUME ~ (m < n)  PROVE FALSE
    OBVIOUS
  <2>1. Cap(m) = n
    BY <1>1, <1>2, <1>3 DEF Cap
  <2>2. n + 1 \in Nat \ {0} /\ ~ (n + 1 <= Len(input))
    BY <1>2, <1>3
  <2>3. At(n + 1) = EOF
    BY <2>2, SignSeen
  <2>4. Halts
    BY <1>1, <2>1, <2>3 DEF Halts
  <2>5. ReturnDocument \/ ReturnNull
    BY <1>3, <2>4, Halted
  <2> QED BY <2>5 DEF ReturnDocument, ReturnNull
<1>5. Cap(m) = m
  BY <1>1, <1>2, <1>3, <1>4 DEF Cap
<1> QED BY <1>1, <1>2, <1>4, <1>5

\* Behind the last member of a container, the parser sees that it ends.
LEMMA EndAhead ==
  ASSUME NEW T \in Seq(Signs), Arriving(T), NEW v, NEW b, Level(Top, v, b), Inner(Top, v, b), Len(stack) # 1,
         NEW m \in Nat, m < Len(input), Here = m + 1, T[m + 1] = Closer(v)
  PROVE  Closes(Top) /\ ValueStart = {} /\ ~ IsShorthand /\ ~ RootEnds
<1>1. InArray <=> v.type = "array"
  BY DEF Level, InArray
<1>2. m + 1 \in Nat \ {0} /\ m + 1 <= Len(input)
  BY DEF Arriving
<1>3. At(Here) = Closer(v)
  BY <1>2, SignSeen
<1>4. "}" \notin Identifiers /\ "]" \notin Identifiers
  BY TextAssumption, KeyAssumption
<1>5. CASE v.type = "array"
  <2>1. At(Here) = "]" /\ InArray
    BY <1>1, <1>3, <1>5 DEF Closer
  <2> QED BY <2>1 DEF Closes, ValueStart, IsShorthand, RootEnds, InArray
<1>6. CASE v.type # "array"
  <2>1. At(Here) = "}" /\ ~ InArray
    BY <1>1, <1>3, <1>6 DEF Closer
  <2> QED BY <1>4, <2>1 DEF Closes, ValueStart, IsShorthand, RootEnds, InArray
<1> QED BY <1>5, <1>6

\* Where a value is read or a container is opened, a member comes.
LEMMA MemberComes ==
  ASSUME NEW T \in Seq(Signs), T = Text(doc), Arriving(T), ReaderInv, status = "body",
         NEW src, NEW base, NEW v, NEW b, NEW m, NEW i, Standing(src, base, v, b, m, i),
         ReadPlain \/ OpenContainer \/ OpenShorthand
  PROVE  /\ i \in 1 .. Len(Members(v)) /\ m < Len(input) /\ Key = KeyOf(v, i)
         /\ v.type = "array" \/ KeyOf(v, i) \in Identifiers
         /\ \E o, e, q \in Nat :
              /\ Line(T, v, i, m, o, e, q)
              /\ ReadPlain \/ OpenContainer => ValueStart = {o + 1} /\ o <= Len(input)
              /\ OpenShorthand => Shorthand(Child(v, i)) /\ o = m + 1 /\ m + 2 <= Len(input)
<1>1. /\ Level(Top, v, b) /\ (Outermost(Top, v, b) \/ Inner(Top, v, b)) /\ (Len(stack) = 1 => Outermost(Top, v, b))
      /\ Len(stack) > 1 => Inner(Top, v, b)
      /\ m \in Nat /\ Len(stack) \in Nat \ {0}
      /\ i \in 1 .. Len(Members(v)) \/ i = Len(Members(v)) + 1
      /\ i = Len(Members(v)) + 1 =>
           /\ Outermost(Top, v, b) => m = Len(T)
           /\ Inner(Top, v, b) => T[m + 1] = Closer(v) /\ m + 1 <= Len(T)
      /\ i \in 1 .. Len(Members(v)) =>
           /\ v.type = "array" => T[m + 1] \notin NoBeginning
           /\ \E o, e, q \in Nat : Line(T, v, i, m, o, e, q)
  BY StandingIs
<1>2. m < Len(input) /\ Here = m + 1
  <2>1. Next /\ status' = "body"
    BY DEF Next, Parse, ReadPlain, OpenContainer, OpenShorthand
  <2> QED BY <2>1, GoesOn
<1>3. (ReadPlain \/ OpenContainer => ValueStart # {}) /\ (OpenShorthand => IsShorthand)
  BY DEF ReadPlain, OpenContainer, OpenShorthand
<1>4. i \in 1 .. Len(Members(v))
  <2> SUFFICES ASSUME i = Len(Members(v)) + 1  PROVE FALSE
    BY <1>1
  <2>1. ~ (m = Len(T))
    <3>1. Len(input) \in Nat /\ Len(T) \in Nat /\ Len(input) <= Len(T)
      BY DEF Arriving, Begins
    <3> QED BY <1>1, <1>2, <3>1
  <2>2. Inner(Top, v, b) /\ T[m + 1] = Closer(v) /\ ~ Outermost(Top, v, b)
    BY <1>1, <2>1
  <2>3. Len(stack) # 1
    BY <1>1, <2>2
  <2>4. ValueStart = {} /\ ~ IsShorthand
    BY <1>1, <1>2, <2>2, <2>3, EndAhead
  <2> QED BY <1>3, <2>4
<1>5. PICK o \in Nat, e \in Nat, q \in Nat : Line(T, v, i, m, o, e, q)
  BY <1>1, <1>4
<1>6. v.type = "array" => T[m + 1] \notin NoBeginning
  BY <1>1, <1>4
<1>7. /\ Key = KeyOf(v, i)
      /\ \A p \in ValueStart : p = o + 1 /\ o <= Len(input) /\ (v.type = "array" \/ KeyOf(v, i) \in Identifiers)
      /\ IsShorthand => /\ Shorthand(Child(v, i)) /\ KeyOf(v, i) \in Identifiers
                        /\ o = m + 1 /\ m + 2 <= Len(input)
  BY <1>1, <1>2, <1>4, <1>5, <1>6, MemberAhead
<1>8. v.type = "array" \/ KeyOf(v, i) \in Identifiers
  BY <1>3, <1>7
<1>9. ReadPlain \/ OpenContainer => ValueStart = {o + 1} /\ o <= Len(input)
  BY <1>3, <1>7
<1>10. OpenShorthand => Shorthand(Child(v, i)) /\ o = m + 1 /\ m + 2 <= Len(input)
  BY <1>3, <1>7
<1> QED BY <1>2, <1>4, <1>5, <1>7, <1>8, <1>9, <1>10

\* A value that was read is stored in its member's place.
LEMMA Stores ==
  ASSUME NEW T \in Seq(Signs), T = Text(doc), Arriving(T), ReaderInv, status = "body",
         NEW src, NEW base, NEW v, NEW b, NEW m, NEW i, Standing(src, base, v, b, m, i),
         i \in 1 .. Len(Members(v)), FitMember(v, i),
         NEW e \in Nat, e = (m + Lead(v, i)) + Len(ValueText[Child(v, i)]), e <= Len(input), KeywordsIn(0, e),
         stack' = Replaced(stack, Filled(Top, KeyOf(v, i), Kept[Child(v, i)])), pos' = After(Top, e + 1)
  PROVE  Ready(stack', pos')
<1>1. PICK f : f = Top
  OBVIOUS
<1>2. /\ f = stack[1] /\ Level(f, v, b) /\ (Outermost(f, v, b) \/ Inner(f, v, b)) /\ m = Mark(f, v, b) /\ i = Count(f) + 1
  BY <1>1, StandingIs
<1>3. PICK g : g = Filled(f, KeyOf(v, i), Kept[Child(v, i)])
  OBVIOUS
<1>4. PICK r : r = Mark(g, v, b)
  OBVIOUS
<1>5. Leads(After(f, e + 1), Cap(r) + 1) /\ KeywordsIn(0, r)
  BY <1>2, <1>3, <1>4, MemberDone
<1>6. Level(g, v, b) /\ g.key = f.key /\ g.node.type = f.node.type /\ g.node.name = f.node.name
  BY <1>2, <1>3, Grown
<1>7. PICK t : t = Replaced(stack, g)
  OBVIOUS
<1>8. Nest(t, src, base) /\ t[1] = g
  <2>1. Nest(stack, src, base) /\ v = src[1] /\ b = base[1]
    BY DEF Standing
  <2>2. PICK s : s = stack
    OBVIOUS
  <2>3. Nest(s, src, base) /\ Level(g, src[1], base[1]) /\ g.key = s[1].key /\ g.node.type = s[1].node.type
        /\ g.node.name = s[1].node.name /\ t = Replaced(s, g)
    BY <1>2, <1>6, <1>7, <2>1, <2>2
  <2> QED BY <2>3, NestChanged
<1>9. v = src[1] /\ b = base[1]
  BY DEF Standing
<1>10. stack' = t /\ pos' = After(f, e + 1)
  BY <1>1, <1>3, <1>7
<1>11. Leads(pos', Cap(Mark(stack'[1], src[1], base[1])) + 1) /\ KeywordsIn(0, Mark(stack'[1], src[1], base[1]))
  BY <1>4, <1>5, <1>8, <1>9, <1>10
<1> QED BY <1>8, <1>10, <1>11 DEF Ready

\* A number that was cut short is the last thing that is stored.
LEMMA Clips ==
  ASSUME NEW T \in Seq(Signs), T = Text(doc), Arriving(T), ReaderInv, status = "body",
         NEW src, NEW base, NEW v, NEW b, NEW m, NEW i, Standing(src, base, v, b, m, i),
         i \in 1 .. Len(Members(v)), NEW x, {x.type, Child(v, i).type} \subseteq Numbers,
         NEW g, g = Filled(Top, KeyOf(v, i), x), Len(stack) = 1
  PROVE  Clipped(g.node.members)
<1>1. Level(Top, v, b) /\ Outermost(Top, v, b) /\ i = Count(Top) + 1
  BY StandingIs
<1>2. v = doc
  BY <1>1 DEF Outermost
<1>3. PICK d, t, name : d = Count(Top) /\ t = Top.node.type /\ name = Top.node.name
  OBVIOUS
<1>4. /\ v \in Values /\ v.type \in Containers /\ d \in 0 .. Len(Members(v)) /\ d + 1 = i /\ Top = Frame(Top.node, Top.key)
      /\ Top.node = Shell(t, name, So(v, d)) /\ (t = "array" <=> v.type = "array")
  BY <1>1, <1>3 DEF Level
<1>5. d \in Nat /\ d + 1 \in 1 .. Len(Members(v))
  BY <1>4
<1>6. With(Shell(t, name, So(v, d)), KeyOf(v, d + 1), x) = Shell(t, name, Append(So(v, d), Entry(KeyOf(v, d + 1), x)))
  BY <1>4, <1>5, StoredNext
<1>7. g.node = With(Top.node, KeyOf(v, i), x)
  BY <1>4, FilledIs
<1>8. g.node = Shell(t, name, Append(So(v, d), Entry(KeyOf(v, d + 1), x)))
  BY <1>4, <1>6, <1>7
<1>9. g.node.members = Append(So(v, d), Entry(KeyOf(v, d + 1), x))
  BY <1>8 DEF Shell
<1>10. {x.type, Child(doc, d + 1).type} \subseteq Numbers
  BY <1>2, <1>4
<1> QED BY <1>2, <1>5, <1>9, <1>10 DEF Clipped

\* A value is read.
LEMMA ReadPlainTracks ==
  ASSUME NEW T \in Seq(Signs), T = Text(doc), Arriving(T), ReaderInv, status = "body",
         NEW src, NEW base, NEW v, NEW b, NEW m, NEW i, Standing(src, base, v, b, m, i), ReadPlain
  PROVE  Ready(stack', pos') \/ Cut(stack', pos') \/ Stuck(stack', pos')
<1>1. /\ i \in 1 .. Len(Members(v)) /\ m < Len(input) /\ Key = KeyOf(v, i)
      /\ v.type = "array" \/ KeyOf(v, i) \in Identifiers
      /\ \E o, e, q \in Nat :
           Line(T, v, i, m, o, e, q) /\ (ReadPlain \/ OpenContainer => ValueStart = {o + 1} /\ o <= Len(input))
  BY MemberComes
<1>2. PICK o \in Nat, e \in Nat, q \in Nat : Line(T, v, i, m, o, e, q) /\ ValueStart = {o + 1} /\ o <= Len(input)
  BY <1>1
<1>3. /\ v \in Values /\ v.type \in Containers /\ m \in Nat /\ Child(v, i) \in Values /\ KeywordsIn(0, m)
      /\ Level(Top, v, b) /\ Top = stack[1]
  BY <1>1, StandingIs
<1>4. PICK n, w, t : n = Len(input) /\ w = Child(v, i) /\ t = ValueText[w]
  OBVIOUS
<1>5. /\ o = m + Lead(v, i) /\ e = o + Len(t) /\ t \in Seq(Signs) /\ Stands(T, o, t) /\ o < e /\ e < q /\ q <= Len(T)
      /\ T[q] = NewLine /\ (q = e + 1 \/ (q = e + 2 /\ T[e + 1] = Comma))
  BY <1>2, <1>4 DEF Line
<1>6. n \in Nat /\ Len(T) \in Nat /\ o \in 0 .. n /\ w \in Values /\ input \in Seq(Signs)
  BY <1>2, <1>3, <1>4 DEF Arriving
<1>7. PICK read : /\ read = PlainAt(o + 1) /\ read # Bad
                  /\ stack' = <<Filled(Top, Key, read.val)>> \o Tail(stack) /\ pos' = After(Top, read.end)
  BY <1>2 DEF ReadPlain
<1>8. w.type \in PlainTypes
  <2>1. w.type \in Containers => PlainAt(o + 1) = Bad
    BY <1>4, <1>5, <1>6, ContainerRead
  <2> QED BY <1>6, <1>7, <2>1, TextAssumption
<1>9. ReadsPlain(read, w, o, e)
  <2>1. Sees(o, ValueText[w])
    BY <1>4, <1>5, SeesText
  <2>2. At(e + 1) \in Follow
    BY <1>5, ValueEnds
  <2>3. o \in 0 .. Len(input) /\ e = o + Len(ValueText[w])
    BY <1>4, <1>5, <1>6
  <2> QED BY <1>6, <1>7, <1>8, <2>1, <2>2, <2>3, PlainValuesReadBack
<1>10. CASE Arrives(w, o, e) /\ read = Read(e + 1, Kept[w])
  <2>1. e <= Len(input) /\ Readable[w] /\ KeywordsIn(o, e)
    BY <1>10 DEF Arrives
  <2>2. KeywordsIn(m, o)
    BY <1>1, <1>2, <1>3, LeadKeywords
  <2>3. KeywordsIn(0, e)
    <3>1. KeywordsIn(0, o)
      BY <1>3, <2>2, KeywordsJoin
    <3> QED BY <2>1, <3>1, KeywordsJoin
  <2>4. FitMember(v, i)
    BY <1>1, <1>4, <2>1 DEF FitMember
  <2>5. read.end = e + 1 /\ read.val = Kept[w]
    BY <1>10 DEF Read
  <2>6. stack' = Replaced(stack, Filled(Top, KeyOf(v, i), Kept[Child(v, i)])) /\ pos' = After(Top, e + 1)
    BY <1>1, <1>4, <1>7, <2>5 DEF Replaced
  <2>7. e = (m + Lead(v, i)) + Len(ValueText[Child(v, i)])
    BY <1>4, <1>5
  <2>8. i \in 1 .. Len(Members(v)) /\ FitMember(v, i) /\ e <= Len(input) /\ KeywordsIn(0, e)
    BY <1>1, <2>1, <2>3, <2>4
  <2>9. Ready(stack', pos')
    BY <2>6, <2>7, <2>8, Stores
  <2> QED BY <2>9
<1>11. CASE /\ w.type \in Numbers /\ read.val.type \in Numbers
            /\ \/ At(read.end) = EOF /\ e > Len(input)
               \/ At(read.end) = "e" /\ At(read.end + 1) \in {"-", "+", EOF} /\ ~ Readable[w]
  <2>1. At(read.end) # ","
    BY <1>11 DEF EOF
  <2>2. pos' = read.end
    BY <1>7, <2>1 DEF After
  <2>3. CASE At(read.end) = EOF /\ e > Len(input)
    <3>1. ~ Arrived
      <4>1. e < Len(T)
        BY <1>5, <1>6
      <4>2. Len(input) # Len(T)
        BY <1>6, <2>3, <4>1
      <4> QED BY <4>2 DEF Arrived
    <3>2. PICK g : g = Filled(Top, Key, read.val)
      OBVIOUS
    <3>3. Len(stack') = Len(stack) /\ stack'[1] = g
      <4>1. stack \in Seq(Range(stack)) /\ stack # <<>>
        BY TopKind DEF Standing
      <4>2. OnTop(Replaced(stack, g), g, Len(stack))
        BY <4>1, StackOps
      <4>3. stack' = Replaced(stack, g)
        BY <1>7, <3>2 DEF Replaced
      <4> QED BY <4>2, <4>3 DEF OnTop
    <3>4. Len(stack) = 1 => Clipped(g.node.members)
      <4>1. PICK x : x = read.val
        OBVIOUS
      <4>2. {x.type, Child(v, i).type} \subseteq Numbers
        BY <1>4, <1>11, <4>1
      <4>3. g = Filled(Top, KeyOf(v, i), x)
        BY <1>1, <3>2, <4>1
      <4> QED BY <1>1, <4>2, <4>3, Clips
    <3> QED BY <2>2, <2>3, <3>1, <3>3, <3>4 DEF Cut
  <2>4. CASE At(read.end) = "e" /\ At(read.end + 1) \in {"-", "+", EOF} /\ ~ Readable[w]
    <3>1. ~ FitMember(v, i)
      BY <1>4, <2>4 DEF FitMember
    <3>2. ~ Fit(doc)
      BY <1>1, <1>3, <3>1, NotFit
    <3> QED BY <2>2, <2>4, <3>2 DEF Stuck
  <2> QED BY <1>11, <2>3, <2>4
<1> QED BY <1>7, <1>9, <1>10, <1>11 DEF ReadsPlain

\* Behind the bracket of a container that was opened, its first member comes.
LEMMA GateLeads ==
  ASSUME NEW T \in Seq(Signs), T = Text(doc), Arriving(T), NEW w \in Values, w.type \in Containers,
         NEW o \in Nat, Stands(T, o, ValueText[w]), o + Gate(w) <= Len(input), KeywordsIn(0, o + Gate(w)),
         o + Brim(w) < Len(T) => T[(o + Brim(w)) + 1] \notin Breaks
  PROVE  Leads((o + Gate(w)) + 1, Cap(o + Brim(w)) + 1) /\ KeywordsIn(0, o + Brim(w))
<1>1. PICK n, c, g, b, p : n = Len(input) /\ c = Brim(w) /\ g = o + Gate(w) /\ b = o + Brim(w) /\ p = (o + Gate(w)) + 1
  OBVIOUS
<1>2. n \in Nat /\ Len(T) \in Nat /\ n <= Len(T)
  BY <1>1 DEF Arriving, Begins
<1>3. /\ c \in {1, 2, 5} /\ Stands(T, b, Content(w)) /\ Len(Content(w)) \in Nat
      /\ c = 2 => T[o + 2] = NewLine
      /\ c = 5 => T[o + 5] = NewLine
  <2>1. PICK e : e = o + Len(ValueText[w])
    OBVIOUS
  <2>2. /\ Brim(w) \in {1, 2, 5} /\ Stands(T, o + Brim(w), Content(w)) /\ Len(Content(w)) \in Nat
        /\ Brim(w) = 2 => T[o + 2] = NewLine
        /\ Brim(w) = 5 => NamedAt(T, o, w.name)
    BY <2>1, ShellStands
  <2> QED BY <1>1, <2>2 DEF NamedAt
<1>4. /\ g = IF c = 5 THEN o + 4 ELSE o + 1
      /\ b = o + c /\ p = g + 1 /\ g <= n /\ KeywordsIn(0, g)
  BY <1>1 DEF Gate
<1>5. g \in Nat /\ b \in Nat /\ p \in 1 .. n + 1 /\ p <= b + 1 /\ (b = g \/ b = g + 1)
  BY <1>2, <1>3, <1>4
<1>6. \A k \in p .. b : T[k] = NewLine
  <2>1. \A k \in p .. b : k = b /\ b = g + 1
    BY <1>4, <1>5
  <2>2. b = g + 1 => T[b] = NewLine
    BY <1>3, <1>4
  <2> QED BY <2>1, <2>2
<1>7. b \in 0 .. Len(T) /\ (b < Len(T) => T[b + 1] \notin Breaks)
  <2>1. b <= Len(T)
    BY <1>2, <1>3, <1>5 DEF Stands
  <2> QED BY <1>1, <1>2, <1>5, <2>1
<1>8. Leads(p, Cap(b) + 1)
  BY <1>1, <1>5, <1>6, <1>7, LeadsOn
<1>9. KeywordsIn(g, b)
  <2>1. \A k \in g + 1 .. b : At(k) \notin Keywords
    <3> SUFFICES ASSUME NEW k \in g + 1 .. b  PROVE At(k) \notin Keywords
      OBVIOUS
    <3>1. k \in p .. b /\ k \in Nat \ {0}
      BY <1>4, <1>5
    <3>2. T[k] = NewLine
      BY <1>6, <3>1
    <3>3. At(k) \in {NewLine, EOF}
      BY <3>1, <3>2, SignSeen
    <3> QED BY <3>3, SignsApart
  <2> QED BY <2>1, NoKeywordsIn
<1>10. KeywordsIn(0, b)
  BY <1>4, <1>5, <1>9, KeywordsJoin
<1> QED BY <1>1, <1>8, <1>10

\* So when it was opened it is being read.
LEMMA Opened ==
  ASSUME NEW T \in Seq(Signs), T = Text(doc), Arriving(T), ReaderInv, status = "body",
         NEW src, NEW base, NEW v, NEW b, NEW m, NEW i, Standing(src, base, v, b, m, i),
         i \in 1 .. Len(Members(v)), v.type = "array" \/ KeyOf(v, i) \in Identifiers,
         NEW o \in Nat, NEW e \in Nat, NEW q \in Nat, Line(T, v, i, m, o, e, q),
         NEW w, w = Child(v, i), w.type \in Containers, w.name \in Identifiers \cup {NULL},
         o + Gate(w) <= Len(input), KeywordsIn(o, o + Gate(w)),
         NEW f, f = Frame(Shell(Look(w), w.name, <<>>), KeyOf(v, i)),
         stack' = Pushed(stack, f), pos' = (o + Gate(w)) + 1
  PROVE  Ready(stack', pos')
<1>1. PICK c, t, l : c = o + Brim(w) /\ t = ValueText[w] /\ l = Len(Content(w))
  OBVIOUS
<1>2. /\ v \in Values /\ v.type \in Containers /\ m \in Nat /\ w \in Values /\ KeywordsIn(0, m)
      /\ Level(Top, v, b) /\ Top = stack[1] /\ m = Mark(Top, v, b) /\ i = Count(Top) + 1
  BY StandingIs
<1>3. o = m + Lead(v, i) /\ e = o + Len(t) /\ t \in Seq(Signs) /\ Stands(T, o, t)
  BY <1>1 DEF Line
<1>4. /\ c \in Nat /\ l \in Nat /\ Stands(T, c, Content(w)) /\ e = (c + l) + 1 /\ T[e] = Closer(w) /\ e <= Len(T)
  <2>1. /\ Brim(w) \in {1, 2, 5} /\ Len(Content(w)) \in Nat /\ Stands(T, o + Brim(w), Content(w))
        /\ e = ((o + Brim(w)) + Len(Content(w))) + 1 /\ T[e] = Closer(w) /\ e <= Len(T)
    BY SMTT(60), <1>1, <1>2, <1>3, ShellStands
  <2>2. o + Brim(w) \in Nat
    <3>1. \A k \in {1, 2, 5} : o + k \in Nat
      OBVIOUS
    <3> QED BY <2>1, <3>1
  <2> QED BY <1>1, <2>1, <2>2
<1>5. Fit(doc) => Fit(w)
  <2>1. Fit(doc) => FitMember(v, i)
    BY <1>2, NotFit
  <2>2. FitMember(v, i) => Readable[w]
    BY DEF FitMember
  <2>3. Readable[w] => Fit(w)
    BY <1>2, ContainersKept
  <2> QED BY <2>1, <2>2, <2>3
<1>6. Look(w) = "array" <=> w.type = "array"
  BY DEF Look
<1>7. PICK type, name, key : type = Look(w) /\ name = w.name /\ key = KeyOf(v, i)
  OBVIOUS
<1>8. Level(f, w, c) /\ Count(f) = 0 /\ f.key = key /\ f.node.type = type /\ f.node.name = name /\ Mark(f, w, c) = c
  <2>1. f = Frame(Shell(type, name, <<>>), key) /\ (type = "array" <=> w.type = "array") /\ Stands(Text(doc), c, Content(w))
    BY <1>4, <1>6, <1>7
  <2> QED BY <1>2, <1>4, <1>5, <2>1, Fresh
<1>9. Inner(f, w, c)
  <2>1. (c + Len(Content(w))) + 1 = e
    BY <1>1, <1>4
  <2> QED BY <1>4, <1>7, <1>8, <2>1 DEF Inner
<1>10. Link(f.key, w, c, stack[1], src[1], base[1])
  <2>1. v = src[1] /\ b = base[1]
    BY DEF Standing
  <2>2. Count(stack[1]) + 1 = i /\ m = b + Place(v)[i]
    BY <1>2 DEF Mark
  <2>3. (c + Len(Content(w))) + 1 = ((b + Place(v)[i]) + Lead(v, i)) + Len(ValueText[w])
    <3>1. (c + l) + 1 = (m + Lead(v, i)) + Len(t)
      BY <1>3, <1>4
    <3> QED BY <1>1, <2>2, <3>1
  <2> QED BY <1>7, <1>8, <2>1, <2>2, <2>3 DEF Link
<1>11. c < Len(T) => T[c + 1] \notin Breaks
  <2>1. PICK j : j = Count(f) + 1
    OBVIOUS
  <2>2. c = Mark(f, w, c) /\ Level(f, w, c) /\ (Outermost(f, w, c) \/ Inner(f, w, c))
    BY <1>8, <1>9
  <2> QED BY <2>1, <2>2, Ahead
<1>12. Leads(pos', Cap(c) + 1) /\ KeywordsIn(0, c)
  <2>1. KeywordsIn(0, o)
    <3>1. KeywordsIn(m, o)
      BY <1>2, LeadKeywords
    <3> QED BY <1>2, <3>1, KeywordsJoin
  <2>2. o + Gate(w) \in Nat
    BY DEF Gate
  <2>3. KeywordsIn(0, o + Gate(w))
    BY <2>1, <2>2, KeywordsJoin
  <2>4. Leads((o + Gate(w)) + 1, Cap(o + Brim(w)) + 1) /\ KeywordsIn(0, o + Brim(w))
    BY <1>1, <1>2, <1>3, <1>11, <2>3, GateLeads
  <2> QED BY <1>1, <2>4
<1>13. \E src2, base2 : Nest(stack', src2, base2) /\ src2[1] = w /\ base2[1] = c /\ stack'[1] = f
  <2>1. Nest(stack, src, base)
    BY DEF Standing
  <2>2. PICK s, s2, g : s = stack /\ s2 = stack' /\ g = f
    OBVIOUS
  <2>3. /\ Nest(s, src, base) /\ w \in Values /\ c \in Nat /\ Level(g, w, c) /\ Inner(g, w, c)
        /\ Link(g.key, w, c, s[1], src[1], base[1]) /\ s2 = Pushed(s, g)
    BY <1>2, <1>4, <1>8, <1>9, <1>10, <2>1, <2>2
  <2>4. \E src2, base2 : Nest(s2, src2, base2) /\ src2[1] = w /\ base2[1] = c /\ s2[1] = g
    BY <2>3, NestOpened
  <2> QED BY <2>2, <2>4
<1>14. PICK src2, base2 : Nest(stack', src2, base2) /\ src2[1] = w /\ base2[1] = c /\ stack'[1] = f
  BY <1>13
<1>15. Mark(stack'[1], src2[1], base2[1]) = c
  BY <1>8, <1>14
<1> QED BY <1>12, <1>14, <1>15 DEF Ready

\* A container is opened.
LEMMA OpenContainerTracks ==
  ASSUME NEW T \in Seq(Signs), T = Text(doc), Arriving(T), ReaderInv, status = "body",
         NEW src, NEW base, NEW v, NEW b, NEW m, NEW i, Standing(src, base, v, b, m, i), OpenContainer
  PROVE  Ready(stack', pos')
<1>1. /\ i \in 1 .. Len(Members(v)) /\ m < Len(input) /\ Key = KeyOf(v, i)
      /\ v.type = "array" \/ KeyOf(v, i) \in Identifiers
      /\ \E o, e, q \in Nat :
           Line(T, v, i, m, o, e, q) /\ (ReadPlain \/ OpenContainer => ValueStart = {o + 1} /\ o <= Len(input))
  BY MemberComes
<1>2. PICK o \in Nat, e \in Nat, q \in Nat : Line(T, v, i, m, o, e, q) /\ ValueStart = {o + 1} /\ o <= Len(input)
  BY <1>1
<1>3. PICK w, t : w = Child(v, i) /\ t = ValueText[w]
  OBVIOUS
<1>4. w \in Values /\ v \in Values /\ v.type \in Containers
  BY <1>1, <1>3, StandingIs
<1>5. /\ e = o + Len(t) /\ t \in Seq(Signs) /\ Stands(T, o, t) /\ o < e /\ e < q /\ q <= Len(T)
      /\ T[q] = NewLine /\ (q = e + 1 \/ (q = e + 2 /\ T[e + 1] = Comma))
  BY <1>2, <1>3 DEF Line
<1>6. o \in 0 .. Len(input) /\ input \in Seq(Signs)
  <2>1. input \in Seq(Signs) /\ Len(input) \in Nat
    BY DEF Arriving
  <2> QED BY <1>2, <2>1
<1>7. PICK read : /\ read = ContainerAt(o + 1) /\ read # Bad
                  /\ stack' = <<Frame(read.val, Key)>> \o stack /\ pos' = read.end
  BY <1>2 DEF OpenContainer
<1>8. w.type \in Containers
  <2>1. ASSUME w.type \in PlainTypes  PROVE ContainerAt(o + 1) = Bad
    <3>1. Sees(o, ValueText[w])
      BY <1>3, <1>5, SeesText
    <3>2. At(e + 1) \in Follow
      BY <1>5, ValueEnds
    <3>3. e = o + Len(ValueText[w])
      BY <1>3, <1>5
    <3> QED BY <1>4, <1>6, <2>1, <3>1, <3>2, <3>3, PlainValuesReadBack
  <2> QED BY <1>4, <1>7, <2>1, TextAssumption
<1>9. Enters(w, o) /\ read = Read((o + Gate(w)) + 1, Shell(Look(w), w.name, <<>>))
  <2>1. ContainerAt(o + 1) = IF Enters(w, o) THEN Read((o + Gate(w)) + 1, Shell(Look(w), w.name, <<>>)) ELSE Bad
    BY <1>3, <1>4, <1>5, <1>6, <1>8, ContainerRead
  <2> QED BY <1>7, <2>1
<1>10. o + Gate(w) <= Len(input) /\ w.name \in Identifiers \cup {NULL} /\ KeywordsIn(o, o + Gate(w))
  BY <1>9 DEF Enters
<1>11. read.end = (o + Gate(w)) + 1 /\ read.val = Shell(Look(w), w.name, <<>>)
  BY <1>9 DEF Read
<1>12. PICK f : f = Frame(Shell(Look(w), w.name, <<>>), KeyOf(v, i))
  OBVIOUS
<1>13. stack' = Pushed(stack, f) /\ pos' = (o + Gate(w)) + 1
  BY <1>1, <1>7, <1>11, <1>12 DEF Pushed
<1> QED BY <1>1, <1>2, <1>3, <1>8, <1>10, <1>12, <1>13, Opened

\* An object is opened without "=".
LEMMA OpenShorthandTracks ==
  ASSUME NEW T \in Seq(Signs), T = Text(doc), Arriving(T), ReaderInv, status = "body",
         NEW src, NEW base, NEW v, NEW b, NEW m, NEW i, Standing(src, base, v, b, m, i), OpenShorthand
  PROVE  Ready(stack', pos')
<1>1. /\ i \in 1 .. Len(Members(v)) /\ m < Len(input) /\ Key = KeyOf(v, i)
      /\ v.type = "array" \/ KeyOf(v, i) \in Identifiers
      /\ \E o, e, q \in Nat :
           /\ Line(T, v, i, m, o, e, q)
           /\ OpenShorthand => Shorthand(Child(v, i)) /\ o = m + 1 /\ m + 2 <= Len(input)
  BY MemberComes
<1>2. PICK o \in Nat, e \in Nat, q \in Nat :
        Line(T, v, i, m, o, e, q) /\ Shorthand(Child(v, i)) /\ o = m + 1 /\ m + 2 <= Len(input)
  BY <1>1
<1>3. PICK w : w = Child(v, i)
  OBVIOUS
<1>4. w \in Values /\ v \in Values /\ v.type \in Containers /\ m \in Nat
  BY <1>1, <1>3, StandingIs
<1>5. Stands(T, o, ValueText[w])
  BY <1>2, <1>3 DEF Line
<1>6. T[o + 1] = Brace /\ w.type \in Containers /\ w.type = "object" /\ w.name = NULL /\ Brim(w) = 2
  BY <1>2, <1>3, <1>4, <1>5, ShorthandBegins
<1>7. Gate(w) = 1 /\ Look(w) = "object"
  BY <1>6 DEF Gate, Look
<1>8. o + 1 <= Len(input) /\ o + 1 \in Nat \ {0} /\ m < Len(input) /\ o + 1 = m + 2
  <2>1. o + 1 = m + 2
    BY <1>2, <1>4
  <2> QED BY <1>1, <1>2, <2>1
<1>9. KeywordsIn(o, o + 1)
  <2>1. At(o + 1) = Brace
    BY <1>6, <1>8, SignSeen
  <2>2. At(o + 1) \notin Keywords
    BY <2>1, SignsApart DEF Brace
  <2>3. \A p \in o + 1 .. o + 1 : p = o + 1
    OBVIOUS
  <2> QED BY <2>2, <2>3, NoKeywordsIn
<1>10. Here = m + 1
  <2>1. Next /\ status' = "body"
    BY DEF Next, Parse, OpenShorthand
  <2> QED BY <2>1, GoesOn
<1>11. stack' = <<Frame(Blank("object"), Key)>> \o stack /\ pos' = Here + 2
  BY DEF OpenShorthand
<1>12. PICK f : f = Frame(Shell(Look(w), w.name, <<>>), KeyOf(v, i))
  OBVIOUS
<1>13. f = Frame(Blank("object"), Key)
  <2>1. Blank("object") = Shell("object", NULL, <<>>)
    BY DEF Blank, Shell
  <2> QED BY <1>1, <1>6, <1>7, <1>12, <2>1
<1>14. stack' = Pushed(stack, f) /\ pos' = (o + Gate(w)) + 1
  <2>1. (m + 1) + 2 = (o + 1) + 1
    BY <1>2, <1>4
  <2> QED BY <1>7, <1>10, <1>11, <1>13, <2>1 DEF Pushed
<1>15. o + Gate(w) <= Len(input) /\ KeywordsIn(o, o + Gate(w)) /\ w.name \in Identifiers \cup {NULL}
  BY <1>6, <1>7, <1>8, <1>9
<1> QED BY <1>1, <1>2, <1>3, <1>6, <1>12, <1>14, <1>15, Opened

\* Where a container is closed, all its members were read.
LEMMA ContainerEnds ==
  ASSUME NEW T \in Seq(Signs), T = Text(doc), Arriving(T), ReaderInv, status = "body",
         NEW src, NEW base, NEW v, NEW b, NEW m, NEW i, Standing(src, base, v, b, m, i), CloseContainer
  PROVE  /\ Top.node = Kept[v] /\ Readable[v] /\ Top = stack[1] /\ m \in Nat /\ m + 1 <= Len(input) /\ Here = m + 1
         /\ m = b + Len(Content(v)) /\ KeywordsIn(0, m + 1) /\ Len(stack) > 1
<1>1. /\ v \in Values /\ v.type \in Containers /\ Top = stack[1]
      /\ Level(Top, v, b) /\ (Outermost(Top, v, b) \/ Inner(Top, v, b)) /\ (Len(stack) = 1 => Outermost(Top, v, b))
      /\ Len(stack) > 1 => Inner(Top, v, b)
      /\ m \in Nat /\ i = Count(Top) + 1 /\ KeywordsIn(0, m)
      /\ i \in 1 .. Len(Members(v)) \/ i = Len(Members(v)) + 1
      /\ i = Len(Members(v)) + 1 =>
           /\ m = b + Len(Content(v))
           /\ Inner(Top, v, b) => T[m + 1] = Closer(v) /\ m + 1 <= Len(T)
      /\ i \in 1 .. Len(Members(v)) =>
           /\ v.type = "array" => T[m + 1] \notin NoBeginning
           /\ \E o, e, q \in Nat : Line(T, v, i, m, o, e, q)
  BY StandingIs
<1>2. m < Len(input) /\ Here = m + 1
  <2>1. Next /\ status' = "body"
    BY DEF Next, Parse, CloseContainer
  <2> QED BY <2>1, GoesOn
<1>3. Len(stack) > 1 /\ Closes(Top)
  BY DEF CloseContainer
<1>4. i = Len(Members(v)) + 1
  <2> SUFFICES ASSUME i \in 1 .. Len(Members(v))  PROVE FALSE
    BY <1>1
  <2>1. PICK o \in Nat, e \in Nat, q \in Nat : Line(T, v, i, m, o, e, q)
    BY <1>1
  <2>2. v.type = "array" => T[m + 1] \notin NoBeginning
    BY <1>1
  <2>3. ~ Closes(Top)
    BY <1>1, <1>2, <2>1, <2>2, MemberAhead
  <2> QED BY <1>3, <2>3
<1>5. Inner(Top, v, b) /\ m = b + Len(Content(v)) /\ T[m + 1] = Closer(v)
  BY <1>1, <1>3, <1>4
<1>6. Count(Top) = Len(Members(v))
  <2>1. Count(Top) \in Int /\ Len(Members(v)) \in Int
    BY <1>1, MembersBelow DEF Level
  <2>2. PICK x, y : x = Count(Top) /\ y = Len(Members(v))
    OBVIOUS
  <2>3. x + 1 = y + 1 /\ x \in Int /\ y \in Int
    BY <1>1, <1>4, <2>1, <2>2
  <2>4. x = y
    BY <2>3
  <2> QED BY <2>2, <2>4
<1>7. Top.node = Kept[v] /\ Readable[v]
  BY <1>1, <1>5, <1>6, Complete
<1>8. m + 1 <= Len(input) /\ m + 1 \in Nat \ {0}
  <2>1. Len(input) \in Nat
    BY DEF Arriving
  <2> QED BY <1>1, <1>2, <2>1
<1>9. KeywordsIn(0, m + 1)
  <2>1. At(m + 1) = Closer(v)
    BY <1>5, <1>8, SignSeen
  <2>2. At(m + 1) \notin Keywords
    BY <2>1, SignsApart DEF Closer
  <2>3. \A p \in m + 1 .. m + 1 : p = m + 1
    BY <1>8
  <2>4. KeywordsIn(m, m + 1)
    BY <2>2, <2>3, NoKeywordsIn
  <2> QED BY <1>1, <1>8, <2>4, KeywordsJoin
<1> QED BY <1>1, <1>2, <1>3, <1>5, <1>7, <1>8, <1>9

\* A container is closed.
LEMMA CloseContainerTracks ==
  ASSUME NEW T \in Seq(Signs), T = Text(doc), Arriving(T), ReaderInv, status = "body",
         NEW src, NEW base, NEW v, NEW b, NEW m, NEW i, Standing(src, base, v, b, m, i), CloseContainer
  PROVE  Ready(stack', pos')
<1>1. /\ Top.node = Kept[v] /\ Readable[v] /\ Top = stack[1] /\ m \in Nat /\ m + 1 <= Len(input) /\ Here = m + 1
      /\ m = b + Len(Content(v)) /\ KeywordsIn(0, m + 1) /\ Len(stack) > 1
  BY ContainerEnds
<1>2. PICK f, w, c : f = stack[2] /\ w = src[2] /\ c = base[2]
  OBVIOUS
<1>3. Nest(stack, src, base) /\ v = src[1] /\ b = base[1]
  BY DEF Standing
<1>4. Level(f, w, c) /\ Link(Top.key, v, b, f, w, c) /\ (Outermost(f, w, c) \/ Inner(f, w, c))
  BY <1>1, <1>2, <1>3, TopKind
<1>5. PICK j : j = Count(f) + 1
  OBVIOUS
<1>6. /\ j \in 1 .. Len(Members(w)) /\ v = Child(w, j) /\ Top.key = KeyOf(w, j)
      /\ w.type = "array" \/ KeyOf(w, j) \in Identifiers
      /\ (b + Len(Content(v))) + 1 = ((c + Place(w)[j]) + Lead(w, j)) + Len(ValueText[v])
  BY <1>4, <1>5 DEF Link
<1>7. FitMember(w, j)
  BY <1>1, <1>6 DEF FitMember
<1>8. PICK mm, e : mm = Mark(f, w, c) /\ e = m + 1
  OBVIOUS
<1>9. e \in Nat /\ e <= Len(input) /\ KeywordsIn(0, e) /\ e = (mm + Lead(w, j)) + Len(ValueText[Child(w, j)])
  <2>1. mm = c + Place(w)[j]
    BY <1>5, <1>8 DEF Mark
  <2> QED BY <1>1, <1>6, <1>8, <2>1
<1>10. PICK g : g = Filled(f, KeyOf(w, j), Kept[Child(w, j)])
  OBVIOUS
<1>11. PICK r : r = Mark(g, w, c)
  OBVIOUS
<1>12. Leads(After(f, e + 1), Cap(r) + 1) /\ KeywordsIn(0, r)
  BY <1>4, <1>5, <1>6, <1>7, <1>8, <1>9, <1>10, <1>11, MemberDone
<1>13. Level(g, w, c) /\ g.key = f.key /\ g.node.type = f.node.type /\ g.node.name = f.node.name
  BY <1>4, <1>5, <1>6, <1>7, <1>10, Grown
<1>14. /\ stack' = <<Filled(stack[2], Top.key, Top.node)>> \o SubSeq(stack, 3, Len(stack))
       /\ pos' = After(stack[2], Here + 1)
  BY DEF CloseContainer
<1>15. stack' = Merged(stack, g) /\ pos' = After(f, e + 1)
  BY <1>1, <1>2, <1>6, <1>8, <1>10, <1>14 DEF Merged
<1>16. \E src2, base2 : Nest(stack', src2, base2) /\ src2[1] = w /\ base2[1] = c /\ stack'[1] = g
  <2>1. PICK s, s2 : s = stack /\ s2 = stack'
    OBVIOUS
  <2>2. /\ Nest(s, src, base) /\ Len(s) > 1 /\ Level(g, src[2], base[2]) /\ g.key = s[2].key
        /\ g.node.type = s[2].node.type /\ g.node.name = s[2].node.name /\ s2 = Merged(s, g)
    BY <1>1, <1>2, <1>3, <1>13, <1>15, <2>1
  <2>3. \E src2, base2 : Nest(s2, src2, base2) /\ src2[1] = src[2] /\ base2[1] = base[2] /\ s2[1] = g
    BY <2>2, NestClosed
  <2> QED BY <1>2, <2>1, <2>3
<1>17. PICK src2, base2 : Nest(stack', src2, base2) /\ src2[1] = w /\ base2[1] = c /\ stack'[1] = g
  BY <1>16
<1>18. Mark(stack'[1], src2[1], base2[1]) = r
  BY <1>11, <1>17
<1> QED BY <1>12, <1>15, <1>17, <1>18 DEF Ready

-----------------------------------------------------------------------------
(* Where reading ends. *)

\* What was returned is the document, or a beginning of it, or such a one with
\* a number behind it that was cut.
Returned(r) ==
  /\ Arrived => r = KeptDocument(doc) /\ Fit(doc) /\ KeywordsIn(0, Len(input))
  /\ \/ \E d \in 0 .. Len(Members(doc)) : r.members = So(doc, d)
     \/ Clipped(r.members) /\ ~ Arrived

\* What has arrived when all has.
LEMMA AllArrived ==
  ASSUME NEW T \in Seq(Signs), T = Text(doc), Arrived
  PROVE  Len(input) = Len(T) /\ Len(T) \in Nat
BY DEF Arrived

\* Between two members, the root object is returned as far as it was read.
LEMMA ReadyReturns ==
  ASSUME NEW T \in Seq(Signs), T = Text(doc), Arriving(T), ReaderInv, status = "body",
         NEW src, NEW base, NEW v, NEW b, NEW m, NEW i, Standing(src, base, v, b, m, i), ReturnDocument
  PROVE  Returned(result')
<1>1. RootEnds /\ Len(stack) = 1 /\ result' = Top.node
  BY DEF ReturnDocument, RootEnds
<1>2. /\ v \in Values /\ Level(Top, v, b) /\ Outermost(Top, v, b) /\ (Outermost(Top, v, b) \/ Inner(Top, v, b))
      /\ (Len(stack) = 1 => Outermost(Top, v, b)) /\ m \in Nat /\ i = Count(Top) + 1 /\ KeywordsIn(0, m) /\ Here = Cap(m) + 1
      /\ i \in 1 .. Len(Members(v)) \/ i = Len(Members(v)) + 1
      /\ i = Len(Members(v)) + 1 => m = Len(T)
      /\ i \in 1 .. Len(Members(v)) =>
           /\ m < Len(T)
           /\ v.type = "array" => T[m + 1] \notin NoBeginning
           /\ \E o, e, q \in Nat : Line(T, v, i, m, o, e, q)
  <2>1. Len(stack) = 1 => Outermost(Top, v, b)
    BY StandingIs
  <2> QED BY <1>1, <2>1, StandingIs
<1>3. v = doc
  BY <1>2 DEF Outermost
<1>4. PICK d, t, name : d = Count(Top) /\ t = Top.node.type /\ name = Top.node.name
  OBVIOUS
<1>5. d \in 0 .. Len(Members(v)) /\ Top.node = Shell(t, name, So(v, d))
  BY <1>2, <1>4 DEF Level
<1>6. Top.node.members = So(doc, d)
  BY <1>3, <1>5 DEF Shell
<1>7. ASSUME Arrived
      PROVE  Top.node = KeptDocument(doc) /\ Fit(doc) /\ KeywordsIn(0, Len(input))
  <2>1. Len(input) = Len(T) /\ Len(T) \in Nat
    BY <1>7, AllArrived
  <2>2. i = Len(Members(v)) + 1
    <3> SUFFICES ASSUME i \in 1 .. Len(Members(v))  PROVE FALSE
      BY <1>2
    <3>1. m < Len(input) /\ (v.type = "array" => T[m + 1] \notin NoBeginning)
      BY <1>2, <2>1
    <3>2. PICK o \in Nat, e \in Nat, q \in Nat : Line(T, v, i, m, o, e, q)
      BY <1>2
    <3>3. Here = m + 1
      <4>1. Cap(m) = m
        BY <1>2, <2>1, <3>1 DEF Cap
      <4> QED BY <1>2, <4>1
    <3>4. ~ RootEnds
      BY <1>2, <3>1, <3>2, <3>3, MemberAhead
    <3> QED BY <1>1, <3>4
  <2>3. m = Len(input)
    BY <1>2, <2>1, <2>2
  <2>4. d = Len(Members(v))
    <3>1. PICK n : n = Len(Members(v))
      OBVIOUS
    <3>2. n \in Nat /\ d \in 0 .. n /\ d + 1 = n + 1
      <4>1. Len(Members(v)) \in Nat
        BY <1>2, MembersBelow DEF Level
      <4> QED BY <1>2, <1>4, <1>5, <2>2, <3>1, <4>1
    <3>3. d = n
      BY <3>2
    <3> QED BY <3>1, <3>3
  <2>5. Fit(v) /\ Top.node = KeptDocument(doc)
    BY <1>2, <1>4, <2>4, Complete
  <2> QED BY <1>2, <1>3, <2>3, <2>5
<1>8. d \in 0 .. Len(Members(doc))
  BY <1>3, <1>5
<1> QED BY <1>1, <1>6, <1>7, <1>8 DEF Returned

\* Behind a number that was cut, it is returned with that number.
LEMMA CutReturns ==
  ASSUME input \in Seq(Signs), status = "body", pos \in Nat, pos <= Len(input) + 1,
         Top = stack[1], Cut(stack, pos), ReturnDocument
  PROVE  Returned(result')
<1>1. ~ Arrived /\ Clipped(stack[1].node.members) /\ result' = stack[1].node
  BY DEF Cut, ReturnDocument, RootEnds
<1> QED BY <1>1 DEF Returned

\* The parser goes on from where it is if that is no line's end.
LEMMA StaysHere ==
  ASSUME ReaderInv, At(pos) \notin Breaks
  PROVE  Here = pos
<1>1. input \in Seq(Signs) /\ pos \in 1 .. Len(input) + 1
  BY DEF ReaderInv
<1>2. Len(input) \in Nat
  BY <1>1
<1>3. pos \in Nat /\ pos \in pos .. Len(input) + 1 /\ \A k : k \notin pos .. pos - 1
  BY <1>1, <1>2
<1>4. BlanksEnd(pos) = pos
  BY <1>1, <1>3, BlanksAre
<1> QED BY <1>4 DEF Here

\* When all has arrived and can be read back, a member is read.
LEMMA MemberReads ==
  ASSUME NEW T \in Seq(Signs), Arriving(T), Len(input) = Len(T), KeywordsIn(0, Len(input)),
         NEW w \in Values, Readable[w], NEW o \in Nat, Stands(T, o, ValueText[w]),
         NEW e \in Nat, e = o + Len(ValueText[w]), e <= Len(input), At(e + 1) \in Follow
  PROVE  PlainAt(o + 1) # Bad \/ ContainerAt(o + 1) # Bad
<1>1. PICK n, t : n = Len(input) /\ t = ValueText[w]
  OBVIOUS
<1>2. n \in Nat /\ input \in Seq(Signs) /\ t \in Seq(Signs) /\ Len(t) \in Nat \ {0}
  BY <1>1, FirstSign DEF Arriving
<1>3. o \in 0 .. n /\ e = o + Len(t) /\ e <= n /\ o <= e
  BY <1>1, <1>2
<1>4. CASE w.type \in PlainTypes
  <2>1. Sees(o, ValueText[w])
    BY <1>1, <1>2, SeesText
  <2>2. ReadsPlain(PlainAt(o + 1), w, o, e)
    BY <1>1, <1>2, <1>3, <1>4, <2>1, PlainValuesReadBack
  <2>3. KeywordsIn(o, e)
    BY <1>1, <1>2, <1>3, KeywordsPart
  <2>4. Arrives(w, o, e)
    BY <1>1, <1>3, <2>3 DEF Arrives
  <2>5. ~ (e > Len(input))
    BY <1>1, <1>2, <1>3
  <2>6. PlainAt(o + 1) = Read(e + 1, Kept[w])
    BY <2>2, <2>4, <2>5 DEF ReadsPlain
  <2> QED BY <2>6, ReadNotBad
<1>5. CASE w.type \in Containers
  <2>1. /\ Brim(w) \in {1, 2, 5} /\ Len(Content(w)) \in Nat /\ e = ((o + Brim(w)) + Len(Content(w))) + 1
    BY <1>5, ShellStands
  <2>2. PICK c, l, g : c = Brim(w) /\ l = Len(Content(w)) /\ g = o + Gate(w)
    OBVIOUS
  <2>3. g \in Nat /\ g <= n /\ o <= g
    <3>1. g = IF c = 5 THEN o + 4 ELSE o + 1
      BY <2>2 DEF Gate
    <3>2. c \in {1, 2, 5} /\ l \in Nat /\ e = ((o + c) + l) + 1
      BY <2>1, <2>2
    <3> QED BY <1>2, <1>3, <3>1, <3>2
  <2>4. KeywordsIn(o, g)
    <3>1. KeywordsIn(0, n) /\ 0 <= o /\ g <= n /\ g \in Nat /\ n \in Nat /\ 0 \in Nat
      BY <1>1, <1>2, <2>3
    <3> QED BY <3>1, KeywordsPart
  <2>5. w.name \in Identifiers \cup {NULL}
    BY <1>5, ContainersKept
  <2>6. Enters(w, o)
    BY <1>1, <2>2, <2>3, <2>4, <2>5 DEF Enters
  <2>7. ContainerAt(o + 1) = Read((o + Gate(w)) + 1, Shell(Look(w), w.name, <<>>))
    BY <1>1, <1>3, <1>5, <2>6, ContainerRead
  <2> QED BY <2>7, ReadNotBad
<1> QED BY <1>4, <1>5, TextAssumption

\* So reading fails only if something has not arrived or cannot be read back.
LEMMA ReadyFails ==
  ASSUME NEW T \in Seq(Signs), T = Text(doc), Arriving(T), ReaderInv, status = "body",
         NEW src, NEW base, NEW v, NEW b, NEW m, NEW i, Standing(src, base, v, b, m, i), ReturnNull
  PROVE  ~ (Arrived /\ Fit(doc) /\ KeywordsIn(0, Len(input)))
<1> SUFFICES ASSUME Arrived, Fit(doc), KeywordsIn(0, Len(input))  PROVE FALSE
  OBVIOUS
<1>1. /\ ~ RootEnds /\ ~ IsShorthand /\ ~ (Len(stack) > 1 /\ Closes(Top))
      /\ \A p \in ValueStart : PlainAt(p) = Bad /\ ContainerAt(p) = Bad
  BY DEF ReturnNull, ParseFails, ValueFails
<1>2. Len(input) = Len(T) /\ Len(T) \in Nat
  BY AllArrived
<1>3. /\ v \in Values /\ v.type \in Containers /\ Len(stack) \in Nat \ {0}
      /\ Level(Top, v, b) /\ (Outermost(Top, v, b) \/ Inner(Top, v, b)) /\ (Len(stack) = 1 => Outermost(Top, v, b))
      /\ Len(stack) > 1 => Inner(Top, v, b)
      /\ m \in Nat /\ m <= Len(T) /\ Here = Cap(m) + 1
      /\ i \in 1 .. Len(Members(v)) \/ i = Len(Members(v)) + 1
      /\ i = Len(Members(v)) + 1 =>
           /\ Outermost(Top, v, b) => m = Len(T)
           /\ Inner(Top, v, b) => T[m + 1] = Closer(v) /\ m + 1 <= Len(T)
      /\ i \in 1 .. Len(Members(v)) =>
           /\ Child(v, i) \in Values /\ m < Len(T)
           /\ v.type = "array" => T[m + 1] \notin NoBeginning
           /\ \E o, e, q \in Nat : Line(T, v, i, m, o, e, q)
  BY StandingIs
<1>4. Here = m + 1
  <2>1. Cap(m) = m
    BY <1>2, <1>3 DEF Cap
  <2> QED BY <1>3, <2>1
<1>5. CASE i = Len(Members(v)) + 1
  <2>1. CASE Len(stack) = 1
    <3>1. m = Len(T)
      BY <1>3, <1>5, <2>1
    <3>2. m + 1 \in Nat \ {0} /\ ~ (m + 1 <= Len(input))
      BY <1>2, <3>1
    <3>3. At(m + 1) = EOF
      BY <3>2, SignSeen
    <3> QED BY <1>1, <1>4, <2>1, <3>3 DEF RootEnds
  <2>2. CASE Len(stack) > 1
    <3>1. Inner(Top, v, b) /\ T[m + 1] = Closer(v) /\ m + 1 <= Len(T)
      BY <1>3, <1>5, <2>2
    <3>2. m < Len(input) /\ Len(stack) # 1
      <4>1. m < Len(input)
        BY <1>2, <1>3, <3>1
      <4>2. \A n \in Nat \ {0} : n > 1 => n # 1
        OBVIOUS
      <4> QED BY <1>3, <2>2, <4>1, <4>2
    <3>3. Closes(Top)
      BY <1>3, <1>4, <3>1, <3>2, EndAhead
    <3> QED BY <1>1, <2>2, <3>3
  <2>3. \A n \in Nat \ {0} : n = 1 \/ n > 1
    OBVIOUS
  <2> QED BY <1>3, <2>1, <2>2, <2>3
<1>6. CASE i \in 1 .. Len(Members(v))
  <2>1. PICK o \in Nat, e \in Nat, q \in Nat : Line(T, v, i, m, o, e, q)
    BY <1>3, <1>6
  <2>2. PICK w : w = Child(v, i)
    OBVIOUS
  <2>3. m < Len(input) /\ w \in Values /\ (v.type = "array" => T[m + 1] \notin NoBeginning)
    BY <1>2, <1>3, <1>6, <2>2
  <2>4. /\ e = o + Len(ValueText[w]) /\ Stands(T, o, ValueText[w]) /\ o < e /\ e < q /\ q <= Len(T)
        /\ T[q] = NewLine /\ (q = e + 1 \/ (q = e + 2 /\ T[e + 1] = Comma))
    BY <2>1, <2>2 DEF Line
  <2>5. FitMember(v, i)
    BY <1>3, <1>6, NotFit
  <2>6. (v.type = "array" \/ KeyOf(v, i) \in Identifiers) /\ Readable[w]
    BY <2>2, <2>5 DEF FitMember
  <2>7. e <= Len(input) /\ o + 1 <= Len(input)
    BY <1>2, <2>4
  <2>8. (v.type = "array" \/ KeyOf(v, i) \in Identifiers) /\ o + 1 <= Len(input) => ValueStart = {o + 1} \/ IsShorthand
    BY <1>3, <1>4, <1>6, <2>1, <2>3, MemberAhead
  <2>9. PlainAt(o + 1) = Bad /\ ContainerAt(o + 1) = Bad
    BY <1>1, <2>6, <2>7, <2>8
  <2>10. At(e + 1) \in Follow
    BY <2>4, ValueEnds
  <2>11. PlainAt(o + 1) # Bad \/ ContainerAt(o + 1) # Bad
    BY <1>2, <2>3, <2>4, <2>6, <2>7, <2>10, MemberReads
  <2> QED BY <2>9, <2>11
<1> QED BY <1>3, <1>5, <1>6

\* What the parser does next.
LEMMA BodyTracks ==
  ASSUME NEW T \in Seq(Signs), T = Text(doc), Arriving(T), ReaderInv, status = "body", Next,
         Ready(stack, pos) \/ Cut(stack, pos) \/ Stuck(stack, pos)
  PROVE  /\ status' = "body" => Ready(stack', pos') \/ Cut(stack', pos') \/ Stuck(stack', pos')
         /\ status' = "doc" => Returned(result')
         /\ status' = "null" => ~ (Arrived /\ Fit(doc) /\ KeywordsIn(0, Len(input)))
<1>1. ReadPlain \/ OpenContainer \/ OpenShorthand \/ CloseContainer \/ ReturnDocument \/ ReturnNull
  BY DEF Next, Write, Parse, WriteChar, Open, ReadHeader
<1>2. /\ ReadPlain \/ OpenContainer \/ OpenShorthand \/ CloseContainer => status' = "body"
      /\ ReturnDocument => status' = "doc"
      /\ ReturnNull => status' = "null"
  BY DEF ReadPlain, OpenContainer, OpenShorthand, CloseContainer, ReturnDocument, ReturnNull
<1>3. "body" # "doc" /\ "body" # "null" /\ "doc" # "null"
  OBVIOUS
<1>4. input \in Seq(Signs) /\ Top = stack[1] /\ pos \in Nat /\ pos <= Len(input) + 1
  <2>1. input \in Seq(Signs) /\ pos \in 1 .. Len(input) + 1
    BY DEF ReaderInv
  <2>2. Len(input) \in Nat
    BY <2>1
  <2>3. Top = stack[1]
    BY Seen
  <2> QED BY <2>1, <2>2, <2>3
<1>5. CASE Ready(stack, pos)
  <2>1. PICK src, base, v, b, m, i : Standing(src, base, v, b, m, i)
    BY <1>5, IsStanding
  <2>2. ReadPlain => Ready(stack', pos') \/ Cut(stack', pos') \/ Stuck(stack', pos')
    BY <2>1, ReadPlainTracks
  <2>3. OpenContainer => Ready(stack', pos')
    BY <2>1, OpenContainerTracks
  <2>4. OpenShorthand => Ready(stack', pos')
    BY <2>1, OpenShorthandTracks
  <2>5. CloseContainer => Ready(stack', pos')
    BY <2>1, CloseContainerTracks
  <2>6. ReturnDocument => Returned(result')
    BY <2>1, ReadyReturns
  <2>7. ReturnNull => ~ (Arrived /\ Fit(doc) /\ KeywordsIn(0, Len(input)))
    BY <2>1, ReadyFails
  <2> QED BY <1>1, <1>2, <1>3, <2>2, <2>3, <2>4, <2>5, <2>6, <2>7
<1>6. CASE Cut(stack, pos)
  <2>1. At(pos) = EOF /\ ~ Arrived
    BY <1>6 DEF Cut
  <2>2. Here = pos
    BY <2>1, StaysHere DEF EOF, Breaks, NewLine
  <2>3. Halts
    BY <2>1, <2>2 DEF Halts
  <2>4. ReturnDocument \/ ReturnNull
    BY <1>4, <2>3, Halted
  <2>5. ReturnDocument => Returned(result')
    BY <1>4, <1>6, CutReturns
  <2> QED BY <1>2, <1>3, <2>1, <2>4, <2>5
<1>7. CASE Stuck(stack, pos)
  <2>1. At(pos) = "e" /\ At(pos + 1) \in {"-", "+", EOF} /\ ~ Fit(doc)
    BY <1>7 DEF Stuck
  <2>2. Here = pos
    BY <2>1, StaysHere DEF Breaks, NewLine
  <2>3. Halts
    BY <2>1, <2>2 DEF Halts
  <2>4. (ReturnDocument => At(Here) = EOF) /\ (ReturnDocument \/ ReturnNull)
    BY <1>4, <2>3, Halted
  <2>5. ~ ReturnDocument
    BY <2>1, <2>2, <2>4 DEF EOF
  <2> QED BY <1>2, <1>3, <2>1, <2>4, <2>5
<1> QED BY <1>5, <1>6, <1>7

\* What comes is the text, or a beginning of it.
LEMMA OpenArrives ==
  ASSUME NEW T \in Seq(Signs), T = Text(doc), WriterInv, Open
  PROVE  input' \in Seq(Signs) /\ Begins(input', T)
<1>1. /\ out \in Seq(Signs) /\ todo \in Seq(Signs) /\ werror \in {"ok", "io"}
      /\ werror = "ok" => out \o todo = T
      /\ werror = "io" => Begins(out, T)
  BY DEF WriterInv
<1>2. Begins(out, T)
  BY <1>1, BeginsConcat
<1>3. /\ chunk' \in Nat \ {0}
      /\ input' = out \/ \E calls \in 0 .. Len(out) \div chunk' : input' = SubSeq(out, 1, calls * chunk')
  BY TextAssumption DEF Open
<1>4. Len(out) \in Nat
  BY <1>1
<1>5. ASSUME NEW calls \in 0 .. Len(out) \div chunk', input' = SubSeq(out, 1, calls * chunk')
      PROVE  input' \in Seq(Signs) /\ Begins(input', T)
  <2>1. PICK c, n : c = chunk' /\ n = Len(out)
    OBVIOUS
  <2>2. c \in Nat \ {0} /\ n \in Nat /\ calls \in 0 .. n \div c
    BY <1>3, <1>4, <1>5, <2>1
  <2>3. calls * c \in 0 .. n
    <3>1. calls \in Nat /\ n \div c \in Nat /\ calls <= n \div c /\ (n \div c) * c <= n
      BY <2>2
    <3>2. calls * c <= (n \div c) * c /\ calls * c \in Nat
      BY <2>2, <3>1
    <3> QED BY <2>2, <3>1, <3>2
  <2>4. PICK k : k = calls * c
    OBVIOUS
  <2>5. k \in 0 .. Len(out)
    BY <2>1, <2>3, <2>4
  <2>6. SubSeq(out, 1, k) \in Seq(Signs) /\ Begins(SubSeq(out, 1, k), T)
    BY <1>1, <1>2, <2>5, BeginsPart
  <2> QED BY <1>5, <2>1, <2>4, <2>6
<1> QED BY <1>1, <1>2, <1>3, <1>5

\* The signs of the header, as far as they have arrived.
LEMMA HeaderSeen ==
  ASSUME NEW T \in Seq(Signs), T = Text(doc), doc \in Documents, Arriving(T)
  PROVE  /\ Len(input) \in Nat
         /\ At(1) = IF 1 <= Len(input) THEN "kdf" ELSE EOF
         /\ At(2) = IF 2 <= Len(input) THEN "~" ELSE EOF
         /\ At(3) = IF 3 <= Len(input) THEN "1" ELSE EOF
         /\ At(4) \in {NewLine, EOF}
<1>1. T[1] = "kdf" /\ T[2] = "~" /\ T[3] = "1" /\ T[4] = NewLine
  BY TextStands
<1>2. 1 \in Nat \ {0} /\ 2 \in Nat \ {0} /\ 3 \in Nat \ {0} /\ 4 \in Nat \ {0}
  OBVIOUS
<1>3. Len(input) \in Nat
  BY DEF Arriving
<1>4. At(1) = IF 1 <= Len(input) THEN "kdf" ELSE EOF
  BY <1>1, <1>2, SignSeen
<1>5. At(2) = IF 2 <= Len(input) THEN "~" ELSE EOF
  BY <1>1, <1>2, SignSeen
<1>6. At(3) = IF 3 <= Len(input) THEN "1" ELSE EOF
  BY <1>1, <1>2, SignSeen
<1>7. At(4) \in {NewLine, EOF}
  BY <1>1, <1>2, SignSeen
<1> QED BY <1>3, <1>4, <1>5, <1>6, <1>7

\* Digits: "1" is one.
LEMMA OneIsDigit == IsDigit("1") /\ ~ IsDigit(NewLine) /\ ~ IsDigit(EOF)
<1>1. IsDigit("1")
  <2>1. Digits[2] = "1" /\ DOMAIN Digits = 1 .. 10 /\ 2 \in 1 .. 10
    BY DEF Digits
  <2> QED BY <2>1 DEF IsDigit, Range
<1>2. ~ IsDigit(NewLine) /\ ~ IsDigit(EOF)
  BY DigitsApart DEF IsDigit
<1> QED BY <1>1, <1>2

\* The parser skips the line and, if there is one, the empty line behind it.
LEMMA HeaderSkipped ==
  ASSUME NEW T \in Seq(Signs), T = Text(doc), doc \in Documents, Arriving(T), HeaderFound
  PROVE  3 <= Len(input) /\ LineEnd(DigitsEnd(input, 3)) = 4 /\ SameBuffer(1, 2)
<1>1. KeywordAt(1, "kdf") /\ IsDigit(At(3))
  BY DEF HeaderFound
<1>2. PICK n : n = Len(input)
  OBVIOUS
<1>3. n \in Nat /\ 3 <= n
  BY <1>1, <1>2, HeaderSeen, OneIsDigit
<1>4. At(3) = "1" /\ At(4) \in {NewLine, EOF} /\ ~ IsDigit(At(4))
  BY <1>2, <1>3, HeaderSeen, OneIsDigit
<1>5. input[3] = At(3) /\ CharAt(input, 4) = At(4) /\ CharAt(input, 3) = At(3)
  <2>1. 3 \in DOMAIN input
    <3>1. input \in Seq(Signs) /\ 3 \in 1 .. n
      BY <1>3 DEF Arriving
    <3> QED BY <1>2, <3>1
  <2> QED BY <2>1 DEF At, CharAt
<1>6. DigitsEnd(input, 3) = 4
  <2> DEFINE P(j) == ~ IsDigit(CharAt(input, j)) /\ \A k \in 3 .. j - 1 : IsDigit(input[k])
  <2>1. 4 \in 3 .. n + 1 /\ P(4)
    <3>1. \A k \in 3 .. 4 - 1 : k = 3
      OBVIOUS
    <3> QED BY <1>3, <1>4, <1>5, <3>1, OneIsDigit
  <2>2. \A j \in 3 .. n + 1 : P(j) => j = 4
    <3> SUFFICES ASSUME NEW j \in 3 .. n + 1, P(j)  PROVE j = 4
      OBVIOUS
    <3>1. j # 3
      BY <1>4, <1>5, OneIsDigit
    <3>2. ~ (j > 4)
      <4>1. j > 4 => 4 \in 3 .. j - 1
        BY <1>3
      <4>2. ~ IsDigit(input[4]) \/ ~ (j > 4)
        <5>1. ASSUME j > 4  PROVE 4 \in DOMAIN input
          <6>1. 4 \in 1 .. n /\ input \in Seq(Signs)
            BY <1>3, <5>1 DEF Arriving
          <6> QED BY <1>2, <6>1
        <5> QED BY <1>4, <1>5, <5>1 DEF CharAt
      <4> QED BY <4>1, <4>2
    <3> QED BY <1>3, <3>1, <3>2
  <2>3. DigitsEnd(input, 3) = CHOOSE j \in 3 .. n + 1 : P(j)
    BY <1>2 DEF DigitsEnd
  <2> HIDE DEF P
  <2> QED BY <2>1, <2>2, <2>3
<1>7. LineEnd(4) = 4
  <2> DEFINE P(q) == At(q) \in {NewLine, EOF} /\ \A k \in 4 .. q - 1 : At(k) # NewLine
  <2>1. 4 \in 4 .. n + 1 /\ P(4)
    <3>1. \A k : k \notin 4 .. 4 - 1
      OBVIOUS
    <3> QED BY <1>3, <1>4, <3>1
  <2>2. \A q \in 4 .. n + 1 : P(q) => q = 4
    <3> SUFFICES ASSUME NEW q \in 4 .. n + 1, P(q), q # 4  PROVE FALSE
      OBVIOUS
    <3>1. 4 \in 4 .. q - 1 /\ 4 <= n
      BY <1>3
    <3>2. At(4) # NewLine
      BY <3>1
    <3>3. At(4) # EOF
      BY <1>2, <3>1, SignSeen
    <3> QED BY <1>4, <3>2, <3>3
  <2>3. LineEnd(4) = CHOOSE q \in 4 .. n + 1 : P(q)
    BY <1>2 DEF LineEnd
  <2> HIDE DEF P
  <2> QED BY <2>1, <2>2, <2>3
<1>8. SameBuffer(1, 2)
  <2>1. 1 + 1 = 2
    OBVIOUS
  <2> QED BY <1>1, <2>1 DEF KeywordAt
<1> QED BY <1>2, <1>3, <1>6, <1>7, <1>8

\* A stack of the root object alone.
LEMMA NestBegins ==
  ASSUME NEW f, NEW b \in Nat, doc \in Values, Level(f, doc, b), Outermost(f, doc, b)
  PROVE  \E src, base : Nest(<<f>>, src, base) /\ src[1] = doc /\ base[1] = b /\ <<f>>[1] = f
<1>1. PICK s, v : s = <<f>> /\ v = doc
  OBVIOUS
<1>2. s \in Seq({f}) /\ Len(s) = 1 /\ s[1] = f /\ s # <<>> /\ DOMAIN s = 1 .. 1
  BY <1>1
<1>3. s \in Seq(Range(s))
  <2>1. Range(s) = {f}
    BY <1>2 DEF Range
  <2> QED BY <1>2, <2>1
<1>4. PICK src, base : src = [k \in 1 .. 1 |-> v] /\ base = [k \in 1 .. 1 |-> b]
  OBVIOUS
<1>5. src[1] = v /\ base[1] = b /\ src \in [1 .. 1 -> Values] /\ base \in [1 .. 1 -> Nat]
  BY <1>1, <1>4
<1>6. (\A k \in 1 .. 1 : k = 1) /\ \A k : k \notin 1 .. 1 - 1
  OBVIOUS
<1>7. Nest(s, src, base)
  BY <1>1, <1>2, <1>3, <1>5, <1>6 DEF Nest
<1> QED BY <1>1, <1>2, <1>5, <1>7

\* Behind the header, the root object is read.
LEMMA HeaderTracks ==
  ASSUME NEW T \in Seq(Signs), T = Text(doc), doc \in Documents, Arriving(T), ReadHeader
  PROVE  Ready(stack', pos')
<1>1. /\ HeaderFound /\ pos' = BlanksEnd(LineEnd(DigitsEnd(input, 3)))
      /\ stack' = <<Frame(Blank("object"), NULL)>>
  BY DEF ReadHeader
<1>2. 3 <= Len(input) /\ pos' = BlanksEnd(4) /\ SameBuffer(1, 2) /\ Len(input) \in Nat /\ input \in Seq(Signs)
  BY <1>1, HeaderSkipped, HeaderSeen DEF Arriving
<1>3. PICK b : b = IF Members(doc) = <<>> THEN 4 ELSE 5
  OBVIOUS
<1>4. /\ doc \in Values /\ doc.type = "object" /\ doc.type \in Containers /\ Len(T) \in Nat
      /\ T[4] = NewLine /\ (b = 5 => T[5] = NewLine)
      /\ Stands(T, b, Content(doc)) /\ b + Len(Content(doc)) = Len(T)
  BY <1>3, TextStands
<1>5. b \in Nat /\ b \in {4, 5}
  BY <1>3
<1>6. PICK f, type, name : f = Frame(Blank("object"), NULL) /\ type = "object" /\ name = NULL
  OBVIOUS
<1>7. f = Frame(Shell(type, name, <<>>), name) /\ (type = "array" <=> doc.type = "array")
  BY <1>4, <1>6 DEF Blank, Shell
<1>8. /\ Level(f, doc, b) /\ Count(f) = 0 /\ f.node.type = type /\ f.node.name = name /\ Mark(f, doc, b) = b
  <2>1. PICK v : v = doc
    OBVIOUS
  <2>2. v \in Values /\ v.type \in Containers /\ Stands(Text(doc), b, Content(v)) /\ (Fit(doc) => Fit(v))
        /\ (type = "array" <=> v.type = "array")
    BY <1>4, <1>7, <2>1
  <2>3. Level(f, v, b) /\ Count(f) = 0 /\ f.node.type = type /\ f.node.name = name /\ Mark(f, v, b) = b
    BY <1>5, <1>7, <2>2, Fresh
  <2> QED BY <2>1, <2>3
<1>9. Outermost(f, doc, b)
  BY <1>4, <1>6, <1>8 DEF Outermost
<1>10. b < Len(T) => T[b + 1] \notin Breaks
  <2>1. PICK i, m : i = Count(f) + 1 /\ m = Mark(f, doc, b)
    OBVIOUS
  <2>2. m < Len(T) => T[m + 1] \notin Breaks
    BY <1>8, <1>9, <2>1, Ahead
  <2> QED BY <1>8, <2>1, <2>2
<1>11. \A k \in 4 .. b : T[k] = NewLine
  <2>1. \A k \in 4 .. b : k = 4 \/ (k = 5 /\ b = 5)
    BY <1>5
  <2> QED BY <1>4, <2>1
<1>12. Leads(4, Cap(b) + 1)
  <2>1. b <= Len(T)
    BY <1>4, <1>5 DEF Stands
  <2>2. b \in 0 .. Len(T) /\ 4 \in 1 .. Len(input) + 1 /\ 4 <= b + 1
    BY <1>2, <1>4, <1>5, <2>1
  <2> QED BY <1>10, <1>11, <2>2, LeadsOn
<1>13. PICK q : q = Cap(b) + 1
  OBVIOUS
<1>14. Leads(q, q) /\ pos' = q
  <2>1. BlanksEnd(4) = q
    BY <1>2, <1>12, <1>13, LeadsThere
  <2>2. q \in 4 .. Len(input) + 1 /\ At(q) \notin Breaks
    BY <1>12, <1>13 DEF Leads
  <2>3. q \in q .. Len(input) + 1 /\ \A k : k \notin q .. q - 1
    BY <1>2, <2>2
  <2> QED BY <1>2, <2>1, <2>2, <2>3 DEF Leads
<1>15. KeywordsIn(0, b)
  <2>1. \A p \in 0 + 1 .. b : p = 1 \/ p = 2 \/ p = 3 \/ p = 4 \/ p = 5
    BY <1>5
  <2>2. At(2) \notin Keywords /\ At(3) \notin Keywords /\ At(4) \notin Keywords
    BY HeaderSeen, SignsApart
  <2>3. b = 5 => At(5) \notin Keywords
    <3>1. 5 \in Nat \ {0}
      OBVIOUS
    <3>2. b = 5 => At(5) \in {NewLine, EOF}
      BY <1>4, <3>1, SignSeen
    <3> QED BY <3>2, SignsApart
  <2>4. 1 + 1 = 2
    OBVIOUS
  <2>5. \A p \in 0 + 1 .. b : p = 5 => b = 5
    BY <1>5
  <2> QED BY <1>2, <2>1, <2>2, <2>3, <2>4, <2>5 DEF KeywordsIn
<1>16. PICK src, base : Nest(<<f>>, src, base) /\ src[1] = doc /\ base[1] = b /\ <<f>>[1] = f
  BY <1>4, <1>5, <1>8, <1>9, NestBegins
<1>17. stack' = <<f>>
  BY <1>1, <1>6
<1>18. Mark(stack'[1], src[1], base[1]) = b
  BY <1>8, <1>16, <1>17
<1> QED BY <1>13, <1>14, <1>15, <1>16, <1>17, <1>18 DEF Ready

\* A header that has arrived is found.
LEMMA HeaderFails ==
  ASSUME NEW T \in Seq(Signs), T = Text(doc), doc \in Documents, Arriving(T), ~ HeaderFound
  PROVE  ~ (Arrived /\ Fit(doc) /\ KeywordsIn(0, Len(input)))
<1> SUFFICES ASSUME Arrived, KeywordsIn(0, Len(input))  PROVE FALSE
  OBVIOUS
<1>1. Len(input) = Len(T) /\ Len(T) \in Nat /\ Len(T) >= 4
  BY AllArrived, TextStands
<1>2. At(1) = "kdf" /\ At(2) = "~" /\ At(3) = "1"
  BY <1>1, HeaderSeen
<1>3. IsDigit(At(3))
  BY <1>2, OneIsDigit
<1>4. SameBuffer(1, 2)
  <2>1. 1 \in 0 + 1 .. Len(input) /\ 1 + 1 = 2
    BY <1>1
  <2>2. "kdf" \in Keywords
    BY DEF Keywords
  <2> QED BY <1>2, <2>1, <2>2 DEF KeywordsIn
<1>5. 1 + 1 = 2
  OBVIOUS
<1> QED BY <1>2, <1>3, <1>4, <1>5 DEF HeaderFound, KeywordAt

-----------------------------------------------------------------------------
(* The whole of it. *)

\* What has been read is what the text says, from the header to the end.
Tracking ==
  /\ status # "writing" => Arriving(Text(doc))
  /\ status = "body" => Ready(stack, pos) \/ Cut(stack, pos) \/ Stuck(stack, pos)
  /\ status = "doc" => Returned(result)
  /\ status = "null" => ~ (Arrived /\ Fit(doc) /\ KeywordsIn(0, Len(input)))

\* Nothing of this depends on what a step of the parser changes.
LEMMA StillReady ==
  ASSUME doc' = doc, input' = input, chunk' = chunk, Ready(stack', pos')
  PROVE  Ready(stack, pos)'
<1>1. PICK src, base : /\ Nest(stack', src, base)
                       /\ Leads(pos', Cap(Mark(stack'[1], src[1], base[1])) + 1)
                       /\ KeywordsIn(0, Mark(stack'[1], src[1], base[1]))
  BY DEF Ready
<1>2. Nest(stack, src, base)'
  <2>1. \A k \in 1 .. Len(stack') : Level(stack'[k], src[k], base[k])
    BY <1>1 DEF Nest
  <2>2. (\A k \in 1 .. Len(stack) : Level(stack[k], src[k], base[k]))'
    BY <2>1 DEF Level
  <2>3. Outermost(stack[Len(stack)], src[Len(stack)], base[Len(stack)])'
    <3>1. Outermost(stack'[Len(stack')], src[Len(stack')], base[Len(stack')])
      BY <1>1 DEF Nest
    <3> QED BY <3>1 DEF Outermost
  <2>4. (\A k \in 1 .. Len(stack) - 1 : Inner(stack[k], src[k], base[k]))'
    <3>1. \A k \in 1 .. Len(stack') - 1 : Inner(stack'[k], src[k], base[k])
      BY <1>1 DEF Nest
    <3> QED BY <3>1 DEF Inner
  <2>5. (/\ stack \in Seq(Range(stack)) /\ stack # <<>>
         /\ src \in [1 .. Len(stack) -> Values] /\ base \in [1 .. Len(stack) -> Nat]
         /\ \A k \in 1 .. Len(stack) - 1 : Link(stack[k].key, src[k], base[k], stack[k + 1], src[k + 1], base[k + 1]))'
    BY <1>1 DEF Nest
  <2> QED BY <2>2, <2>3, <2>4, <2>5 DEF Nest
<1>3. Leads(pos, Cap(Mark(stack[1], src[1], base[1])) + 1)'
  BY <1>1 DEF Leads, At, Cap
<1>4. KeywordsIn(0, Mark(stack[1], src[1], base[1]))'
  BY <1>1 DEF KeywordsIn, SameBuffer, At
<1> QED BY <1>2, <1>3, <1>4 DEF Ready
LEMMA StillCut ==
  ASSUME doc' = doc, input' = input, chunk' = chunk
  PROVE  /\ Cut(stack', pos') => Cut(stack, pos)'
         /\ Stuck(stack', pos') => Stuck(stack, pos)'
         /\ Returned(result') => Returned(result)'
         /\ ~ (Arrived /\ Fit(doc) /\ KeywordsIn(0, Len(input))) => ~ (Arrived /\ Fit(doc) /\ KeywordsIn(0, Len(input)))'
         /\ Arriving(Text(doc)) => Arriving(Text(doc))'
<1>1. Cut(stack', pos') => Cut(stack, pos)'
  BY DEF Cut, Clipped, At, Arrived
<1>2. Stuck(stack', pos') => Stuck(stack, pos)'
  BY DEF Stuck, At
<1>3. KeywordsIn(0, Len(input)) <=> KeywordsIn(0, Len(input))'
  BY DEF KeywordsIn, SameBuffer, At
<1>4. Arrived <=> Arrived'
  BY DEF Arrived
<1>5. Returned(result') => Returned(result)'
  BY <1>3, <1>4 DEF Returned, Clipped
<1>6. Arriving(Text(doc)) => Arriving(Text(doc))'
  BY DEF Arriving
<1> QED BY <1>1, <1>2, <1>3, <1>4, <1>5, <1>6

\* The stream that is opened is a beginning of the text.
LEMMA OpenTracks ==
  ASSUME WriterInv, Open
  PROVE  Tracking'
<1>1. PICK T : T = Text(doc)
  OBVIOUS
<1>2. doc \in Documents
  BY DEF WriterInv
<1>3. T \in Seq(Signs)
  BY <1>1, <1>2, TextTyped
<1>4. input' \in Seq(Signs) /\ Begins(input', T)
  BY <1>1, <1>3, OpenArrives
<1>5. status' = "header" /\ doc' = doc
  BY DEF Open, writerVars
<1>6. Arriving(Text(doc))'
  BY <1>1, <1>3, <1>4, <1>5 DEF Arriving
<1> QED BY <1>5, <1>6 DEF Tracking

\* The header, and all that is behind it, is followed as it is read.
LEMMA ParseTracks ==
  ASSUME WriterInv, ReaderInv, Tracking, Parse
  PROVE  Tracking'
<1>1. PICK T : T = Text(doc)
  OBVIOUS
<1>2. doc \in Documents
  BY DEF WriterInv
<1>3. T \in Seq(Signs)
  BY <1>1, <1>2, TextTyped
<1>4. doc' = doc /\ input' = input /\ chunk' = chunk
  BY DEF Parse, ReadHeader, ReadPlain, OpenContainer, OpenShorthand, CloseContainer, ReturnDocument, ReturnNull, writerVars
<1>5. status \in {"header", "body"}
  BY DEF Parse, ReadHeader, ReadPlain, OpenContainer, OpenShorthand, CloseContainer, ReturnDocument, ReturnNull, ParseFails
<1>6. Arriving(Text(doc)) /\ Arriving(T)
  BY <1>1, <1>5 DEF Tracking
<1>7. Arriving(Text(doc))'
  BY <1>4, <1>6, StillCut
<1>8. CASE status = "header"
  <2>1. ReadHeader \/ ReturnNull
    BY <1>8 DEF Parse, ReadPlain, OpenContainer, OpenShorthand, CloseContainer, ReturnDocument
  <2>2. CASE ReadHeader
    <3>1. status' = "body"
      BY <2>2 DEF ReadHeader
    <3>2. Ready(stack', pos')
      BY <1>1, <1>2, <1>3, <1>6, <2>2, HeaderTracks
    <3>3. Ready(stack, pos)'
      BY <1>4, <3>2, StillReady
    <3> QED BY <1>7, <3>1, <3>3 DEF Tracking
  <2>3. CASE ReturnNull
    <3>1. status' = "null" /\ ~ HeaderFound
      BY <1>8, <2>3 DEF ReturnNull, ParseFails
    <3>2. ~ (Arrived /\ Fit(doc) /\ KeywordsIn(0, Len(input)))
      BY <1>1, <1>2, <1>3, <1>6, <3>1, HeaderFails
    <3>3. (~ (Arrived /\ Fit(doc) /\ KeywordsIn(0, Len(input))))'
      BY <1>4, <3>2, StillCut
    <3> QED BY <1>7, <3>1, <3>3 DEF Tracking
  <2> QED BY <2>1, <2>2, <2>3
<1>9. CASE status = "body"
  <2>1. Next
    BY DEF Next
  <2>2. Ready(stack, pos) \/ Cut(stack, pos) \/ Stuck(stack, pos)
    BY <1>9 DEF Tracking
  <2>3. /\ status' = "body" => Ready(stack', pos') \/ Cut(stack', pos') \/ Stuck(stack', pos')
        /\ status' = "doc" => Returned(result')
        /\ status' = "null" => ~ (Arrived /\ Fit(doc) /\ KeywordsIn(0, Len(input)))
    BY <1>1, <1>3, <1>6, <1>9, <2>1, <2>2, BodyTracks
  <2>4. status' = "body" => (Ready(stack, pos) \/ Cut(stack, pos) \/ Stuck(stack, pos))'
    <3>1. Ready(stack', pos') => Ready(stack, pos)'
      BY <1>4, StillReady
    <3>2. (Cut(stack', pos') => Cut(stack, pos)') /\ (Stuck(stack', pos') => Stuck(stack, pos)')
      BY <1>4, StillCut
    <3> QED BY <2>3, <3>1, <3>2
  <2>5. status' = "doc" => Returned(result)'
    <3>1. Returned(result') => Returned(result)'
      BY <1>4, StillCut
    <3> QED BY <2>3, <3>1
  <2>6. status' = "null" => (~ (Arrived /\ Fit(doc) /\ KeywordsIn(0, Len(input))))'
    <3>1. ~ (Arrived /\ Fit(doc) /\ KeywordsIn(0, Len(input))) => (~ (Arrived /\ Fit(doc) /\ KeywordsIn(0, Len(input))))'
      BY <1>4, StillCut
    <3> QED BY <2>3, <3>1
  <2> QED BY <1>7, <2>4, <2>5, <2>6 DEF Tracking
<1> QED BY <1>5, <1>8, <1>9

\* It holds of every behaviour.
LEMMA TrackingSound == Spec => []Tracking
<1>1. Init => Tracking
  BY DEF Init, Tracking
<1>2. WriterInv /\ ReaderInv /\ Tracking /\ [Next]_vars => Tracking'
  <2> SUFFICES ASSUME WriterInv, ReaderInv, Tracking, [Next]_vars  PROVE Tracking'
    OBVIOUS
  <2>1. CASE WriteChar
    <3>1. status' = "writing"
      BY <2>1 DEF WriteChar
    <3> QED BY <3>1 DEF Tracking
  <2>2. CASE Open
    BY <2>2, OpenTracks
  <2>3. CASE Parse
    BY <2>3, ParseTracks
  <2>4. CASE UNCHANGED vars
    <3>1. doc' = doc /\ input' = input /\ chunk' = chunk /\ status' = status /\ stack' = stack /\ pos' = pos /\ result' = result
      BY <2>4 DEF vars, writerVars, readerVars
    <3>2. Ready(stack, pos) => Ready(stack, pos)'
      BY <3>1, StillReady
    <3>3. /\ Cut(stack, pos) => Cut(stack, pos)'
          /\ Stuck(stack, pos) => Stuck(stack, pos)'
          /\ Returned(result) => Returned(result)'
          /\ ~ (Arrived /\ Fit(doc) /\ KeywordsIn(0, Len(input))) => (~ (Arrived /\ Fit(doc) /\ KeywordsIn(0, Len(input))))'
          /\ Arriving(Text(doc)) => Arriving(Text(doc))'
      BY <3>1, StillCut
    <3> QED BY <3>1, <3>2, <3>3 DEF Tracking
  <2> QED BY <2>1, <2>2, <2>3, <2>4 DEF Next, Write
<1> QED BY <1>1, <1>2, ReaderSound, PTL DEF Spec

\* The document is fit exactly if it is readable, as the root object has no name.
LEMMA FitIsReadable ==
  ASSUME doc \in Documents
  PROVE  Fit(doc) <=> ReadableDocument
<1>1. doc \in Values /\ doc.type = "object"
  BY TextAssumption
<1>2. DOMAIN Members(doc) = 1 .. Len(Members(doc))
  BY <1>1, MembersBelow
<1>3. doc.type # "array"
  BY <1>1
<1>4. \A i : FitMember(doc, i) <=> KeyOf(doc, i) \in Identifiers /\ Readable[Child(doc, i)]
  BY <1>3 DEF FitMember
<1> QED BY <1>2, <1>4 DEF Fit, ReadableDocument

\* All keywords of the stream are within a buffer each.
LEMMA WholeKeywords ==
  ASSUME input \in Seq(Signs)
  PROVE  KeywordsIn(0, Len(input)) <=> KeywordsWhole
<1>1. DOMAIN input = 0 + 1 .. Len(input)
  OBVIOUS
<1> QED BY <1>1 DEF KeywordsIn, KeywordsWhole

\* kdf_text_read gives back of the document that kdf_text_write was given what
\* the text form keeps, for every document whose keys and type names are one
\* word to the parser (KeyAssumption), through all levels of containers, and in
\* whatever buffers the text comes: it does so exactly when these words are
\* identifiers, all of each number's text is a number and no keyword lies across
\* the end of a buffer (kdf_text_parser.c:22-863, kdf_text_writer.c:12-280).
THEOREM DocumentReadsBack == Spec => []RoundTrip
<1>1. WriterInv /\ ReaderInv /\ Tracking => RoundTrip
  <2> SUFFICES ASSUME WriterInv, ReaderInv, Tracking  PROVE RoundTrip
    OBVIOUS
  <2>1. doc \in Documents /\ input \in Seq(Signs)
    BY DEF WriterInv, ReaderInv
  <2>2. (Fit(doc) <=> ReadableDocument) /\ (KeywordsIn(0, Len(input)) <=> KeywordsWhole)
    BY <2>1, FitIsReadable, WholeKeywords
  <2>3. status = "doc" /\ Arrived => result = KeptDocument(doc) /\ Fit(doc) /\ KeywordsIn(0, Len(input))
    BY DEF Tracking, Returned
  <2>4. status = "null" /\ Arrived => ~ (Fit(doc) /\ KeywordsIn(0, Len(input)))
    BY DEF Tracking
  <2> QED BY <2>2, <2>3, <2>4 DEF RoundTrip
<1> QED BY <1>1, ReaderSound, TrackingSound, PTL

\* What is kept of the document, member by member.
LEMMA KeptMembers ==
  ASSUME doc \in Documents
  PROVE  KeptDocument(doc).members = So(doc, Len(Members(doc)))
<1>1. doc \in Values /\ doc.type = "object"
  BY TextAssumption
<1>2. doc.type \in Containers
  BY <1>1 DEF Containers, ObjectTypes
<1>3. PICK ms, l, name, o : ms = So(doc, Len(Members(doc))) /\ l = Look(doc) /\ name = doc.name /\ o = "object"
  OBVIOUS
<1>4. PICK r : r = Shell(l, name, ms)
  OBVIOUS
<1>5. Kept[doc] = r
  BY <1>1, <1>2, <1>3, <1>4, ContainersKept
<1>6. KeptDocument(doc) = [r EXCEPT !.type = o, !.name = NULL]
  BY <1>3, <1>5 DEF KeptDocument
<1>7. [r EXCEPT !.type = o, !.name = NULL] = [[r EXCEPT !.type = o] EXCEPT !.name = NULL]
  OBVIOUS
<1>8. [r EXCEPT !.type = o] = Shell(o, name, ms)
  BY <1>4 DEF Shell
<1>9. [Shell(o, name, ms) EXCEPT !.name = NULL] = Shell(o, NULL, ms)
  BY DEF Shell
<1>10. KeptDocument(doc) = Shell(o, NULL, ms)
  BY <1>6, <1>7, <1>8, <1>9
<1> QED BY <1>3, <1>10 DEF Shell

\* A cut member is the last one.
LEMMA ClippedShortens ==
  ASSUME doc \in Documents, NEW got, Clipped(got), NEW kept, kept = So(doc, Len(Members(doc)))
  PROVE  /\ Len(got) <= Len(kept)
         /\ \A i \in DOMAIN got :
              \/ got[i] = kept[i]
              \/ /\ i = Len(got) /\ got[i].key = kept[i].key
                 /\ {got[i].value.type, Child(doc, i).type} \subseteq Numbers
<1>1. doc \in Values /\ doc.type = "object"
  BY TextAssumption
<1>2. doc.type \in Containers /\ doc.type # "array"
  BY <1>1 DEF Containers, ObjectTypes
<1>3. PICK d \in Nat : \E x : /\ d + 1 \in 1 .. Len(Members(doc)) /\ got = Append(So(doc, d), Entry(KeyOf(doc, d + 1), x))
                              /\ {x.type, Child(doc, d + 1).type} \subseteq Numbers
  BY DEF Clipped
<1>4. PICK x : /\ d + 1 \in 1 .. Len(Members(doc)) /\ got = Append(So(doc, d), Entry(KeyOf(doc, d + 1), x))
               /\ {x.type, Child(doc, d + 1).type} \subseteq Numbers
  BY <1>3
<1>5. d \in Nat
  OBVIOUS
<1>6. /\ Len(Append(So(doc, d), Entry(KeyOf(doc, d + 1), x))) = d + 1
      /\ Append(So(doc, d), Entry(KeyOf(doc, d + 1), x))[d + 1] = Entry(KeyOf(doc, d + 1), x)
      /\ \A j \in 1 .. d : Append(So(doc, d), Entry(KeyOf(doc, d + 1), x))[j] = KeptMember(doc, j)
  <2>1. PICK type : type = doc.type
    OBVIOUS
  <2>2. type = "array" <=> doc.type = "array"
    BY <2>1
  <2>3. PICK name : name = NULL
    OBVIOUS
  <2> QED BY <1>1, <1>2, <1>4, <1>5, <2>2, StoredNext
<1>7. Len(got) = d + 1 /\ got[d + 1] = Entry(KeyOf(doc, d + 1), x) /\ \A j \in 1 .. d : got[j] = KeptMember(doc, j)
  BY <1>4, <1>6
<1>8. PICK n : n = Len(Members(doc))
  OBVIOUS
<1>9. n \in Nat /\ d + 1 \in 1 .. n
  BY <1>1, <1>4, <1>8, MembersBelow
<1>10. Len(kept) = n /\ \A j \in 1 .. n : kept[j] = KeptMember(doc, j)
  <2>1. kept = [j \in 1 .. n |-> KeptMember(doc, j)]
    BY <1>8 DEF So
  <2> QED BY <1>9, <2>1
<1>11. DOMAIN got = 1 .. d + 1
  <2>1. PICK ms, m : ms = So(doc, d) /\ m = Entry(KeyOf(doc, d + 1), x)
    OBVIOUS
  <2>2. ms = [j \in 1 .. d |-> KeptMember(doc, j)]
    BY <2>1 DEF So
  <2>3. PICK S : S = Range(ms) \cup {m}
    OBVIOUS
  <2>4. ms \in Seq(S) /\ m \in S
    <3>1. \A j \in 1 .. d : ms[j] \in S
      BY <2>2, <2>3 DEF Range
    <3> QED BY <1>5, <2>2, <2>3, <3>1
  <2>5. Append(ms, m) \in Seq(S) /\ Len(Append(ms, m)) = Len(ms) + 1 /\ Len(ms) = d
    BY <1>5, <2>2, <2>4
  <2> QED BY <1>4, <1>5, <2>1, <2>5
<1>12. got[d + 1].key = KeyOf(doc, d + 1) /\ got[d + 1].value = x
  BY <1>7 DEF Entry
<1>13. kept[d + 1].key = KeyOf(doc, d + 1)
  BY <1>9, <1>10 DEF KeptMember
<1>14. ASSUME NEW i \in 1 .. d + 1
       PROVE  \/ got[i] = kept[i]
              \/ /\ i = Len(got) /\ got[i].key = kept[i].key
                 /\ {got[i].value.type, Child(doc, i).type} \subseteq Numbers
  <2>1. i \in 1 .. d \/ i = d + 1
    BY <1>5
  <2>2. CASE i \in 1 .. d
    <3>1. i \in 1 .. n
      BY <1>5, <1>9, <2>2
    <3> QED BY <1>7, <1>10, <2>2, <3>1
  <2>3. CASE i = d + 1
    BY <1>4, <1>7, <1>12, <1>13, <2>3
  <2> QED BY <2>1, <2>2, <2>3
<1>15. Len(got) <= Len(kept)
  BY <1>5, <1>7, <1>9, <1>10
<1> QED BY <1>11, <1>14, <1>15

\* From a text of such a document that was cut, by a failed write or a failed
\* read and in whatever buffers the rest came, kdf_text_read makes a beginning
\* of the document that was written: whole properties of the root object in
\* their order, and of the last only a number may be another one
\* (kdf_text_parser.c:22-863).
THEOREM TornTextShortens == Spec => []TornShortens
<1>1. WriterInv /\ ReaderInv /\ Tracking => TornShortens
  <2> SUFFICES ASSUME WriterInv, ReaderInv, Tracking, status = "doc", NEW got, got = result.members,
                      NEW kept, kept = KeptDocument(doc).members
               PROVE  /\ Len(got) <= Len(kept)
                      /\ \A i \in DOMAIN got :
                           \/ got[i] = kept[i]
                           \/ /\ ~ Arrived /\ i = Len(got)
                              /\ got[i].key = kept[i].key
                              /\ {got[i].value.type, Child(doc, i).type} \subseteq Numbers
    BY DEF TornShortens
  <2>1. doc \in Documents
    BY DEF WriterInv
  <2>2. doc \in Values
    BY <2>1, TextAssumption
  <2>3. kept = So(doc, Len(Members(doc)))
    BY <2>1, KeptMembers
  <2>4. \/ \E d \in 0 .. Len(Members(doc)) : got = So(doc, d)
        \/ Clipped(got) /\ ~ Arrived
    BY DEF Tracking, Returned
  <2>5. CASE \E d \in 0 .. Len(Members(doc)) : got = So(doc, d)
    <3>1. PICK n : n = Len(Members(doc))
      OBVIOUS
    <3>2. n \in Nat
      BY <2>2, <3>1, MembersBelow
    <3>3. PICK d \in 0 .. n : got = So(doc, d)
      BY <2>5, <3>1
    <3>4. d \in Nat /\ d <= n
      BY <3>2
    <3>5. got = [i \in 1 .. d |-> KeptMember(doc, i)] /\ kept = [i \in 1 .. n |-> KeptMember(doc, i)]
      BY <2>3, <3>1, <3>3 DEF So
    <3>6. Len(got) = d /\ Len(kept) = n /\ DOMAIN got = 1 .. d
      BY <3>2, <3>4, <3>5
    <3>7. \A i \in 1 .. d : i \in 1 .. n /\ got[i] = kept[i]
      BY <3>2, <3>4, <3>5
    <3> QED BY <3>4, <3>6, <3>7
  <2>6. CASE Clipped(got) /\ ~ Arrived
    <3>1. /\ Len(got) <= Len(kept)
          /\ \A i \in DOMAIN got :
               \/ got[i] = kept[i]
               \/ /\ i = Len(got) /\ got[i].key = kept[i].key
                  /\ {got[i].value.type, Child(doc, i).type} \subseteq Numbers
      BY <2>1, <2>3, <2>6, ClippedShortens
    <3> QED BY <2>6, <3>1
  <2> QED BY <2>4, <2>5, <2>6
<1> QED BY <1>1, ReaderSound, TrackingSound, PTL
=============================================================================
