--------------------------- MODULE KdfFileProofs ---------------------------
(***************************************************************************)
(* Saving and loading keep their promises, and the memory streams below    *)
(* them theirs, for all documents, all ways to give their bytes to the     *)
(* stream, all sizes of buffers and words, and whatever fails.             *)
(***************************************************************************)
EXTENDS KdfFile, SequenceTheorems, TLAPS

\* Beginnings of sequences, element by element.
LEMMA PrefixByElement ==
  ASSUME NEW S, NEW s \in Seq(S), NEW t \in Seq(S)
  PROVE  IsPrefix(s, t) <=> Len(s) <= Len(t) /\ \A i \in 1 .. Len(s) : s[i] = t[i]
<1>1. CASE Len(s) <= Len(t)
  <2>1. /\ SubSeq(s, 1, Len(s)) \in Seq(S) /\ SubSeq(t, 1, Len(s)) \in Seq(S)
        /\ Len(SubSeq(s, 1, Len(s))) = Len(s) /\ Len(SubSeq(t, 1, Len(s))) = Len(s)
        /\ \A i \in 1 .. Len(s) : SubSeq(s, 1, Len(s))[i] = s[i]
        /\ \A i \in 1 .. Len(s) : SubSeq(t, 1, Len(s))[i] = t[i]
    BY <1>1
  <2>2. (\A i \in 1 .. Len(s) : s[i] = t[i]) => SubSeq(s, 1, Len(s)) = SubSeq(t, 1, Len(s))
    BY <2>1, SeqEqual
  <2> QED BY <1>1, <2>1, <2>2 DEF IsPrefix
<1>2. CASE ~(Len(s) <= Len(t))
  BY <1>2 DEF IsPrefix
<1> QED BY <1>1, <1>2

LEMMA EmptyIsPrefix ==
  ASSUME NEW S, NEW t \in Seq(S)
  PROVE  IsPrefix(<<>>, t)
<1>1. Len(<<>>) = 0 /\ Len(t) \in Nat
  OBVIOUS
<1>2. SubSeq(<<>>, 1, 0) = <<>> /\ SubSeq(t, 1, 0) = <<>>
  BY SubSeqEmpty
<1> QED BY <1>1, <1>2 DEF IsPrefix

LEMMA PrefixTransitive ==
  ASSUME NEW S, NEW s \in Seq(S), NEW t \in Seq(S), NEW u \in Seq(S),
         IsPrefix(s, t), IsPrefix(t, u)
  PROVE  IsPrefix(s, u)
BY PrefixByElement

\* A sequence cut in two, and what is in front of it.
LEMMA Cut ==
  ASSUME NEW S, NEW s \in Seq(S), NEW n \in 0 .. Len(s), NEW k \in 0 .. n
  PROVE  /\ SubSeq(s, 1, n) \in Seq(S) /\ Len(SubSeq(s, 1, n)) = n
         /\ \A i \in 1 .. n : SubSeq(s, 1, n)[i] = s[i]
         /\ SubSeq(s, k + 1, n) \in Seq(S) /\ Len(SubSeq(s, k + 1, n)) = n - k
         /\ SubSeq(s, 1, k) \o SubSeq(s, k + 1, n) = SubSeq(s, 1, n)
         /\ IsPrefix(SubSeq(s, 1, n), s)
<1>1. SubSeq(s, 1, n) \in Seq(S) /\ Len(SubSeq(s, 1, n)) = n
      /\ \A i \in 1 .. n : SubSeq(s, 1, n)[i] = s[i]
  OBVIOUS
<1>2. SubSeq(s, k + 1, n) \in Seq(S) /\ Len(SubSeq(s, k + 1, n)) = n - k
  OBVIOUS
<1>3. SubSeq(s, 1, k) \o SubSeq(s, k + 1, n) = SubSeq(s, 1, n)
  BY ConcatAdjacentSubSeq
<1>4. Len(s) \in Nat /\ n <= Len(s)
  OBVIOUS
<1>5. IsPrefix(SubSeq(s, 1, n), s)
  BY <1>1, <1>4, PrefixByElement
<1> QED BY <1>1, <1>2, <1>3, <1>5

LEMMA PrefixOfConcat ==
  ASSUME NEW S, NEW s \in Seq(S), NEW t \in Seq(S), NEW k \in 0 .. Len(t)
  PROVE  /\ IsPrefix(s, s \o t)
         /\ IsPrefix(s \o SubSeq(t, 1, k), s \o t)
         /\ Len(s \o SubSeq(t, 1, k)) <= Len(s \o t)
<1>1. SubSeq(t, 1, k) \in Seq(S) /\ Len(SubSeq(t, 1, k)) = k
      /\ \A i \in 1 .. k : SubSeq(t, 1, k)[i] = t[i]
  BY Cut
<1>2. s \o t \in Seq(S) /\ s \o SubSeq(t, 1, k) \in Seq(S)
  BY <1>1, ConcatProperties
<1>3. /\ Len(s \o t) = Len(s) + Len(t)
      /\ \A i \in 1 .. Len(s) + Len(t) : (s \o t)[i] = IF i <= Len(s) THEN s[i] ELSE t[i - Len(s)]
  BY ConcatProperties
<1>4. /\ Len(s \o SubSeq(t, 1, k)) = Len(s) + k
      /\ \A i \in 1 .. Len(s) + k :
           (s \o SubSeq(t, 1, k))[i] = IF i <= Len(s) THEN s[i] ELSE SubSeq(t, 1, k)[i - Len(s)]
  BY <1>1, ConcatProperties
<1>5. Len(s) \in Nat /\ Len(t) \in Nat /\ k \in Nat /\ k <= Len(t)
  BY LenProperties
<1>7. IsPrefix(s, s \o t)
  <2>1. Len(s) <= Len(s \o t) /\ \A i \in 1 .. Len(s) : s[i] = (s \o t)[i]
    BY <1>3, <1>5
  <2> QED BY <1>2, <2>1, PrefixByElement
<1>6. \A i \in 1 .. Len(s) + k : (s \o SubSeq(t, 1, k))[i] = (s \o t)[i]
  BY <1>1, <1>3, <1>4, <1>5
<1>8. Len(s \o SubSeq(t, 1, k)) <= Len(s \o t)
  BY <1>3, <1>4, <1>5
<1>9. IsPrefix(s \o SubSeq(t, 1, k), s \o t)
  BY <1>2, <1>4, <1>6, <1>8, PrefixByElement
<1> QED BY <1>7, <1>8, <1>9

LEMMA PrefixAndRest ==
  ASSUME NEW S, NEW p \in Seq(S), NEW t \in Seq(S), IsPrefix(p, t)
  PROVE  /\ SubSeq(t, Len(p) + 1, Len(t)) \in Seq(S)
         /\ p \o SubSeq(t, Len(p) + 1, Len(t)) = t
<1>1. Len(p) \in 0 .. Len(t) /\ Len(t) \in 0 .. Len(t) /\ SubSeq(t, 1, Len(t)) = t
  BY PrefixByElement, SubSeqFull
<1>2. p = SubSeq(t, 1, Len(p))
  BY <1>1, SubSeqFull DEF IsPrefix
<1> QED BY ZenonT(60), <1>1, <1>2, Cut

-----------------------------------------------------------------------------
\* The words of the machine.
LEMMA Small ==
  ASSUME NEW m \in Nat \ {0}, NEW x \in Nat
  PROVE  /\ x < m => x % m = x
         /\ m <= x /\ x < 2 * m => x % m = x - m
OBVIOUS

LEMMA Words ==
  ASSUME NEW x \in Int
  PROVE  /\ Half \in Nat \ {0}
         /\ x \in 0 .. Half => Word(x) = x
         /\ x \in -Half .. Half - 1 => Signed(x) = x
         /\ x \in Half .. 3 * Half - 1 => Signed(x) = x - 2 * Half
<1>1. Half \in Nat \ {0}
  BY MemIOAssumption
<1> HIDE DEF Half
<1>2. 2 * Half \in Nat \ {0}
  BY <1>1
<1>3. x \in 0 .. Half => Word(x) = x
  BY <1>1, <1>2, Small DEF Word
<1>4. ASSUME x \in -Half .. 3 * Half - 1
      PROVE  x + Half \in Nat /\ x + Half < 2 * (2 * Half)
  BY <1>1, <1>4
<1>5. x \in -Half .. Half - 1 => Signed(x) = x
  BY <1>1, <1>2, <1>4, Small DEF Signed
<1>6. x \in Half .. 3 * Half - 1 => Signed(x) = x - 2 * Half
  BY <1>1, <1>2, <1>4, Small DEF Signed
<1> QED BY <1>1, <1>3, <1>5, <1>6

-----------------------------------------------------------------------------
\* The memory streams on their own.
MemOK == TypeOK /\ Len(input) <= Half

LEMMA Sizes ==
  ASSUME MemOK
  PROVE  /\ size \in Nat /\ capacity \in Nat /\ size <= capacity /\ capacity <= Half
         /\ input \in Seq(Bytes) /\ Len(input) \in Nat /\ Len(input) <= Half
         /\ pos \in Nat /\ pos <= Len(input) /\ Half \in Nat \ {0}
<1> USE MemIOAssumption
<1> HIDE DEF Half
<1> QED BY DEF MemOK, TypeOK

\* What was written is a sequence of bytes, and the buffer has each of them.
LEMMA WrittenIsSeq ==
  ASSUME MemOK
  PROVE  /\ Written \in Seq(Bytes) /\ Len(Written) = size
         /\ \A i \in 1 .. size : Written[i] = ByteAt(i) /\ ByteAt(i) = data[i]
<1>1. \A i \in 1 .. size : data # NULL /\ i \in DOMAIN data
  <2>1. ASSUME NEW i \in 1 .. size  PROVE data # NULL /\ i \in DOMAIN data
    <3>1. capacity # 0 /\ i \in 1 .. capacity
      BY Sizes
    <3>2. data \in [1 .. capacity -> Bytes \cup {Junk}]
      BY <3>1 DEF MemOK, TypeOK
    <3>3. data \in Seq(Bytes \cup {Junk})
      BY <3>2, Sizes, SeqDef
    <3> QED BY <3>1, <3>2, <3>3, MemIOAssumption
  <2> QED BY <2>1
<1>2. \A i \in 1 .. size : ByteAt(i) = data[i] /\ data[i] \in Bytes
  BY <1>1 DEF MemOK, TypeOK, ByteAt
<1>3. Written \in [1 .. size -> Bytes]
  BY <1>2 DEF Written
<1>4. Written \in Seq(Bytes) /\ Len(Written) = size
  BY <1>3, Sizes, SeqDef
<1> QED BY <1>2, <1>4 DEF Written

LEMMA WriteAppends ==
  ASSUME MemOK, NEW piece \in Pieces, MwWrite(piece)
  PROVE  MemOK' /\ Written' = Written \o piece
<1>1. piece \in Seq(Bytes) /\ Len(piece) \in Nat /\ Len(piece) # 0
  BY MemIOAssumption, EmptySeq
<1>2. PICK cap \in IF MwFits(piece) THEN {capacity} ELSE Doubled(capacity, size + Len(piece)) :
        capacity' = cap /\ data' = Filled(cap, piece)
  BY DEF MwWrite
<1>3. cap \in Capacities \cup {0} /\ cap >= size + Len(piece)
  BY <1>2 DEF MwFits, Doubled, MemOK, TypeOK
<1>4. cap \in Nat /\ cap # 0
  BY <1>1, <1>3, Sizes, MemIOAssumption
<1>5. size' = size + Len(piece) /\ UNCHANGED <<input, pos, got>>
  BY DEF MwWrite, reader
<1>6. \A i \in 1 .. cap : data'[i] = IF i \in size + 1 .. size + Len(piece) THEN piece[i - size]
                                     ELSE ByteAt(i)
  BY <1>2 DEF Filled
<1>7. \A i \in 1 .. size + Len(piece) :
        /\ i \in 1 .. cap
        /\ i <= size => i \in 1 .. size /\ data'[i] = Written[i]
        /\ i > size => i - size \in 1 .. Len(piece) /\ data'[i] = piece[i - size]
  BY <1>1, <1>3, <1>4, <1>6, Sizes, WrittenIsSeq
<1>8. \A i \in 1 .. size' : data'[i] \in Bytes
  <2>1. ASSUME NEW i \in 1 .. size + Len(piece)  PROVE data'[i] \in Bytes
    <3>1. CASE i <= size
      BY <1>7, <3>1, WrittenIsSeq, ElementOfSeq
    <3>2. CASE i > size
      BY <1>1, <1>7, <3>2, ElementOfSeq
    <3> QED BY <1>1, <2>1, <3>1, <3>2, Sizes
  <2> QED BY <1>5, <2>1
<1>9. data' \in [1 .. cap -> Bytes \cup {Junk}]
  <2>1. \A i : ByteAt(i) \in Bytes \cup {Junk}
    <3>1. data # NULL => data \in [1 .. capacity -> Bytes \cup {Junk}]
      BY DEF MemOK, TypeOK
    <3> QED BY <3>1 DEF ByteAt
  <2>2. \A i \in size + 1 .. size + Len(piece) : piece[i - size] \in Bytes
    BY <1>1, Sizes, ElementOfSeq
  <2> QED BY <1>2, <2>1, <2>2 DEF Filled
<1>10. MemOK'
  BY <1>1, <1>2, <1>3, <1>4, <1>5, <1>8, <1>9, Sizes DEF MemOK, TypeOK
<1>11. /\ Written' \in Seq(Bytes) /\ Len(Written') = size + Len(piece)
       /\ \A i \in 1 .. size + Len(piece) : Written'[i] = data'[i]
  <2>1. data' # NULL /\ DOMAIN data' = 1 .. cap
    <3>1. data' \in Seq(Bytes \cup {Junk})
      BY <1>4, <1>9, SeqDef
    <3> QED BY <1>9, <3>1, MemIOAssumption
  <2>2. \A i \in 1 .. size + Len(piece) : ByteAt(i)' = data'[i]
    BY <1>7, <2>1 DEF ByteAt
  <2>3. Written' \in [1 .. size + Len(piece) -> Bytes]
    BY <1>5, <1>8, <2>2 DEF Written
  <2>4. size + Len(piece) \in Nat
    BY <1>1, Sizes
  <2> QED BY <1>5, <2>2, <2>3, <2>4, SeqDef DEF Written
<1>12. /\ Written \o piece \in Seq(Bytes) /\ Len(Written \o piece) = size + Len(piece)
       /\ \A i \in 1 .. size + Len(piece) :
            (Written \o piece)[i] = IF i <= size THEN Written[i] ELSE piece[i - size]
  <2>1. /\ Written \o piece \in Seq(Bytes) /\ Len(Written \o piece) = Len(Written) + Len(piece)
        /\ \A i \in 1 .. Len(Written) + Len(piece) :
             (Written \o piece)[i] = IF i <= Len(Written) THEN Written[i] ELSE piece[i - Len(Written)]
    BY <1>1, WrittenIsSeq, ConcatProperties
  <2> QED BY <2>1, WrittenIsSeq
<1>13. \A i \in 1 .. size + Len(piece) : Written'[i] = (Written \o piece)[i]
  <2>1. ASSUME NEW i \in 1 .. size + Len(piece)  PROVE Written'[i] = (Written \o piece)[i]
    <3>1. i \in Nat /\ size \in Nat
      BY <1>1, Sizes
    <3>2. CASE i <= size
      BY <1>7, <1>11, <1>12, <3>2
    <3>3. CASE ~(i <= size)
      <4>1. i > size
        BY <3>1, <3>3
      <4> QED BY <1>7, <1>11, <1>12, <3>3, <4>1
    <3> QED BY <3>2, <3>3
  <2> QED BY <2>1
<1> QED BY <1>10, <1>11, <1>12, <1>13, SeqEqual

LEMMA FinishEmpties ==
  ASSUME MemOK, MwFinish
  PROVE  MemOK' /\ Written' = <<>>
<1>1. data' = NULL /\ size' = 0 /\ capacity' = 0 /\ UNCHANGED <<input, pos, got>>
  BY DEF MwFinish, reader
<1>2. Written' = <<>>
  BY <1>1 DEF Written
<1>3. /\ capacity' \in Capacities \cup {0} /\ size' \in 0 .. capacity'
      /\ \A i \in 1 .. size' : data'[i] \in Bytes
  BY <1>1
<1>4. input' \in Seq(Bytes) /\ pos' \in 0 .. Len(input') /\ Len(input') <= Half
  BY <1>1 DEF MemOK, TypeOK
<1> QED BY <1>1, <1>2, <1>3, <1>4 DEF MemOK, TypeOK

\* What leaves the writer alone leaves its bytes alone.
LEMMA WriterStays ==
  ASSUME MemOK, UNCHANGED writer, input' \in Seq(Bytes), Len(input') <= Half,
         pos' \in 0 .. Len(input')
  PROVE  MemOK' /\ Written' = Written
<1>1. UNCHANGED <<data, size, capacity>>
  BY DEF writer
<1>2. Written' = Written
  BY <1>1 DEF Written, ByteAt
<1> QED BY <1>1, <1>2 DEF MemOK, TypeOK

LEMMA CreateBegins ==
  ASSUME MemOK, NEW bytes \in Seq(Bytes), Len(bytes) <= Half, MrCreate(bytes)
  PROVE  /\ MemOK' /\ Written' = Written
         /\ input' = bytes /\ pos' = 0 /\ got' = <<>>
<1>1. input' = bytes /\ pos' = 0 /\ got' = <<>> /\ UNCHANGED writer
  BY DEF MrCreate
<1>2. pos' \in 0 .. Len(input')
  BY <1>1, LenProperties
<1> QED BY <1>1, <1>2, WriterStays

\* A read hands out what is next, as far as there is anything.
LEMMA ReadTakes ==
  ASSUME MemOK, NEW n \in ReadSizes, MrRead(n)
  PROVE  /\ MemOK' /\ Written' = Written /\ UNCHANGED <<writer, input>>
         /\ pos' = IF pos + n <= Len(input) THEN pos + n ELSE Len(input)
         /\ pos' \in pos .. Len(input)
         /\ got' = SubSeq(input, pos + 1, pos')
<1>1. Len(input) - pos \in 0 .. Half /\ Remaining = Len(input) - pos
  <2>1. Len(input) - pos \in 0 .. Half
    <3> HIDE DEF Half
    <3> QED BY Sizes
  <2> QED BY <2>1, Words DEF Remaining
<1>2. n \in Nat
  BY MemIOAssumption
<1> DEFINE k == IF n > Remaining THEN Remaining ELSE n
<1>3. /\ got' = [i \in 1 .. k |-> IF pos + i <= Len(input) THEN input[pos + i] ELSE Junk]
      /\ pos' = pos + k /\ UNCHANGED <<writer, input>>
  BY DEF MrRead
<1>4. k \in Nat /\ pos + k <= Len(input)
      /\ pos + k = IF pos + n <= Len(input) THEN pos + n ELSE Len(input)
  BY <1>1, <1>2, Sizes
<1> HIDE DEF k
<1>5. MemOK' /\ Written' = Written
  <2>1. pos' \in 0 .. Len(input')
    BY <1>3, <1>4, Sizes
  <2> QED BY <1>3, <2>1, Sizes, WriterStays
<1>6. got' = SubSeq(input, pos + 1, pos')
  <2>1. \A i \in 1 .. k : pos + i <= Len(input) /\ pos + i \in 1 .. Len(input)
    BY <1>4, Sizes
  <2>2. got' = [i \in 1 .. k |-> input[pos + i]]
    BY <1>3, <2>1
  <2>3. got' \in [1 .. k -> Bytes]
    BY <2>1, <2>2, Sizes, ElementOfSeq
  <2>4. got' \in Seq(Bytes) /\ Len(got') = k
    BY <1>4, <2>3, SeqDef
  <2>5. /\ SubSeq(input, pos + 1, pos + k) \in Seq(Bytes)
        /\ Len(SubSeq(input, pos + 1, pos + k)) = k
        /\ \A i \in 1 .. k : SubSeq(input, pos + 1, pos + k)[i] = input[pos + i]
    <3>0. pos \in Int /\ k \in Nat
      BY <1>4, Sizes
    <3>1. /\ pos + 1 \in Int /\ pos + k \in Int /\ (pos + k) - (pos + 1) + 1 = k
          /\ k # 0 <=> pos + 1 <= pos + k
          /\ \A i \in 1 .. k : (pos + 1) + i - 1 = pos + i
      BY <3>0
    <3>2. \A i \in pos + 1 .. pos + k : input[i] \in Bytes
      BY <1>4, Sizes, ElementOfSeq
    <3> QED BY <3>1, <3>2, SubSeqProperties
  <2>6. \A i \in 1 .. k : got'[i] = SubSeq(input, pos + 1, pos + k)[i]
    BY <2>2, <2>5
  <2> QED BY <1>3, <2>4, <2>5, <2>6, SeqEqual
<1>7. pos' \in pos .. Len(input)
  BY <1>3, <1>4, Sizes
<1> QED BY <1>3, <1>4, <1>5, <1>6, <1>7

\* A seek gets where it was told to: when the sum overflows, it is negative
\* and refused.
LEMMA SeekJumps ==
  ASSUME MemOK, NEW offset \in Offsets, NEW origin \in Origins, MrSeek(offset, origin)
  PROVE  /\ MemOK' /\ Written' = Written /\ UNCHANGED <<writer, input, got>>
         /\ pos' \in {offset, pos + offset, Len(input) + offset} \cap (0 .. Len(input))
<1> DEFINE base == IF origin = 0 THEN 0 ELSE IF origin = 1 THEN pos ELSE Len(input)
           p == NewPos(offset, origin)
<1>1. p >= 0 /\ p <= Len(input) /\ pos' = p /\ UNCHANGED <<writer, input, got>>
  BY DEF MrSeek, Allowed
<1>2. p = Signed(base + offset)
  BY DEF NewPos
<1>3. offset \in -Half .. Half - 1 /\ offset \in Int
  BY MemIOAssumption, Sizes
<1>4. base \in 0 .. Half /\ base \in {0, pos, Len(input)}
  <2> HIDE DEF Half
  <2> QED BY Sizes
<1> HIDE DEF base, p, Half
<1>5. base \in Int /\ offset \in Int /\ base + offset \in Int
      /\ base + offset >= -Half /\ base + offset < 2 * Half
  BY <1>3, <1>4, Sizes
<1>6. CASE base + offset < Half
  <2>1. p = base + offset
    BY <1>2, <1>5, <1>6, Words, Sizes
  <2>2. base + offset \in {offset, pos + offset, Len(input) + offset}
    BY <1>3, <1>4, Sizes
  <2>3. pos' \in 0 .. Len(input)
    BY <1>1, <1>5, <2>1, Sizes
  <2> QED BY <1>1, <2>1, <2>2, <2>3, Sizes, WriterStays
<1>7. CASE base + offset >= Half
  <2>1. p = (base + offset) - 2 * Half
    <3>1. base + offset \in Half .. 3 * Half - 1
      BY <1>5, <1>7, Sizes
    <3>2. Signed(base + offset) = (base + offset) - 2 * Half
      BY <1>5, <3>1, Words
    <3> QED BY <1>2, <3>2
  <2>2. p < 0
    BY <1>5, <2>1, Sizes
  <2> QED BY <1>1, <1>5, <2>1, <2>2, Sizes
<1> QED BY <1>5, <1>6, <1>7, Sizes

LEMMA CrashEmpties ==
  ASSUME MemCrash
  PROVE  /\ MemOK' /\ Written' = <<>>
         /\ input' = <<>> /\ pos' = 0 /\ got' = <<>>
<1>1. data' = NULL /\ size' = 0 /\ capacity' = 0 /\ input' = <<>> /\ pos' = 0 /\ got' = <<>>
  BY DEF MemCrash
<1>2. Written' = <<>>
  BY <1>1 DEF Written
<1>3. Len(input') <= Half
  <2> HIDE DEF Half
  <2> QED BY <1>1, MemIOAssumption
<1> QED BY <1>1, <1>2, <1>3 DEF MemOK, TypeOK

\* The caller's own streams, whatever they do.
LEMMA MemKeeps ==
  ASSUME MemOK, MemNext
  PROVE  MemOK'
<1>1. ASSUME NEW piece \in Pieces, MwWrite(piece)  PROVE MemOK'
  BY <1>1, WriteAppends
<1>2. CASE MwFinish
  BY <1>2, FinishEmpties
<1>3. CASE MrCreate(Written)
  BY <1>3, WrittenIsSeq, Sizes, CreateBegins
<1>4. CASE MrCreate(<<>>)
  <2>1. <<>> \in Seq(Bytes) /\ Len(<<>>) <= Half
    <3> HIDE DEF Half
    <3> QED BY Sizes
  <2> QED BY <1>4, <2>1, CreateBegins
<1>5. CASE MemCrash
  BY <1>5, CrashEmpties
<1>6. ASSUME NEW n \in ReadSizes, MrRead(n)  PROVE MemOK'
  BY <1>6, ReadTakes
<1>7. ASSUME NEW offset \in Offsets, NEW origin \in Origins, MrSeek(offset, origin)
      PROVE  MemOK'
  BY <1>7, SeekJumps
<1> QED BY <1>1, <1>2, <1>3, <1>4, <1>5, <1>6, <1>7 DEF MemNext

-----------------------------------------------------------------------------
\* The invariant of a save.
LEMMA SavedIsSeq ==
  ASSUME NEW l \in Formats \X Documents
  PROVE  Whole(l[1], l[2]) \in Seq(Bytes)
BY FileAssumption DEF Whole

LEMMA StartsIn == Init => IndInv
<1> SUFFICES ASSUME Init  PROVE IndInv
  OBVIOUS
<1>1. /\ data = NULL /\ size = 0 /\ capacity = 0 /\ input = <<>> /\ pos = 0
      /\ disk = NULL /\ call = "none" /\ format = "binary" /\ last = NULL
      /\ todo = <<>> /\ error = "ok" /\ pending = <<>> /\ block = FALSE
      /\ length = 0 /\ taken = <<>> /\ ignored = {} /\ answer = "none"
  BY DEF Init, MemInit
<1>2. TypeOK
  BY <1>1 DEF TypeOK
<1>3. Len(input) <= Half
  <2> HIDE DEF Half
  <2> QED BY <1>1, MemIOAssumption
<1>4. FileTypeOK
  <2>1. <<>> \in Seq(Bytes)
    OBVIOUS
  <2> QED BY <1>1, <2>1 DEF FileTypeOK, Formats
<1>5. Saving /\ Loading
  BY <1>1 DEF Saving, Loading
<1>6. OkMeansSaved /\ FileIsPrefix /\ NothingKept
  BY <1>1 DEF OkMeansSaved, FileIsPrefix, NothingKept
<1>7. LoadsWhatWasSaved
  BY <1>1, FileAssumption DEF LoadsWhatWasSaved
<1> QED BY <1>2, <1>3, <1>4, <1>5, <1>6, <1>7 DEF IndInv

LEMMA Untouched ==
  ASSUME MemOK, UNCHANGED memVars
  PROVE  MemOK' /\ Written' = Written /\ UNCHANGED <<data, size, capacity, input, pos, got>>
<1>1. UNCHANGED <<data, size, capacity, input, pos, got>>
  BY DEF memVars, writer, reader
<1>2. input' \in Seq(Bytes) /\ Len(input') <= Half /\ pos' \in 0 .. Len(input')
  BY <1>1 DEF MemOK, TypeOK
<1> QED BY <1>1, <1>2, WriterStays DEF memVars

\* What each step has to keep; the rest of the invariant follows from it.
Sound ==
  /\ MemOK /\ FileTypeOK /\ Saving /\ Loading
  /\ OkMeansSaved /\ LoadsWhatWasSaved /\ (answer \in {"ok", "io"} => data = NULL)

LEMMA SoundBefore ==
  ASSUME IndInv
  PROVE  Sound
BY DEF IndInv, Sound, MemOK, NothingKept

\* Most answers promise nothing.
LEMMA Promises ==
  ASSUME answer' \in {"none", "io", NULL}
  PROVE  OkMeansSaved' /\ LoadsWhatWasSaved'
BY FileAssumption DEF OkMeansSaved, LoadsWhatWasSaved

LEMMA UseStreamsKeeps ==
  ASSUME Sound, UseStreams
  PROVE  Sound'
<1>1. /\ call = "none" /\ answer' = "none"
      /\ UNCHANGED <<disk, call, format, last, todo, error, pending, block, length, taken, ignored>>
  BY DEF UseStreams
<1>2. MemOK'
  BY MemKeeps DEF UseStreams, Sound
<1>3. FileTypeOK'
  BY <1>1 DEF Sound, FileTypeOK
<1>4. Saving'
  BY <1>1 DEF Sound, Saving, Saved
<1>5. Loading'
  BY <1>1 DEF Sound, Loading
<1> QED BY <1>1, <1>2, <1>3, <1>4, <1>5, Promises DEF Sound

\* fopen empties the file: nothing is in it, and all is still to be written.
LEMMA SaveOpenKeeps ==
  ASSUME Sound, SaveOpen
  PROVE  Sound'
<1>1. PICK f \in Formats, d \in Documents :
        format' = f /\ last' = <<f, d>> /\ todo' = Whole(f, d)
  BY DEF SaveOpen
<1>2. /\ data = NULL /\ disk' = <<>> /\ call' = "serialise" /\ call = "none" /\ error' = "ok"
      /\ ignored' = {} /\ answer' = "none"
      /\ UNCHANGED <<memVars, pending, block, length, taken>>
  BY DEF SaveOpen, OpenedEmpty
<1>3. pending' = <<>>
  BY <1>2 DEF Sound, Saving
<1>4. MemOK' /\ Written' = Written
  BY <1>2, Untouched DEF Sound
<1>5. last' \in Formats \X Documents /\ Saved' = Whole(f, d) /\ Whole(f, d) \in Seq(Bytes)
  BY <1>1, FileAssumption DEF Saved, Whole
<1>6. Written' = <<>>
  <2>1. capacity = 0
    <3>1. CASE capacity # 0
      <4>1. data \in [1 .. capacity -> Bytes \cup {Junk}]
        BY <3>1 DEF Sound, MemOK, TypeOK
      <4>2. data \in Seq(Bytes \cup {Junk})
        BY <4>1, Sizes, SeqDef DEF Sound
      <4> QED BY <1>2, <4>2, MemIOAssumption
    <3> QED BY <3>1
  <2>2. size = 0
    BY <2>1, Sizes DEF Sound
  <2> QED BY <1>4, <2>2 DEF Written
<1>7. FileTypeOK'
  <2>1. <<>> \in Seq(Bytes)
    OBVIOUS
  <2> QED BY <1>1, <1>2, <1>3, <1>5, <2>1 DEF FileTypeOK, Sound
<1>8. Saving'
  <2>1. disk' \o pending' = <<>> /\ Len(<<>>) = 0 /\ <<>> \in Seq(Bytes)
    BY <1>2, <1>3
  <2>2. IsPrefix(<<>>, Saved')
    BY <1>5, EmptyIsPrefix
  <2>3. 0 <= Half
    BY Sizes DEF Sound
  <2>4. Written' \o todo' = Saved'
    BY <1>1, <1>5, <1>6
  <2> QED BY <1>2, <1>3, <1>5, <2>1, <2>2, <2>3, <2>4 DEF Saving
<1>9. Loading'
  BY <1>2 DEF Sound, Loading
<1> QED BY <1>2, <1>4, <1>7, <1>8, <1>9, Promises DEF Sound

LEMMA CannotOpenKeeps ==
  ASSUME Sound, SaveCannotOpen \/ LoadCannotOpen
  PROVE  Sound'
<1>1. /\ call = "none" /\ ignored' = {}
      /\ (answer' = "io" /\ data = NULL) \/ answer' = NULL
      /\ UNCHANGED <<memVars, disk, call, format, last, todo, error, pending, block, length, taken>>
  BY DEF SaveCannotOpen, LoadCannotOpen
<1>2. MemOK' /\ Written' = Written /\ data' = data
  BY <1>1, Untouched DEF Sound
<1>3. FileTypeOK'
  BY <1>1 DEF Sound, FileTypeOK
<1>4. Saving'
  BY <1>1 DEF Sound, Saving, Saved
<1>5. Loading'
  BY <1>1 DEF Sound, Loading
<1>6. answer' \in {"ok", "io"} => data' = NULL
  BY <1>1, <1>2, FileAssumption
<1> QED BY <1>1, <1>2, <1>3, <1>4, <1>5, <1>6, Promises DEF Sound

\* A piece goes from what is still to be written to what was.
LEMMA SerialiseKeeps ==
  ASSUME Sound, Serialise
  PROVE  Sound'
<1>1. /\ call = "serialise" /\ todo # <<>>
      /\ UNCHANGED <<disk, call, format, last, pending, block, length, taken, ignored, answer>>
  BY DEF Serialise
<1>2. /\ disk = <<>> /\ pending = <<>> /\ last \in Formats \X Documents
      /\ IsPrefix(disk \o pending, Saved) /\ Len(disk \o pending) <= Half
      /\ answer = "none" /\ error = "ok" /\ Written \o todo = Saved
  <2>1. <<>> # NULL
    <3>1. <<>> \in Seq(Bytes \cup {Junk})
      OBVIOUS
    <3> QED BY <3>1, MemIOAssumption
  <2> QED BY <1>1, <2>1 DEF Sound, Saving, Loading
<1>3. PICK piece \in Pieces :
        /\ IsPrefix(piece, todo)
        /\ \/ /\ MwWrite(piece)
              /\ todo' = SubSeq(todo, Len(piece) + 1, Len(todo)) /\ UNCHANGED error
           \/ /\ AllocFails /\ MwRefuses(piece)
              /\ todo' = <<>> /\ error' = "io" /\ UNCHANGED memVars
  BY DEF Serialise
<1>4. CASE MwWrite(piece) /\ todo' = SubSeq(todo, Len(piece) + 1, Len(todo)) /\ UNCHANGED error
  <2>1. MemOK' /\ Written' = Written \o piece
    BY <1>4, WriteAppends DEF Sound
  <2>2. /\ piece \in Seq(Bytes) /\ todo \in Seq(Bytes)
        /\ Written \in Seq(Bytes)
    BY MemIOAssumption, WrittenIsSeq DEF Sound, FileTypeOK
  <2>3. todo' \in Seq(Bytes) /\ piece \o todo' = todo
    BY <1>3, <1>4, <2>2, PrefixAndRest
  <2>4. Written' \o todo' = Saved
    <3>1. PICK rest \in Seq(Bytes) : rest = todo'
      BY <2>3
    <3>2. PICK done \in Seq(Bytes) : done = Written
      BY <2>2
    <3>3. (done \o piece) \o rest = done \o (piece \o rest)
      BY SMTT(60), <2>2, ConcatAssociative
    <3> QED BY <1>2, <2>1, <2>3, <3>1, <3>2, <3>3
  <2>5. FileTypeOK'
    BY <1>1, <1>4, <2>3 DEF Sound, FileTypeOK
  <2>6. Saving'
    BY <1>1, <1>2, <1>4, <2>4 DEF Saving, Saved
  <2>7. Loading'
    BY <1>1 DEF Sound, Loading
  <2> QED BY <1>1, <1>2, <2>1, <2>5, <2>6, <2>7, Promises DEF Sound
<1>5. CASE todo' = <<>> /\ error' = "io" /\ UNCHANGED memVars
  <2>1. MemOK'
    BY <1>5, Untouched DEF Sound
  <2>2. FileTypeOK'
    <3>1. <<>> \in Seq(Bytes)
      OBVIOUS
    <3> QED BY <1>1, <1>5, <3>1 DEF Sound, FileTypeOK
  <2>3. Saving'
    BY <1>1, <1>2, <1>5 DEF Saving, Saved
  <2>4. Loading'
    BY <1>1 DEF Sound, Loading
  <2> QED BY <1>1, <1>2, <2>1, <2>2, <2>3, <2>4, Promises DEF Sound
<1> QED BY <1>3, <1>4, <1>5

\* What fwrite took is a beginning of what was written, all of it only if
\* fwrite says so; some of that is in the file, the rest is pending.
LEMMA FWriteKeeps ==
  ASSUME Sound, FWrite
  PROVE  Sound'
<1>1. /\ call = "serialise" /\ todo = <<>> /\ call' = "close"
      /\ UNCHANGED <<memVars, format, last, todo, block, length, taken, ignored, answer>>
  BY DEF FWrite
<1>2. <<>> # NULL
  <2>1. <<>> \in Seq(Bytes \cup {Junk})
    OBVIOUS
  <2> QED BY <2>1, MemIOAssumption
<1>3. /\ disk = <<>> /\ pending = <<>> /\ last \in Formats \X Documents
      /\ IsPrefix(disk \o pending, Saved) /\ Len(disk \o pending) <= Half
      /\ answer = "none" /\ (error = "ok" => Written \o todo = Saved)
  BY <1>1, <1>2 DEF Sound, Saving, Loading
<1>4. MemOK'
  BY <1>1, Untouched DEF Sound
<1>5. Loading'
  BY <1>1 DEF Sound, Loading
<1>6. CASE error = "io" /\ UNCHANGED <<disk, pending, error>>
  <2>1. FileTypeOK'
    BY <1>1, <1>6 DEF Sound, FileTypeOK
  <2>2. Saving'
    BY <1>1, <1>2, <1>3, <1>6 DEF Saving, Saved
  <2> QED BY <1>1, <1>3, <1>4, <1>5, <2>1, <2>2, Promises DEF Sound
<1>7. CASE error = "ok" /\ \E n \in 0 .. size : \E k \in 0 .. n :
             /\ disk' = disk \o SubSeq(Written, 1, k) /\ pending' = SubSeq(Written, k + 1, n)
             /\ error' = WriteResult(n)
  <2>0. PICK n \in 0 .. size : \E k \in 0 .. n :
             /\ disk' = disk \o SubSeq(Written, 1, k) /\ pending' = SubSeq(Written, k + 1, n)
             /\ error' = WriteResult(n)
    BY <1>7
  <2>1. PICK k \in 0 .. n :
             /\ disk' = disk \o SubSeq(Written, 1, k) /\ pending' = SubSeq(Written, k + 1, n)
             /\ error' = WriteResult(n)
    BY <2>0
  <2>2. Written \in Seq(Bytes) /\ Len(Written) = size /\ size \in Nat /\ size <= Half
    BY WrittenIsSeq, Sizes DEF Sound
  <2>3. Written = Saved
    BY <1>1, <1>3, <1>7, <2>2, ConcatEmptySeq
  <2>4. /\ SubSeq(Written, 1, k) \in Seq(Bytes) /\ SubSeq(Written, k + 1, n) \in Seq(Bytes)
        /\ SubSeq(Written, 1, k) \o SubSeq(Written, k + 1, n) = SubSeq(Written, 1, n)
        /\ IsPrefix(SubSeq(Written, 1, n), Written) /\ Len(SubSeq(Written, 1, n)) = n
    <3>1. n \in 0 .. Len(Written) /\ k \in 0 .. Len(Written)
      BY <2>2
    <3> QED BY <2>2, <3>1, Cut
  <2>5. disk' = SubSeq(Written, 1, k)
    BY <1>3, <2>1, <2>4, ConcatEmptySeq
  <2>6. disk' \o pending' = SubSeq(Written, 1, n)
    BY <2>1, <2>4, <2>5
  <2>7. n = size => SubSeq(Written, 1, n) = Written
    BY <2>2, SubSeqFull
  <2>8. error' \in {"ok", "io"} /\ (error' = "ok" => n = size)
    BY <2>1 DEF WriteResult
  <2>9. n <= Half
    <3>1. Half \in Nat
      BY Sizes DEF Sound
    <3> HIDE DEF Half
    <3> QED BY <2>2, <3>1
  <2>10. disk' # NULL
    <3>1. disk' \in Seq(Bytes \cup {Junk})
      BY <2>4, <2>5, SeqMonotonic
    <3> QED BY <3>1, MemIOAssumption
  <2>11. FileTypeOK'
    BY <1>1, <2>1, <2>4, <2>5, <2>8 DEF Sound, FileTypeOK
  <2>12. Saved' = Saved
    BY <1>1 DEF Saved
  <2>13. Saving'
    BY <1>1, <1>3, <2>3, <2>4, <2>6, <2>7, <2>8, <2>9, <2>10, <2>12 DEF Saving
  <2> QED BY <1>1, <1>3, <1>4, <1>5, <2>11, <2>13, Promises DEF Sound
<1>8. size \in 0 .. size
  BY Sizes DEF Sound
<1> QED BY <1>6, <1>7, <1>8 DEF FWrite

\* fclose adds what is pending, or the beginning of it.
LEMMA FCloseKeeps ==
  ASSUME Sound, FClose
  PROVE  Sound'
<1>1. /\ call = "close" /\ MwFinish
      /\ pending' = <<>> /\ call' = "none" /\ answer' = error /\ error' = "ok"
      /\ UNCHANGED <<format, last, todo, block, length, taken>>
  BY DEF FClose
<1>2. /\ disk # NULL /\ disk \in Seq(Bytes) /\ pending \in Seq(Bytes)
      /\ last \in Formats \X Documents /\ Saved \in Seq(Bytes)
      /\ IsPrefix(disk \o pending, Saved) /\ Len(disk \o pending) <= Half
      /\ (error = "ok" => disk \o pending = Saved) /\ error \in {"ok", "io"}
  BY <1>1, SavedIsSeq DEF Sound, FileTypeOK, Saving, Saved
<1>3. PICK rest \in Prefixed(pending) :
        disk' = disk \o rest /\ ignored' = IF rest = pending THEN {} ELSE {"fclose"}
  <2>1. Len(pending) \in 0 .. Len(pending) /\ SubSeq(pending, 1, Len(pending)) = pending
    BY <1>2, SubSeqFull
  <2>2. pending \in Prefixed(pending)
    BY <2>1 DEF Prefixed
  <2> QED BY <2>2 DEF FClose
<1>4. PICK k \in 0 .. Len(pending) : rest = SubSeq(pending, 1, k)
  BY DEF Prefixed
<1>5. /\ rest \in Seq(Bytes) /\ disk' \in Seq(Bytes)
      /\ IsPrefix(disk', disk \o pending) /\ Len(disk') <= Len(disk \o pending)
      /\ disk \o pending \in Seq(Bytes)
  <2>1. rest \in Seq(Bytes)
    BY <1>2, <1>4, Cut
  <2>2. disk \o rest \in Seq(Bytes) /\ disk \o pending \in Seq(Bytes)
    BY <1>2, <2>1, ConcatProperties
  <2>3. IsPrefix(disk \o rest, disk \o pending) /\ Len(disk \o rest) <= Len(disk \o pending)
    BY <1>2, <1>4, PrefixOfConcat
  <2> QED BY <1>3, <2>1, <2>2, <2>3
<1>6. disk' \o pending' = disk'
  BY <1>1, <1>5, ConcatEmptySeq
<1>7. Saved' = Saved
  BY <1>1 DEF Saved
<1>8. IsPrefix(disk', Saved) /\ Len(disk') <= Half
  <2>1. IsPrefix(disk', Saved)
    BY <1>2, <1>5, PrefixTransitive
  <2>2. Len(disk') \in Nat /\ Len(disk \o pending) \in Nat /\ Half \in Nat
    BY <1>5, Sizes DEF Sound
  <2> QED BY <1>2, <1>5, <2>1, <2>2
<1>9. MemOK' /\ data' = NULL
  BY <1>1, FinishEmpties DEF Sound, MwFinish
<1>10. FileTypeOK'
  <2>1. <<>> \in Seq(Bytes)
    OBVIOUS
  <2> QED BY <1>1, <1>5, <2>1 DEF Sound, FileTypeOK
<1>11. Saving'
  BY <1>1, <1>2, <1>6, <1>7, <1>8 DEF Saving
<1>12. Loading'
  BY <1>1 DEF Sound, Loading
<1>13. OkMeansSaved'
  <2>1. ignored' = {} => rest = pending
    BY <1>3
  <2>2. answer' = "ok" /\ ignored' = {} => disk' = Saved
    BY <1>1, <1>2, <1>3, <2>1
  <2> QED BY <1>1, <2>2 DEF OkMeansSaved, Saved
<1>14. LoadsWhatWasSaved'
  BY <1>1, <1>2, FileAssumption DEF LoadsWhatWasSaved
<1> QED BY <1>9, <1>10, <1>11, <1>12, <1>13, <1>14 DEF Sound

-----------------------------------------------------------------------------
\* The invariant of a load.
LEMMA LoadOpenKeeps ==
  ASSUME Sound, LoadOpen
  PROVE  Sound'
<1>1. /\ call = "none" /\ disk # NULL /\ format' \in Formats
      /\ block' = TRUE /\ call' = "fill" /\ answer' = "none"
      /\ UNCHANGED <<memVars, disk, last, todo, error, pending, taken>>
  BY DEF LoadOpen
<1>2. PICK seeks \in BOOLEAN : /\ length' = IF seeks THEN Len(disk) ELSE 0
                               /\ ignored' = IF seeks THEN {} ELSE {"fseek"}
  BY DEF LoadOpen
<1>3. disk \in Seq(Bytes) /\ Len(disk) \in Nat
  BY <1>1 DEF Sound, FileTypeOK
<1>4. length' \in Nat /\ length' <= Len(disk) /\ (ignored' = {} => length' = Len(disk))
  BY <1>2, <1>3
<1>5. MemOK'
  BY <1>1, Untouched DEF Sound
<1>6. FileTypeOK'
  BY <1>1, <1>4 DEF Sound, FileTypeOK
<1>7. Saving'
  BY <1>1 DEF Sound, Saving, Saved
<1>8. Loading'
  BY <1>1, <1>4 DEF Sound, Loading
<1> QED BY <1>1, <1>5, <1>6, <1>7, <1>8, Promises DEF Sound

\* fread fills the memory behind the reader, or the load ends.
LEMMA LoadFillKeeps ==
  ASSUME Sound, LoadFill
  PROVE  Sound'
<1>1. /\ call = "fill"
      /\ length' = IF call' = "none" THEN 0 ELSE length
      /\ UNCHANGED <<disk, format, last, todo, error, pending, taken, ignored>>
  BY DEF LoadFill
<1>2. /\ disk # NULL /\ disk \in Seq(Bytes) /\ length \in Nat /\ length <= Len(disk)
      /\ (ignored = {} => length = Len(disk)) /\ answer = "none" /\ taken = <<>>
      /\ block = TRUE /\ pending = <<>> /\ Len(disk) \in Nat
      /\ error = "ok" /\ last \in Formats \X Documents
      /\ IsPrefix(disk \o pending, Saved) /\ Len(disk \o pending) <= Half
  BY <1>1 DEF Sound, Loading, FileTypeOK, Saving
<1>3. Saved' = Saved
  BY <1>1 DEF Saved
<1>4. Len(disk) <= Half
  BY <1>2, ConcatEmptySeq
<1>5. PICK n \in 0 .. length :
         \/ Enough(n) /\ MrCreate(SubSeq(disk, 1, n)) /\ call' = "parse" /\ UNCHANGED <<block, answer>>
         \/ ~Enough(n) /\ call' = "none" /\ answer' = NULL /\ block' = AfterFree /\ UNCHANGED memVars
  <2>1. length \in 0 .. length
    BY <1>2
  <2>2. (IF FilesFail THEN 0 .. length ELSE {length}) \subseteq 0 .. length
    BY <2>1
  <2>3. PICK n \in IF FilesFail THEN 0 .. length ELSE {length} :
         \/ Enough(n) /\ MrCreate(SubSeq(disk, 1, n)) /\ call' = "parse" /\ UNCHANGED <<block, answer>>
         \/ ~Enough(n) /\ call' = "none" /\ answer' = NULL /\ block' = AfterFree /\ UNCHANGED memVars
    BY DEF LoadFill
  <2> QED BY <2>2, <2>3
<1>6. CASE Enough(n) /\ MrCreate(SubSeq(disk, 1, n)) /\ call' = "parse" /\ UNCHANGED <<block, answer>>
  <2>1. n = length /\ n \in 0 .. Len(disk)
    BY <1>2, <1>6 DEF Enough
  <2>2. SubSeq(disk, 1, n) \in Seq(Bytes) /\ Len(SubSeq(disk, 1, n)) = n
    <3>1. 0 \in 0 .. n
      BY <2>1
    <3> QED BY <1>2, <2>1, <3>1, Cut
  <2>3. n <= Half
    <3>1. Half \in Nat
      BY Sizes DEF Sound
    <3> HIDE DEF Half
    <3> QED BY <1>2, <1>4, <2>1, <3>1
  <2>4. MemOK' /\ input' = SubSeq(disk, 1, length) /\ pos' = 0
    BY <1>6, <2>1, <2>2, <2>3, CreateBegins DEF Sound
  <2>5. FileTypeOK'
    BY <1>1, <1>2, <1>6 DEF Sound, FileTypeOK
  <2>6. Saving'
    BY <1>1, <1>2, <1>3, <1>6 DEF Saving
  <2>7. taken' = SubSeq(input', 1, pos') /\ pos' = Len(taken')
    BY <1>1, <1>2, <2>4, SubSeqEmpty
  <2>8. Loading'
    BY <1>1, <1>2, <1>6, <2>4, <2>7 DEF Loading
  <2> QED BY <1>2, <1>6, <2>4, <2>5, <2>6, <2>8, Promises DEF Sound
<1>7. CASE call' = "none" /\ answer' = NULL /\ block' = AfterFree /\ UNCHANGED memVars
  <2>1. MemOK'
    BY <1>7, Untouched DEF Sound
  <2>2. FileTypeOK'
    BY <1>1, <1>2, <1>7 DEF Sound, FileTypeOK, AfterFree
  <2>3. Saving'
    BY <1>1, <1>2, <1>3, <1>7 DEF Saving
  <2>4. Loading'
    BY <1>1, <1>2, <1>7 DEF Loading, AfterFree
  <2> QED BY <1>7, <2>1, <2>2, <2>3, <2>4, Promises, FileAssumption DEF Sound
<1> QED BY <1>5, <1>6, <1>7

\* A read adds what comes next to what the reader was given.
LEMMA LoadReadKeeps ==
  ASSUME Sound, LoadRead
  PROVE  Sound'
<1>1. /\ call = "parse"
      /\ UNCHANGED <<disk, call, format, last, todo, error, pending, block, length, ignored, answer>>
  BY DEF LoadRead
<1>2. PICK n \in ReadSizes : MrRead(n) /\ taken' = taken \o got'
  BY DEF LoadRead
<1>3. MemOK' /\ UNCHANGED input /\ pos' \in pos .. Len(input) /\ got' = SubSeq(input, pos + 1, pos')
  BY <1>2, ReadTakes DEF Sound
<1>4. /\ disk # NULL /\ input = SubSeq(disk, 1, length) /\ pos = Len(taken)
      /\ taken = SubSeq(input, 1, pos) /\ answer = "none" /\ pending = <<>> /\ error = "ok"
  BY <1>1 DEF Sound, Loading, Saving
<1>5. input \in Seq(Bytes) /\ pos' \in 0 .. Len(input) /\ pos \in 0 .. pos'
  BY <1>3, Sizes DEF Sound
<1>6. /\ taken' = SubSeq(input, 1, pos') /\ taken' \in Seq(Bytes) /\ Len(taken') = pos'
  <2>1. /\ SubSeq(input, 1, pos') \in Seq(Bytes) /\ Len(SubSeq(input, 1, pos')) = pos'
        /\ SubSeq(input, 1, pos) \o SubSeq(input, pos + 1, pos') = SubSeq(input, 1, pos')
    <3>1. PICK p \in 0 .. Len(input) : p = pos'
      BY <1>5
    <3>2. pos \in 0 .. p
      BY <1>5, <3>1
    <3> QED BY ZenonT(60), <1>5, <3>1, <3>2, Cut
  <2> QED BY <1>2, <1>3, <1>4, <2>1
<1>7. FileTypeOK'
  BY <1>1, <1>6 DEF Sound, FileTypeOK
<1>8. Saving'
  BY <1>1 DEF Sound, Saving, Saved
<1>9. Loading'
  BY <1>1, <1>3, <1>4, <1>6 DEF Sound, Loading
<1> QED BY <1>1, <1>3, <1>4, <1>7, <1>8, <1>9, Promises DEF Sound

\* What is read as a document of the binary format is the document that was
\* saved: the bytes that were read are the beginning of the file, and the file
\* is the beginning of what was saved.
LEMMA BinaryIsSaved ==
  ASSUME NEW bytes \in Seq(Bytes), NEW l \in Formats \X Documents,
         IsPrefix(bytes, Whole(l[1], l[2])),
         NEW d \in Documents, Whole("binary", d) = bytes
  PROVE  l[1] = "binary" /\ Reads["binary"][l[2]] = Reads["binary"][d]
<1>1. PICK f \in Formats, e \in Documents : l = <<f, e>>
  OBVIOUS
<1>2. IsPrefix(Whole("binary", d), Whole(f, e))
  BY <1>1
<1>3. f = "binary"
  BY <1>2, FileAssumption DEF Formats
<1>4. Whole("binary", d) = Whole("binary", e)
  BY <1>2, <1>3, FileAssumption
<1>5. Reads["binary"][d] = Reads["binary"][e]
  BY <1>4, FileAssumption DEF Formats
<1> QED BY <1>1, <1>3, <1>5

LEMMA TextIsSaved ==
  ASSUME NEW l \in Formats \X Documents, l[1] = "text",
         NEW a \in Parsed("text", Whole("text", l[2]))
  PROVE  a = Reads["text"][l[2]]
<1>1. l[2] \in {d \in Documents : Whole("text", d) = Whole("text", l[2])}
  OBVIOUS
<1>2. PICK d \in Documents : Whole("text", d) = Whole("text", l[2]) /\ a = Reads["text"][d]
  BY <1>1 DEF Parsed
<1> QED BY <1>2, FileAssumption DEF Formats

LEMMA LoadReturnKeeps ==
  ASSUME Sound, LoadReturn
  PROVE  Sound'
<1>1. /\ call = "parse" /\ call' = "none" /\ block' = FALSE
      /\ MrCreate(<<>>) /\ length' = 0 /\ taken' = <<>>
      /\ UNCHANGED <<disk, format, last, todo, error, pending, ignored>>
  BY DEF LoadReturn
<1>2. \/ answer' = NULL
      \/ (format = "binary" \/ pos = Len(input)) /\ answer' \in Parsed(format, taken)
  BY DEF LoadReturn
<1>3. /\ disk # NULL /\ disk \in Seq(Bytes) /\ length \in Nat /\ length <= Len(disk)
      /\ ignored = {} => length = Len(disk)
      /\ input = SubSeq(disk, 1, length) /\ pos = Len(taken) /\ taken = SubSeq(input, 1, pos)
      /\ pending = <<>> /\ error = "ok" /\ last \in Formats \X Documents
      /\ IsPrefix(disk \o pending, Saved) /\ Len(disk \o pending) <= Half
      /\ format \in Formats
  BY <1>1 DEF Sound, Loading, FileTypeOK, Saving
<1>4. MemOK'
  <2>1. <<>> \in Seq(Bytes) /\ Len(<<>>) <= Half
    <3>1. Half \in Nat
      BY Sizes DEF Sound
    <3> HIDE DEF Half
    <3> QED BY <3>1
  <2> QED BY <1>1, <2>1, CreateBegins DEF Sound
<1>5. FileTypeOK'
  <2>1. <<>> \in Seq(Bytes)
    OBVIOUS
  <2> QED BY <1>1, <2>1 DEF Sound, FileTypeOK
<1>6. Saving'
  BY <1>1 DEF Sound, Saving, Saved
<1>7. Loading'
  BY <1>1 DEF Loading
<1>8. answer' \in Documents \cup {Other, NULL}
  BY <1>2, <1>3, FileAssumption DEF Parsed
<1>9. answer' \notin {"ok", "io"}
  BY <1>8, FileAssumption
<1>10. OkMeansSaved'
  BY <1>9 DEF OkMeansSaved
<1>11. LoadsWhatWasSaved'
  <2> SUFFICES ASSUME answer' \in Documents \cup {Other}, ignored' = {},
                      format = "binary" \/ (format = last[1] /\ disk = Whole(last[1], last[2]))
               PROVE  last[1] = format /\ answer' = Reads[format][last[2]]
    BY <1>1, <1>3 DEF LoadsWhatWasSaved
  <2>1. answer' \in Parsed(format, taken) /\ (format = "binary" \/ pos = Len(input))
    BY <1>2, FileAssumption
  <2>2. input = disk
    BY <1>1, <1>3, SubSeqFull
  <2>3. pos \in 0 .. Len(disk)
    BY <2>2, Sizes DEF Sound
  <2>4. taken \in Seq(Bytes) /\ IsPrefix(taken, disk)
    <3>1. PICK n \in 0 .. Len(disk) : n = pos
      BY <2>3
    <3>2. n \in 0 .. n
      BY <1>3
    <3>3. SubSeq(disk, 1, n) \in Seq(Bytes) /\ IsPrefix(SubSeq(disk, 1, n), disk)
      BY <1>3, <3>1, <3>2, Cut
    <3> QED BY <1>3, <2>2, <3>1, <3>3
  <2>5. CASE format = "binary"
    <3>1. \E d \in Documents : answer' = Reads["binary"][d] /\ Whole("binary", d) = taken
      BY <2>1, <2>5, FileAssumption DEF Parsed
    <3>2. IsPrefix(taken, Saved)
      <4>1. IsPrefix(disk, Saved) /\ Saved \in Seq(Bytes)
        BY <1>3, ConcatEmptySeq, SavedIsSeq DEF Saved
      <4> QED BY <1>3, <2>4, <4>1, PrefixTransitive
    <3>3. PICK d \in Documents : answer' = Reads["binary"][d] /\ Whole("binary", d) = taken
      BY <3>1
    <3> QED BY <1>3, <2>4, <2>5, <3>2, <3>3, BinaryIsSaved DEF Saved
  <2>6. CASE format # "binary"
    <3>1. format = "text" /\ last[1] = "text" /\ disk = Whole("text", last[2])
      BY <1>3, <2>6 DEF Formats
    <3>2. taken = disk
      BY <1>3, <2>1, <2>2, <2>6, SubSeqFull
    <3>3. PICK a \in Parsed("text", Whole("text", last[2])) : a = answer'
      BY <2>1, <3>1, <3>2
    <3> QED BY <1>3, <3>1, <3>3, TextIsSaved
  <2> QED BY <2>5, <2>6
<1> QED BY <1>4, <1>5, <1>6, <1>7, <1>9, <1>10, <1>11 DEF Sound

\* What a crash leaves of the file is what was in it.
LEMMA CrashKeeps ==
  ASSUME Sound, Crash
  PROVE  Sound'
<1>1. /\ MemCrash /\ call' = "none" /\ todo' = <<>> /\ error' = "ok" /\ pending' = <<>>
      /\ block' = FALSE /\ length' = 0 /\ taken' = <<>> /\ ignored' = {} /\ answer' = "none"
      /\ UNCHANGED <<disk, format, last>>
  BY DEF Crash
<1>2. MemOK'
  BY <1>1, CrashEmpties
<1>3. FileTypeOK'
  <2>1. <<>> \in Seq(Bytes)
    OBVIOUS
  <2> QED BY <1>1, <2>1 DEF Sound, FileTypeOK
<1>4. Saved' = Saved
  BY <1>1 DEF Saved
<1>5. ASSUME disk # NULL
      PROVE  /\ last \in Formats \X Documents
             /\ IsPrefix(disk \o <<>>, Saved) /\ Len(disk \o <<>>) <= Half
  <2>1. /\ disk \in Seq(Bytes) /\ pending \in Seq(Bytes) /\ last \in Formats \X Documents
        /\ IsPrefix(disk \o pending, Saved) /\ Len(disk \o pending) <= Half
    BY <1>5 DEF Sound, FileTypeOK, Saving
  <2>2. disk \o <<>> = disk /\ disk \o pending \in Seq(Bytes) /\ Saved \in Seq(Bytes)
    BY <2>1, ConcatEmptySeq, ConcatProperties, SavedIsSeq DEF Saved
  <2>3. IsPrefix(disk, disk \o pending)
    <3>1. 0 \in 0 .. Len(pending)
      BY <2>1
    <3> QED BY <2>1, <3>1, PrefixOfConcat
  <2>4. Len(disk) <= Len(disk \o pending)
    BY <2>3 DEF IsPrefix
  <2>5. Len(disk) \in Nat /\ Len(disk \o pending) \in Nat /\ Half \in Nat
    BY <2>1, <2>2, Sizes DEF Sound
  <2>6. Len(disk) <= Half
    <3> HIDE DEF Half
    <3> QED BY <2>1, <2>4, <2>5
  <2> QED BY <2>1, <2>2, <2>3, <2>6, PrefixTransitive
<1>6. Saving'
  BY <1>1, <1>4, <1>5 DEF Saving
<1>7. Loading'
  BY <1>1 DEF Loading
<1> QED BY <1>1, <1>2, <1>3, <1>6, <1>7, Promises DEF Sound

-----------------------------------------------------------------------------
LEMMA StepKeeps ==
  ASSUME IndInv, [Next]_vars
  PROVE  IndInv'
<1> USE SoundBefore
<1>1. CASE UNCHANGED vars
  <2>1. /\ UNCHANGED memVars
        /\ UNCHANGED <<disk, call, format, last, todo, error, pending, block, length, taken,
                       ignored, answer>>
    BY <1>1 DEF vars, fileVars
  <2>2. MemOK' /\ Written' = Written /\ UNCHANGED <<data, size, capacity, input, pos, got>>
    BY <2>1, Untouched DEF Sound
  <2>3. FileTypeOK' /\ Saving' /\ Loading'
    BY <2>1, <2>2 DEF Sound, FileTypeOK, Saving, Saved, Loading
  <2>4. OkMeansSaved' /\ LoadsWhatWasSaved' /\ FileIsPrefix' /\ NothingKept'
    BY <2>1, <2>2 DEF IndInv, OkMeansSaved, LoadsWhatWasSaved, FileIsPrefix, NothingKept
  <2> QED BY <2>2, <2>3, <2>4 DEF IndInv, MemOK
<1>2. CASE Next
  <2>1. Sound'
    BY <1>2, UseStreamsKeeps, SaveOpenKeeps, CannotOpenKeeps, SerialiseKeeps, FWriteKeeps,
       FCloseKeeps, LoadOpenKeeps, LoadFillKeeps, LoadReadKeeps, LoadReturnKeeps, CrashKeeps
       DEF Next
  <2>2. FileIsPrefix'
    <3>1. ASSUME disk' # NULL  PROVE IsPrefix(disk', Saved')
      <4>1. /\ disk' \in Seq(Bytes) /\ pending' \in Seq(Bytes)
            /\ last' \in Formats \X Documents /\ IsPrefix(disk' \o pending', Saved')
        BY <2>1, <3>1 DEF Sound, FileTypeOK, Saving
      <4>2. Saved' \in Seq(Bytes)
        BY <4>1, SavedIsSeq DEF Saved
      <4>3. disk' \o pending' \in Seq(Bytes) /\ IsPrefix(disk', disk' \o pending')
        <5>1. 0 \in 0 .. Len(pending')
          BY <4>1
        <5> QED BY <4>1, <5>1, ConcatProperties, PrefixOfConcat
      <4> QED BY <4>1, <4>2, <4>3, PrefixTransitive
    <3> QED BY <3>1 DEF FileIsPrefix, Saved
  <2>3. NothingKept'
    BY <2>1 DEF Sound, NothingKept, Saving, Loading
  <2> QED BY <2>1, <2>2, <2>3 DEF IndInv, Sound, MemOK
<1> QED BY <1>1, <1>2

\* The invariant holds for every set of documents, every way to cut them into
\* pieces and every pattern of failures and crashes (kdf_io.c, and the save and
\* load functions of kdf_binary_writer.c, kdf_binary_reader.c and of the text form).
THEOREM SavesAreSound == Spec => []IndInv
<1>1. IndInv /\ [Next]_vars => IndInv'
  BY StepKeeps
<1> QED BY <1>1, StartsIn, PTL DEF Spec

\* KDF_OK says that the file holds the document, unless fclose failed.
THEOREM SavedWhenOk == Spec => []OkMeansSaved
<1>1. IndInv => OkMeansSaved
  BY DEF IndInv
<1> QED BY <1>1, SavesAreSound, PTL

\* The file is the beginning of what was saved last, at any time and after any
\* failure or crash.
THEOREM FileStaysPrefix == Spec => []FileIsPrefix
<1>1. IndInv => FileIsPrefix
  BY DEF IndInv
<1> QED BY <1>1, SavesAreSound, PTL

\* A load never answers with anything but what the reader of the format makes
\* of the document saved last: the binary format whatever happened to the file,
\* text when the file is whole.
THEOREM LoadsTheSaved == Spec => []LoadsWhatWasSaved
<1>1. IndInv => LoadsWhatWasSaved
  BY DEF IndInv
<1> QED BY <1>1, SavesAreSound, PTL

\* Save and load give back the writer's buffer, the block and what stdio holds
\* on every way out.
THEOREM NothingStays == Spec => []NothingKept
<1>1. IndInv => NothingKept
  BY DEF IndInv
<1> QED BY <1>1, SavesAreSound, PTL

-----------------------------------------------------------------------------
\* Each step of a memory stream is a step of the stream of bytes.
LEMMA WriteIsWrite ==
  ASSUME MemOK, NEW piece \in Pieces, MwWrite(piece)
  PROVE  Stream!Next
<1>1. Written' = Written \o piece /\ UNCHANGED <<input, pos, got>>
  BY WriteAppends DEF MwWrite, reader
<1>2. Stream!Write(piece)
  BY <1>1 DEF Stream!Write
<1> QED BY <1>2 DEF Stream!Next

LEMMA FinishIsDiscard ==
  ASSUME MemOK, MwFinish
  PROVE  Stream!Next
<1>1. Written' = <<>> /\ UNCHANGED <<input, pos, got>>
  BY FinishEmpties DEF MwFinish, reader
<1> QED BY <1>1 DEF Stream!Discard, Stream!Next

LEMMA CreateIsAttach ==
  ASSUME MemOK, NEW bytes, MrCreate(bytes)
  PROVE  Stream!Next
<1>1. UNCHANGED <<data, size, capacity>> /\ pos' = 0 /\ got' = <<>>
  BY DEF MrCreate, writer
<1>2. Written' = Written
  BY <1>1 DEF Written, ByteAt
<1> QED BY <1>1, <1>2 DEF Stream!Attach, Stream!Next

LEMMA ReadIsTake ==
  ASSUME MemOK, NEW n \in ReadSizes, MrRead(n)
  PROVE  Stream!Next
<1>1. Stream!Take(n)
  BY ReadTakes DEF Stream!Take
<1> QED BY <1>1 DEF Stream!Next

LEMMA SeekIsJump ==
  ASSUME MemOK, NEW offset \in Offsets, NEW origin \in Origins, MrSeek(offset, origin)
  PROVE  Stream!Next
<1>1. Stream!Jump(offset)
  BY SeekJumps DEF Stream!Jump
<1> QED BY <1>1 DEF Stream!Next

LEMMA CrashIsLost ==
  ASSUME MemCrash
  PROVE  Stream!Next
<1>1. Stream!Lost
  BY CrashEmpties DEF Stream!Lost, Stream!Init
<1> QED BY <1>1 DEF Stream!Next

LEMMA UntouchedIsStutter ==
  ASSUME MemOK, UNCHANGED memVars
  PROVE  UNCHANGED Stream!vars
BY Untouched DEF Stream!vars

LEMMA StepIsStreamStep ==
  ASSUME IndInv, [Next]_vars
  PROVE  [Stream!Next]_(Stream!vars)
<1>1. MemOK
  BY SoundBefore DEF Sound
<1>2. CASE UseStreams
  <2>1. MemNext
    BY <1>2 DEF UseStreams
  <2>2. ASSUME NEW piece \in Pieces, MwWrite(piece)  PROVE Stream!Next
    BY <1>1, <2>2, WriteIsWrite
  <2>3. ASSUME NEW n \in ReadSizes, MrRead(n)  PROVE Stream!Next
    BY <1>1, <2>3, ReadIsTake
  <2>4. ASSUME NEW offset \in Offsets, NEW origin \in Origins, MrSeek(offset, origin)
        PROVE  Stream!Next
    BY <1>1, <2>4, SeekIsJump
  <2> QED BY <1>1, <2>1, <2>2, <2>3, <2>4, FinishIsDiscard, CreateIsAttach, CrashIsLost DEF MemNext
<1>3. CASE SaveOpen \/ SaveCannotOpen \/ FWrite \/ LoadOpen \/ LoadCannotOpen \/ UNCHANGED vars
  <2>1. UNCHANGED memVars
    BY <1>3 DEF SaveOpen, SaveCannotOpen, FWrite, LoadOpen, LoadCannotOpen, vars
  <2> QED BY <1>1, <2>1, UntouchedIsStutter
<1>4. CASE Serialise
  <2>1. PICK piece \in Pieces : MwWrite(piece) \/ UNCHANGED memVars
    BY <1>4 DEF Serialise
  <2> QED BY <1>1, <2>1, WriteIsWrite, UntouchedIsStutter
<1>5. CASE FClose
  BY <1>1, <1>5, FinishIsDiscard DEF FClose
<1>6. CASE LoadFill
  <2>1. (\E n : MrCreate(SubSeq(disk, 1, n))) \/ UNCHANGED memVars
    BY <1>6 DEF LoadFill
  <2> QED BY <1>1, <2>1, CreateIsAttach, UntouchedIsStutter
<1>7. CASE LoadRead
  BY <1>1, <1>7, ReadIsTake DEF LoadRead
<1>8. CASE LoadReturn
  BY <1>1, <1>8, CreateIsAttach DEF LoadReturn
<1>9. CASE Crash
  BY <1>9, CrashIsLost DEF Crash
<1> QED BY <1>2, <1>3, <1>4, <1>5, <1>6, <1>7, <1>8, <1>9 DEF Next

\* The memory streams do what kdf_io.h promises, in a caller's hands as in those
\* of save and load, over any growth of the buffer and any overflow of a seek.
THEOREM StreamsImplemented == Spec => ImplementsStream
<1>1. Init => Stream!Init
  <2> SUFFICES ASSUME Init  PROVE Stream!Init
    OBVIOUS
  <2>1. Written = <<>>
    BY DEF Init, MemInit, Written
  <2> QED BY <2>1 DEF Init, MemInit, Stream!Init
<1>2. IndInv /\ [Next]_vars => [Stream!Next]_(Stream!vars)
  BY StepIsStreamStep
<1> QED BY <1>1, <1>2, SavesAreSound, PTL DEF Spec, ImplementsStream, Stream!Spec
=============================================================================
