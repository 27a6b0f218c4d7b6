------------------------------ MODULE KdfNumber ------------------------------
(***************************************************************************)
(* Numbers in the text form: how kdf_text_writer.c prints them and how     *)
(* parser_read_number reads them back, on sequences of characters.         *)
(*                                                                         *)
(* Integers have Width bits.  A float is its decimal notation: sign, whole *)
(* part, digits of the fraction without trailing zeros, exponent.  What is *)
(* lost in the last bits of a conversion is left out; what the notation    *)
(* makes of the type of a number is not.                                   *)
(***************************************************************************)
EXTENDS Integers, SequencesExt

CONSTANT Width      \* of an integer

Digits == <<"0", "1", "2", "3", "4", "5", "6", "7", "8", "9">>
IsDigit(c) == c \in Range(Digits)
DigitOf(c) == (CHOOSE i \in DOMAIN Digits : Digits[i] = c) - 1

Half == 2 ^ (Width - 1)

\* (Half is a power of two; what is written here is what a prover has to be
\* told of it.)
ASSUME NumberAssumption == Width \in Nat \ {0} /\ Half \in Nat \ {0}

EOF == ""           \* p->cur at the end of the stream or after an I/O error
CharAt(s, i) == IF i \in DOMAIN s THEN s[i] ELSE EOF

\* What a reading operator returns when the code reports KDF_ERROR_PARSE;
\* otherwise .val is what was read and .end where the next character is.
Bad == [end |-> 0]
Read(end, val) == [end |-> end, val |-> val]

IntVal(n)  == [type |-> "int", n |-> n]
UintVal(n) == [type |-> "uint", n |-> n]
FloatVal(x) == [type |-> "float", x |-> x]
Decimal(neg, whole, frac, exp) == [neg |-> neg, whole |-> whole, frac |-> frac, exp |-> exp]
NotFinite == -1     \* the whole part of an infinity

Ints  == -Half .. Half - 1
Uints == 0 .. 2 * Half - 1
Decimals == [neg : BOOLEAN, whole : 0 .. Half - 1 \cup {NotFinite}, frac : Seq(Range(Digits)),
             exp : -(Half - 1) .. Half - 1]
Signed(n)   == ((n + Half) % (2 * Half)) - Half
Unsigned(n) == n % (2 * Half)

-----------------------------------------------------------------------------
Printed[n \in Nat] == (IF n < 10 THEN <<>> ELSE Printed[n \div 10]) \o <<Digits[(n % 10) + 1]>>

\* tw_int64, and tw_uint64 with its suffix.
IntText(n)  == IF n < 0 THEN <<"-">> \o Printed[-n] ELSE Printed[n]
UintText(n) == Printed[n] \o <<"u">>

\* tw_float (%.17g, %.6g in a float list): no point without a fraction, an
\* exponent of at least two digits only when it is needed.
ExpText(e) == <<"e", IF e < 0 THEN "-" ELSE "+">>
  \o (IF e \in -9 .. 9 THEN <<"0">> ELSE <<>>) \o Printed[IF e < 0 THEN -e ELSE e]
FloatText(x) ==
  (IF x.neg THEN <<"-">> ELSE <<>>)
  \o (IF x.whole = NotFinite THEN <<"inf">> ELSE Printed[x.whole])
  \o (IF x.frac = <<>> THEN <<>> ELSE <<".">> \o x.frac)
  \o (IF x.exp = 0 THEN <<>> ELSE ExpText(x.exp))

NumberText(v) ==
  CASE v.type = "int"   -> IntText(v.n)
    [] v.type = "uint"  -> UintText(v.n)
    [] v.type = "float" -> FloatText(v.x)

-----------------------------------------------------------------------------
\* Where a run of digits ends that begins at i.
DigitsEnd(s, i) == CHOOSE j \in i .. Len(s) + 1 :
  ~IsDigit(CharAt(s, j)) /\ \A k \in i .. j - 1 : IsDigit(s[k])

\* int_val = int_val * 10 + digit, in int64.  The overflow, which C leaves
\* open, wraps around in the builds of the repository.  Mutated form: the
\* value stops at the largest one.
ShiftedStops(n, d) == IF n * 10 + DigitOf(d) \in Ints THEN n * 10 + DigitOf(d) ELSE Half - 1
Shifted(n, d) == Signed(n * 10 + DigitOf(d))
Accumulated(ds) ==
  LET upTo[i \in 0 .. Len(ds)] == IF i = 0 THEN 0 ELSE Shifted(upTo[i - 1], ds[i])
  IN  upTo[Len(ds)]

\* The exponent, which may be empty after the e.
ReadExponent(s, i) ==
  IF CharAt(s, i) \notin {"e", "E"} THEN Read(i, 0)
  ELSE LET from == IF CharAt(s, i + 1) \in {"-", "+"} THEN i + 2 ELSE i + 1
           to   == DigitsEnd(s, from)
           exp  == Accumulated(SubSeq(s, from, to - 1))
       IN Read(to, IF CharAt(s, i + 1) = "-" THEN -exp ELSE exp)

\* parser_read_number: an exponent is looked for after a point only.
ReadNumber(s, i) ==
  LET neg  == CharAt(s, i) = "-"
      from == IF neg THEN i + 1 ELSE i
      to   == DigitsEnd(s, from)
      int  == Accumulated(SubSeq(s, from, to - 1))
      fracEnd == DigitsEnd(s, to + 1)
      exp  == ReadExponent(s, fracEnd)
  IN CASE to = from -> Bad
       [] to > from /\ CharAt(s, to) \in {"u", "U"} ->
            Read(to + 1, UintVal(Unsigned(IF neg THEN -int ELSE int)))
       [] to > from /\ CharAt(s, to) = "." ->
            Read(exp.end, FloatVal(Decimal(neg, int, SubSeq(s, to + 1, fracEnd - 1), exp.val)))
       [] OTHER -> Read(to, IntVal(Signed(IF neg THEN -int ELSE int)))

\* kdf_val_as_float, for the components of a vector.
AsFloat(v) ==
  IF v.type = "float" THEN v.x
  ELSE Decimal(v.n < 0, IF v.n < 0 THEN -v.n ELSE v.n, <<>>, 0)

\* The number that comes back from the text of another one: the same integer;
\* a float without a fraction comes back as an integer.
Reread(v) ==
  IF v.type = "float" /\ v.x.frac = <<>> /\ v.x.exp = 0
  THEN IntVal(IF v.x.neg THEN -v.x.whole ELSE v.x.whole) ELSE v

\* parser_read_number takes in all of the text (of a float: not of an infinity,
\* nor of an exponent that follows no point).
WholeTextIsNumber(v) ==
  v.type # "float" \/ (v.x.whole # NotFinite /\ (v.x.frac = <<>> => v.x.exp = 0))
=============================================================================
