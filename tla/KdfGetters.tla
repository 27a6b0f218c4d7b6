----------------------------- MODULE KdfGetters -----------------------------
(***************************************************************************)
(* The typed getters of a property and the coercions behind them           *)
(* (src/src/kdf_value.c:5-159, src/src/kdf_object.c:376-407), with         *)
(* integers of Width bits in two's complement and floats of a finite set   *)
(* that has gaps between large numbers.  All numbers are counted in        *)
(* halves, so that the floats have fractions.                              *)
(***************************************************************************)
EXTENDS Integers

CONSTANTS
  Width,           \* bits of int64_t and uint64_t
  Floats,          \* the doubles, in halves
  Texts,           \* contents of strings
  Opaque,          \* the types no getter of this module reads: vectors, ...
  Missing          \* no property, or a null string pointer

Modulus == 2 ^ Width
Ints    == {2 * i : i \in -(Modulus \div 2) .. (Modulus \div 2) - 1}
Uints   == {2 * i : i \in 0 .. Modulus - 1}

Values == [type : {"bool"}, as : BOOLEAN] \cup [type : {"int"}, as : Ints]
            \cup [type : {"uint"}, as : Uints] \cup [type : {"float"}, as : Floats]
            \cup [type : {"string"}, as : Texts \cup {Missing}]
            \cup [type : Opaque, as : {Missing}]

\* 0.0, 1.0 and -1.0 are floats.  (Modulus is a power of two; what is written
\* here is what a prover has to be told of it.)
ASSUME GettersAssumption ==
  /\ Modulus \in Nat /\ Modulus >= 4 /\ Modulus % 2 = 0
  /\ Floats \subseteq Int /\ {0, 2, -2} \subseteq Floats
  /\ Opaque \cap {"bool", "int", "uint", "float", "string"} = {}

-----------------------------------------------------------------------------
\* The C conversions.  Each is the set of results a build can give: a float
\* beyond the range of an integer type converts to anything, and an integer
\* half-way between two floats may become either.
Wrapped(x)  == x % (2 * Modulus)
Signed(x)   == IF Wrapped(x) >= Modulus THEN Wrapped(x) - 2 * Modulus ELSE Wrapped(x)
Whole(x)    == IF x >= 0 THEN x - (x % 2) ELSE -((-x) - ((-x) % 2))
TruncatedTo(S, x) == IF Whole(x) \in S THEN {Whole(x)} ELSE S
Gap(x, y)   == IF x > y THEN x - y ELSE y - x
Nearest(x)  == {f \in Floats : \A g \in Floats : Gap(f, x) <= Gap(g, x)}

FromBool(b) == IF b THEN 2 ELSE 0

\* kdf_val_as_bool
AsBool(v) == IF v.type = "bool" THEN {v.as}
             ELSE IF v.type \in {"int", "uint", "float"} THEN {v.as # 0} ELSE {FALSE}

\* kdf_val_as_int
\* Mutated form: an unsigned value too large is cut off.
AsIntCut(v) == IF v.type = "int" THEN {v.as}
               ELSE IF v.type = "uint" THEN {IF v.as < Modulus THEN v.as ELSE Modulus - 2}
               ELSE IF v.type = "float" THEN TruncatedTo(Ints, v.as)
               ELSE IF v.type = "bool" THEN {FromBool(v.as)} ELSE {0}
AsInt(v) == IF v.type = "int" THEN {v.as}
            ELSE IF v.type = "uint" THEN {Signed(v.as)}
            ELSE IF v.type = "float" THEN TruncatedTo(Ints, v.as)
            ELSE IF v.type = "bool" THEN {FromBool(v.as)} ELSE {0}

\* kdf_val_as_uint
AsUint(v) == IF v.type = "uint" THEN {v.as}
             ELSE IF v.type = "int" THEN {Wrapped(v.as)}
             ELSE IF v.type = "float" THEN TruncatedTo(Uints, v.as)
             ELSE IF v.type = "bool" THEN {FromBool(v.as)} ELSE {0}

\* kdf_val_as_float
\* Mutated form: booleans are not numbers.
AsFloatNoBool(v) == IF v.type = "float" THEN {v.as}
                    ELSE IF v.type \in {"int", "uint"} THEN Nearest(v.as) ELSE {0}
AsFloat(v) == IF v.type = "float" THEN {v.as}
              ELSE IF v.type \in {"int", "uint"} THEN Nearest(v.as)
              ELSE IF v.type = "bool" THEN {FromBool(v.as)} ELSE {0}

\* kdf_val_as_string
AsString(v) == IF v.type = "string" THEN {v.as} ELSE {Missing}

-----------------------------------------------------------------------------
VARIABLE prop       \* the property, or Missing

GettersInit == prop = Missing

\* Any setter of kdf_object, and kdf_obj_remove.  The getters change nothing.
Set(v) == prop' = v
Unset  == prop' = Missing

GettersNext == Unset \/ \E v \in Values : Set(v)
GettersSpec == GettersInit /\ [][GettersNext]_prop

-----------------------------------------------------------------------------
\* The two integer coercions make the same machine word of any value: a signed
\* integer wraps on the way to unsigned, an unsigned one on the way to signed,
\* and a float is cut off towards zero by both, if it is in the range of both
\* (kdf_value.c:34-70).
IntegersAgree ==
  prop # Missing /\ (prop.type = "float" => Whole(prop.as) \in Ints \cap Uints) =>
    \A i \in AsInt(prop), u \in AsUint(prop) : Wrapped(i) = u

\* A property is true exactly if its number is not zero: no rounding takes a
\* number to zero, and every type that has a truth value has a number
\* (kdf_value.c:15-32, 72-89).
TruthIsNonZero ==
  prop # Missing => \A b \in AsBool(prop), f \in AsFloat(prop) : b <=> f # 0
=============================================================================
