---------------------------- MODULE MCKdfStrings ----------------------------
(* A small instance of KdfStrings: two slots, two texts with the same hash    *)
(* value (a and b), a third in their slot with another one, a fourth alone.   *)
(* Integers have two bits; 3 lies half-way between the floats 2 and 4, which  *)
(* is beyond both ranges, and -1/2 and 1/2 have fractions.                    *)
EXTENDS KdfStrings

MCHash == [s \in Contents |-> CASE s \in {"a", "b"} -> 2 [] s = "c" -> 4 [] s = "d" -> 3]
MCFloats == {0, 1, -1, 2, -2, 4, -4, 8, -8}
=============================================================================
