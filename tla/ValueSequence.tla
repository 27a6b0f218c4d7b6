---------------------------- MODULE ValueSequence ----------------------------
(***************************************************************************)
(* What a kdf_array promises its caller (src/include/kdf/kdf_array.h): a   *)
(* sequence of values that grows at its end and closes up where an element *)
(* is taken out, and whose child containers belong to one element only.    *)
(***************************************************************************)
EXTENDS Naturals, Sequences

CONSTANTS Values, Owned(_)

VARIABLES list,   \* the elements
          open    \* FALSE once the array was destroyed
sequenceVars == <<list, open>>

FreshChild(s, v) == \A i \in 1 .. Len(s) : Owned(v) \cap Owned(s[i]) = {}
Without(s, i) == [j \in 1 .. Len(s) - 1 |-> IF j < i THEN s[j] ELSE s[j + 1]]

Initial == list = <<>> /\ open = TRUE

Add(V) == /\ open = TRUE
          /\ \E v \in V : FreshChild(list, v) /\ list' = Append(list, v)
          /\ UNCHANGED open

TakeOut(i) == open = TRUE /\ list' = Without(list, i) /\ UNCHANGED open

Empty == open = TRUE /\ list' = <<>> /\ UNCHANGED open
Close == open = TRUE /\ list' = <<>> /\ open' = FALSE

SequenceNext == Add(Values) \/ (\E i \in 1 .. Len(list) : TakeOut(i)) \/ Empty \/ Close

SequenceSpec == Initial /\ [][SequenceNext]_sequenceVars
=============================================================================
