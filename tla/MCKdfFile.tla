------------------------------ MODULE MCKdfFile ------------------------------
(* Documents for KdfFile.  d1 and d3 have the same text, which comes back as    *)
(* d1, and is the beginning of the text of d2.  A write of four bytes makes the *)
(* buffer double twice at once.  Word size 4: a seek of 7 from behind the first *)
(* byte overflows.                                                              *)
EXTENDS KdfFile

MCBytesOf ==
  [binary |-> [d1 |-> <<"m", "p">>, d2 |-> <<"m", "q", "r", "r", "p">>, d3 |-> <<"m", "r">>],
   text   |-> [d1 |-> <<"p">>,      d2 |-> <<"p", "q", "r", "r", "p">>, d3 |-> <<"p">>]]
MCReads ==
  [f \in Formats |-> [d \in Documents |-> IF f = "text" /\ d = "d3" THEN "d1" ELSE d]]
\* Bound: one byte or four are written at a time.
MCPieces == {<<b>> : b \in Bytes} \cup
  {<<"m", "q", "r", "r">>, <<"q", "r", "r", "p">>, <<"p", "q", "r", "r">>}

MCOffsets == {-8, -1, 0, 1, 3, 7}

\* Bound: what the caller puts into its own writer.
MaxSize == 2
Bounded == call = "none" => size <= MaxSize
=============================================================================
