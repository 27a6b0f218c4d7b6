---------------------------- MODULE MCKdfDocument ----------------------------
(* Two keys and three containers for KdfDocument: trees of depth three, or     *)
(* with siblings of both kinds, and a replaced subtree of two.  No key is      *)
(* special, and every property is a safety property: keys may be exchanged.    *)
EXTENDS KdfDocument, TLC
Symmetry == Permutations(Keys)
=============================================================================
