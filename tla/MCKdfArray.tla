----------------------------- MODULE MCKdfArray -----------------------------
(* Small instances of KdfArray, with InitCap 1: the buffer grows from one     *)
(* value to two and to four.                                                  *)
EXTENDS KdfArray
=============================================================================
