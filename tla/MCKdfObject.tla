----------------------------- MODULE MCKdfObject -----------------------------
(* Small instances of KdfObject.  With an initial table of 3 buckets, k1 and  *)
(* k2 collide in every table and k3 shares their chain until the first growth *)
(* to 6 buckets, which happens when a third entry joins two.                  *)
EXTENDS KdfObject

MCHash == [k \in Keys |-> CASE k = "k1" -> 0 [] k = "k2" -> 12 [] k = "k3" -> 3]
=============================================================================
