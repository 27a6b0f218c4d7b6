----------------------------- MODULE LinkedList -----------------------------
(***************************************************************************)
(* Walks over the linked lists that kdf_object and the string pool are     *)
(* made of.  A walk is described by the set of nodes it visits, so that    *)
(* what a loop does is stated without recursion.                           *)
(***************************************************************************)
EXTENDS Integers

\* The nodes that  for (e = head; e; e = next[e])  visits when it leaves the
\* loop at the first node in stop: the least set that holds head and is
\* closed under next outside stop.
Visited(nodes, head, next, stop) ==
  LET Closed == {S \in SUBSET nodes :
                   /\ head \in nodes => head \in S
                   /\ \A f \in S \ stop : next[f] \in nodes => next[f] \in S}
  IN  {e \in nodes : \A S \in Closed : e \in S}

\* A list is descending on D when its head is the greatest element of D and
\* each link leads to the greatest element below; NULL stands for none.
Descending(D, head, next, null) ==
  /\ IF D = {} THEN head = null
     ELSE head \in D /\ \A f \in D : f <= head
  /\ \A e \in D : IF \A f \in D : f >= e THEN next[e] = null
                  ELSE /\ next[e] \in D /\ next[e] < e
                       /\ \A f \in D : f < e => f <= next[e]

Ascending(D, head, next, null) ==
  /\ IF D = {} THEN head = null
     ELSE head \in D /\ \A f \in D : f >= head
  /\ \A e \in D : IF \A f \in D : f <= e THEN next[e] = null
                  ELSE /\ next[e] \in D /\ next[e] > e
                       /\ \A f \in D : f > e => f >= next[e]
=============================================================================
