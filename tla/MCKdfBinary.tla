---------------------------- MODULE MCKdfBinary ----------------------------
(* Documents for KdfBinary: a root object with up to two properties, each a   *)
(* plain value, or a container with up to two members that may hold another   *)
(* one; strings occur more than once, as keys, names and values, and NULL     *)
(* strings and children (allocations that once failed) occur too.             *)
EXTENDS KdfBinary

Str(s)    == [type |-> "string", lit |-> s]
Arr(vs)   == [type |-> "array", name |-> NULL, version |-> 0,
              members |-> [i \in DOMAIN vs |-> [key |-> NULL, value |-> vs[i]]]]
Obj(type, name, version, members) ==
  [type |-> type, name |-> name, version |-> version, members |-> members]
Plain == {[type |-> "null", lit |-> NULL], [type |-> "vec2", lit |-> 7], Str("a"),
          Str("b"), Str("k"), Str(EMPTY), Str(NULL), [type |-> "resource_ref", lit |-> "k"]}
Inner == {Arr(<<>>), Obj("array", NULL, 0, NULL), Arr(<<Str("b"), Str("a")>>),
          Obj("object", NULL, 0, NULL),
          Obj("subresource", "b", 2, <<[key |-> "k", value |-> Str("b")]>>)}
Nested == {Arr(<<v, w>>) : v \in Inner, w \in {Str("k"), [type |-> "null", lit |-> NULL]}}
  \cup {Obj("object", NULL, 0, <<[key |-> "b", value |-> v]>>) : v \in Inner}
Shorts == {<<>>}
  \cup {<<[key |-> "k", value |-> v]>> : v \in (Plain \ {Str("b"), Str("k")}) \cup Inner \cup Nested}
Longs == {<<[key |-> "k", value |-> v], [key |-> "b", value |-> w]>> :
            v \in Inner \cup {Str(EMPTY)}, w \in Inner \cup {Str("a")}}
MCDocuments == {Obj("object", NULL, 0, members) : members \in Shorts}
          \cup {Obj("object", "a", 1, members) : members \in Longs}
MCValues == Plain \cup Inner \cup Nested \cup MCDocuments
MCDepth == [v \in MCValues |-> IF v \in Plain THEN 0 ELSE IF v \in Inner THEN 1
                               ELSE IF v \in Nested THEN 2 ELSE 3]
=============================================================================
