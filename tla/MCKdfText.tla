----------------------------- MODULE MCKdfText -----------------------------
(* Documents for KdfText: one property with each kind of value, at the limits *)
(* of the integers and in each notation of a float; containers with up to two *)
(* members, three levels deep, followed by more properties; NULL strings and  *)
(* children; a key that is no identifier, and one that is a keyword.          *)
EXTENDS KdfTextWords

Str(s) == [type |-> "string", str |-> s]
Num(whole, frac, exp) == Decimal(FALSE, whole, frac, exp)
Floats == {Num(1, <<"5">>, 0), Num(2, <<>>, 0), Num(1, <<>>, 12), Num(1, <<"5">>, -7),
           Num(NotFinite, <<>>, 0), Decimal(TRUE, 0, <<"2", "5">>, 0)}
Plain == {NullValue, Bool(TRUE), Bool(FALSE), Str(NULL), Str(<<"a", "\\">>),
          Str(<<"\"", "\n", "n">>), Str(<<"#", "a">>), Str(<<"\\", "t", "\t">>),
          [type |-> "vec2", xs |-> <<Num(1, <<>>, 0), Num(0, <<"5">>, 0)>>],
          [type |-> "vec2", xs |-> <<Decimal(TRUE, 0, <<>>, 0), Decimal(TRUE, 2, <<>>, 0)>>],
          [type |-> "quat", xs |-> <<Num(0, <<>>, 0), Num(1, <<>>, 6), Num(0, <<>>, 0), Num(1, <<>>, 0)>>],
          [type |-> "asset_ref", str |-> <<"\"">>], [type |-> "resource_ref", str |-> NULL]}
  \cup {IntVal(n) : n \in {-16, -10, -1, 0, 9, 15}} \cup {UintVal(n) : n \in {0, 15, 16, 31}}
  \cup {FloatVal(x) : x \in Floats}

Obj(type, name, version, members) ==
  [type |-> type, name |-> name, version |-> version, members |-> members]
Arr(vs) == Obj("array", NULL, 0, [i \in DOMAIN vs |-> [key |-> NULL, value |-> vs[i]]])
One(key, v) == <<[key |-> key, value |-> v]>>
Inner == {Arr(<<>>), Obj("array", NULL, 0, NULL), Arr(<<IntVal(12), NullValue>>),
          Arr(<<FloatVal(Num(1, <<>>, 12))>>), Obj("subresource", NULL, 0, NULL),
          Obj("object", NULL, 1, One("k", IntVal(10))), Obj("object", "b", 0, <<>>),
          Obj("subresource", "b", 2, One("k", Str(<<"a">>))),
          Obj("subresource", NULL, 0, One("k", Bool(TRUE)))}
Nested == {Arr(<<v, w>>) : v \in Inner, w \in {Str(<<"a">>), Arr(<<NullValue>>)}}
  \cup {Obj("object", NULL, 0, One("b", v)) : v \in Inner}
MCDocuments ==
  {Obj("object", NULL, 0, <<>>), Obj("object", NULL, 0, One("my key", NullValue)),
   Obj("object", NULL, 0, One("null", NullValue))}
  \cup {Obj("object", "b", 3, One("k", v)) : v \in Plain \cup Inner \cup Nested}
  \cup {Obj("object", NULL, 0, One("k", v) \o One("b", w)) :
          v \in Inner \cup {IntVal(15)}, w \in {IntVal(12), Arr(<<IntVal(1)>>)}}
Atoms == Plain \cup {IntVal(n) : n \in {1, 10, 12}} \cup {FloatVal(Num(1, <<>>, 12)), Str(<<"a">>)}
Items == {Arr(<<NullValue>>), Arr(<<IntVal(1)>>)} \cup Inner
MCValues == Atoms \cup Items \cup Nested \cup MCDocuments
MCCharacters == {"a", "#", "n", "t", "\\", "\"", "\n", "\t"}
MCDepth == [v \in MCValues |-> IF v \in Atoms THEN 0 ELSE IF v \in Items THEN 1
                               ELSE IF v \in Nested THEN 2 ELSE 3]
MCSpelling == [name \in {} |-> <<>>]
=============================================================================
