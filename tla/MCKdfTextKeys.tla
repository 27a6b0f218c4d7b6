--------------------------- MODULE MCKdfTextKeys ---------------------------
(* Documents of one property, whose key is a word, or has in it what is a     *)
(* property or an object of its own to the parser.                            *)
EXTENDS KdfText

MCSpelling ==
  [name \in {"a = 1 b", "a{}b"} |->
     IF name = "a{}b" THEN <<"a", "{", "}", "b">> ELSE <<"a", "=", "1", "b">>]

Root(key) ==
  [type |-> "object", name |-> NULL, version |-> 0, members |-> <<[key |-> key, value |-> NullValue]>>]
MCDocuments == {Root(key) : key \in {"a", "b"} \cup DOMAIN MCSpelling}
MCValues == {NullValue} \cup MCDocuments
MCDepth == [v \in MCValues |-> IF v = NullValue THEN 0 ELSE 1]
=============================================================================
